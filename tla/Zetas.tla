------------------------------- MODULE Zetas -------------------------------
(***************************************************************************)
(* The numbers that the transform of common/ntt.c and montgomery_reduce of *)
(* common/reduce.c have built in, for the modulus of Rounding.  Module Ntt  *)
(* computes its zetas as powers of the root of unity; here the table of    *)
(* the program is compared with those powers.                              *)
(*                                                                         *)
(* TLC's integers are as wide as an int32_t: products modulo Q are taken a *)
(* byte of the second factor at a time, and 2^32 is never written.         *)
(***************************************************************************)
EXTENDS Rounding, Sequences, Functions

ROOT_OF_UNITY == 1753

\* zetas[0] is never read: ntt counts ++k from 0, invntt_tomont --k down to 1.
zetaTable == <<
  0, 25847, -2608894, -518909, 237124, -777960, -876248, 466468,
  1826347, 2353451, -359251, -2091905, 3119733, -2884855, 3111497, 2680103,
  2725464, 1024112, -1079900, 3585928, -549488, -1119584, 2619752, -2108549,
  -2118186, -3859737, -1399561, -3277672, 1757237, -19422, 4010497, 280005,
  2706023, 95776, 3077325, 3530437, -1661693, -3592148, -2537516, 3915439,
  -3861115, -3043716, 3574422, -2867647, 3539968, -300467, 2348700, -539299,
  -1699267, -1643818, 3505694, -3821735, 3507263, -2140649, -1600420, 3699596,
  811944, 531354, 954230, 3881043, 3900724, -2556880, 2071892, -2797779,
  -3930395, -1528703, -3677745, -3041255, -1452451, 3475950, 2176455, -1585221,
  -1257611, 1939314, -4083598, -1000202, -3190144, -3157330, -3632928, 126922,
  3412210, -983419, 2147896, 2715295, -2967645, -3693493, -411027, -2477047,
  -671102, -1228525, -22981, -1308169, -381987, 1349076, 1852771, -1430430,
  -3343383, 264944, 508951, 3097992, 44288, -1100098, 904516, 3958618,
  -3724342, -8578, 1653064, -3249728, 2389356, -210977, 759969, -1316856,
  189548, -3553272, 3159746, -1851402, -2409325, -177440, 1315589, 1341330,
  1285669, -1584928, -812732, -1439742, -3019102, -3881060, -3628969, 3839961,
  2091667, 3407706, 2316500, 3817976, -3342478, 2244091, -2446433, -3562462,
  266997, 2434439, -1235728, 3513181, -3520352, -3759364, -1197226, -3193378,
  900702, 1859098, 909542, 819034, 495491, -1613174, -43260, -522500,
  -655327, -3122442, 2031748, 3207046, -3556995, -525098, -768622, -3595838,
  342297, 286988, -2437823, 4108315, 3437287, -3342277, 1735879, 203044,
  2842341, 2691481, -2590150, 1265009, 4055324, 1247620, 2486353, 1595974,
  -3767016, 1250494, 2635921, -3548272, -2994039, 1869119, 1903435, -1050970,
  -1333058, 1237275, -3318210, -1430225, -451100, 1312455, 3306115, -1962642,
  -1279661, 1917081, -2546312, -1374803, 1500165, 777191, 2235880, 3406031,
  -542412, -2831860, -1671176, -1846953, -2584293, -3724270, 594136, -3776993,
  -2013608, 2432395, 2454455, -164721, 1957272, 3369112, 185531, -1207385,
  -3183426, 162844, 1616392, 3014001, 810149, 1652634, -3694233, -1799107,
  -3038916, 3523897, 3866901, 269760, 2213111, -975884, 1717735, 472078,
  -426683, 1723600, -1803090, 1910376, -1667432, -1104333, -260646, -3833893,
  -2939036, -2235985, -420899, -2286327, 183443, -976891, 1612842, -3545687,
  -554416, 3919660, -48306, -1362209, 3937738, 1400424, -846154, 1976782
>>

\* A digit lost on the way from the script that printed the table.
zetasDigitLost(k) == IF k = 181 THEN zetaTable[k + 1] \div 10 ELSE zetaTable[k + 1]
zetas(k) == zetaTable[k + 1]

f    == 41978       \* "mont^2/256"
MONT == -4186625    \* "2^32 % Q"
QINV == 58728449    \* "q^(-1) mod 2^32"

-----------------------------------------------------------------------------
(***************************************************************************)
(* What they stand for.                                                    *)
(***************************************************************************)
\* a * b mod Q for a in 0..Q-1 and 0 <= b < 2^24
MulMod(a, b) ==
  LET Shifted(x) == (x * 256) % Q
      By(n)      == (a * n) % Q
  IN (Shifted((Shifted(By(b \div 65536)) + By((b \div 256) % 256)) % Q) + By(b % 256)) % Q

\* g^e modulo Q
PowerMod(g, e) ==
  LET p[n \in 0..e] ==
        IF n = 0 THEN 1
        ELSE LET half == p[n \div 2]
             IN MulMod(MulMod(half, half), IF n % 2 = 1 THEN g ELSE 1)
  IN p[e]

\* c * 2^32 modulo Q
Mont(c) == MulMod(MulMod(c, 65536), 65536)

\* The 8 bits of k in reverse order.
brv8(k) == SumFunction([b \in 0..7 |-> ((k \div 2^b) % 2) * 2^(7 - b)])

\* Entry k is the root to the power of k's bits reversed, in Montgomery form,
\* and within the bounds that montgomery_reduce and the growth of the
\* coefficients by Q in a layer rely on.
ZetaIsRoot(k) ==
  /\ Magnitude(zetas(k)) < Q
  /\ zetas(k) % Q = Mont(PowerMod(ROOT_OF_UNITY, brv8(k)))

\* The root is one of order 512, MONT is 2^32, f is 2^64/256 and QINV inverts Q
\* modulo 2^32 (by halves of 16 bits: Q = 127 * 2^16 + 57345).
ConstantsStandFor ==
  /\ MulMod(PowerMod(ROOT_OF_UNITY, 128), PowerMod(ROOT_OF_UNITY, 128)) = Q - 1
  /\ MONT % Q = Mont(1)
  /\ MulMod(f, 256) = Mont(Mont(1))
  /\ LET lo == (Q % 65536) * (QINV % 65536)
         hi == lo \div 65536 + (Q \div 65536) * (QINV % 65536) + (Q % 65536) * (QINV \div 65536)
     IN lo % 65536 = 1 /\ hi % 65536 = 0
=============================================================================
