-------------------------------- MODULE Xof ---------------------------------
(***************************************************************************)
(* What an extendable-output function promises its callers: however the    *)
(* input is cut into calls of absorb and the output into calls of squeeze, *)
(* the bytes read are the output stream of the whole input, in order.      *)
(***************************************************************************)
EXTENDS Naturals, Sequences

CONSTANT StreamByte(_, _)    \* byte n of the stream of an input of len bytes

VARIABLES phase,    \* "absorb", then "squeeze"
          total,    \* bytes absorbed
          out       \* the bytes squeezed

xvars == <<phase, total, out>>

XofInit == phase = "absorb" /\ total = 0 /\ out = << >>

Absorb ==
  /\ phase = "absorb"
  /\ total' >= total
  /\ UNCHANGED <<phase, out>>

Finalize == phase = "absorb" /\ phase' = "squeeze" /\ UNCHANGED <<total, out>>

Squeeze ==
  /\ phase = "squeeze"
  /\ Len(out') >= Len(out)
  /\ \A n \in 1..Len(out') :
       out'[n] = IF n <= Len(out) THEN out[n] ELSE StreamByte(total, n)
  /\ UNCHANGED <<phase, total>>

XofNext == Absorb \/ Finalize \/ Squeeze

XofSpec == XofInit /\ [][XofNext]_xvars
=============================================================================
