CONSTANTS
  SEEDS = {s1, s2}
  MESSAGES = {m1, m2}
  SKFILES = {"app_sk"}
  PKFILES = {"app_pk"}
  PEMS = {"openssl_key_pem", "openssl_app_key_pem"}
  MaxRuns = 4
  MaxBusy = 2
  MaxFaults = 1
SYMMETRY Interchangeable
SPECIFICATION Spec
INVARIANTS PairMatches FailedSignKeepsOld CleanRunIsExact
CHECK_DEADLOCK FALSE
