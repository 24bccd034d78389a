CONSTANTS
  SEEDS = {s1, s2}
  MESSAGES = {m1, m2}
  SKFILES = {"app_sk"}
  PKFILES = {"app_pk"}
  PEMS = {"openssl_key_pem", "openssl_app_key_pem"}
  MaxRuns = 4
  MaxBusy = 1
  MaxFaults = 1
SYMMETRY Interchangeable
SPECIFICATION Spec
INVARIANT ExportIsOfThisSeed
CHECK_DEADLOCK FALSE
