SPECIFICATION Spec
CONSTANTS
  ann = ann
  bob = bob
  t1 = t1
  t2 = t2
  Names = {ann, bob}
  Threads = {t1, t2}
  HasKey = FALSE
  AdminEmails = {bob}
  LOCKOUT_AFTER = 2
  MaxRequests = 4
  Faults = {"restart"}
SYMMETRY Interchangeable
INVARIANTS
  AdminRemains
  FailuresCounted
  MirrorAgrees
  TokensVerify
\* no request need come
CHECK_DEADLOCK FALSE
