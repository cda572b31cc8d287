SPECIFICATION Spec
CONSTANTS
  N = 4
  eps = eps
  nul = nul
  EmptyDigest <- eps
  NullHash <- nul
  NullDecodes = FALSE
  Byzantine <- NoReplica
  MaxView = 2
  MaxFailures = 0
  Failures <- NoFailures
VIEW LiveView
ACTION_CONSTRAINTS
  MainFirst
  LostCertificate
CHECK_DEADLOCK FALSE
INVARIANTS
  LedgerAgreement
