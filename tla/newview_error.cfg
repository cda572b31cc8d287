SPECIFICATION Spec
CONSTANTS
  N = 4
  eps = eps
  nul = nul
  EmptyDigest <- eps
  NullHash <- nul
  NullDecodes = FALSE
  Byzantine <- NoReplica
  MaxView = 1
  MaxFailures = 1
  Failures <- NewViewFailures
VIEW LiveView
ACTION_CONSTRAINTS
  MainFirst
  FirstSlot
  SplitNewView
CHECK_DEADLOCK FALSE
INVARIANTS
  LedgerAgreement
