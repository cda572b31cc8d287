SPECIFICATION LockedSpec
CONSTANTS
  N = 4
  eps = eps
  nul = nul
  EmptyDigest <- eps
  NullHash <- nul
  NullDecodes = FALSE
  Byzantine <- Replica3
  MaxView = 0
  MaxFailures = 0
  Failures <- NoFailures
CHECK_DEADLOCK FALSE
INVARIANTS
  PrimaryActsOnQuorums
PROPERTIES
  EveryoneExecutes
