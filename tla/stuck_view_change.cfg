SPECIFICATION Spec
CONSTANTS
  N = 4
  eps = eps
  nul = nul
  EmptyDigest <- eps
  NullHash <- nul
  NullDecodes = FALSE
  Byzantine <- Replica1
  MaxView = 1
  MaxFailures = 0
  Failures <- NoFailures
VIEW LiveView
ACTION_CONSTRAINTS
  MainBeforeTimers
  ByzantineFirst
CHECK_DEADLOCK FALSE
INVARIANTS
  ViewChangeEnds
