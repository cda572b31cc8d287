SPECIFICATION Spec
CONSTANTS
  N = 4
  eps = eps
  nul = nul
  EmptyDigest <- eps
  NullHash <- nul
  NullDecodes = FALSE
  Byzantine <- NoReplica
  MaxView = 1
  MaxFailures = 0
  Failures <- NoFailures
VIEW LiveView
ACTION_CONSTRAINTS
  MainFirst
  FirstSlot
  OneExecutes
CHECK_DEADLOCK FALSE
INVARIANTS
  ExecutesOnce
