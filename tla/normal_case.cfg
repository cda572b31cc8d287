SPECIFICATION Spec
CONSTANTS
  N = 4
  eps = eps
  nul = nul
  EmptyDigest <- eps
  NullHash <- nul
  NullDecodes = FALSE
  Byzantine <- NoReplica
  MaxView = 0
  MaxFailures = 1
  Failures <- NormalCaseFailures
VIEW QuorumView
ACTION_CONSTRAINTS
  MainFirst
  LostIsLate
CHECK_DEADLOCK FALSE
INVARIANTS
  ExecutedIsCertified
  TimerCoverage
  BackupsActOnQuorums
