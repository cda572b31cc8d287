SPECIFICATION Spec
CONSTANTS
  N = 4
  eps = eps
  nul = nul
  EmptyDigest <- eps
  NullHash <- nul
  NullDecodes = FALSE
  Byzantine <- NoReplica
  MaxView = 1
  MaxFailures = 0
  Failures <- NoFailures
VIEW QuorumView
ACTION_CONSTRAINTS
  MainFirst
  FirstSlot
  PreparedByOne
CHECK_DEADLOCK FALSE
INVARIANTS
  CommitAgreement
  ExecutedIsCertified
  BackupsActOnQuorums
