SPECIFICATION Spec
CONSTANTS
  N = 4
  eps = eps
  nul = nul
  EmptyDigest <- eps
  NullHash <- nul
  NullDecodes = FALSE
  Byzantine <- Replica3
  MaxView = 1
  MaxFailures = 0
  Failures <- NoFailures
VIEW LiveView
ACTION_CONSTRAINTS
  MainBeforeTimers
  ByzantineFirst
  FirstSlot
CHECK_DEADLOCK FALSE
INVARIANTS
  TypeOK
  EntersViewClean
  LedgerAgreement
  ExecutedIsCertified
  ExecutedSurvives
  ViewHasQuorum
  TimerCoverage
  BackupsActOnQuorums
  ViewChangesAreValid
PROPERTIES
  RefinesViews
  RefinesConsensus
