SPECIFICATION EffectiveSpec
CONSTANTS
  N = 4
  eps = eps
  nul = nul
  EmptyDigest <- eps
  NullHash <- nul
  NullDecodes = FALSE
  Byzantine <- Replica0
  MaxView = 1
  MaxFailures = 1
  Failures <- ViewChangeFailures
VIEW LiveView
CHECK_DEADLOCK FALSE
INVARIANTS
  EntersViewClean
  CommitAgreement
  ExecutedIsCertified
  PrePreparesAgree
  BackupsActOnQuorums
  ViewChangeEnds
PROPERTIES
  ViewsAdvance
  EveryoneChangesView
