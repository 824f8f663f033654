SPECIFICATION FairSpec
CONSTANTS
  ReadinessAttempts = 2
  ProbeAttempts = 3
  WaitBudget = 2
  MaxMissing = 1
INVARIANT TypeOK
INVARIANT ConsentFirst
INVARIANT BootstrapFits
INVARIANT NoneOnBrokenBoot
INVARIANT WaitBounded
PROPERTY ConvergedIsUsed
