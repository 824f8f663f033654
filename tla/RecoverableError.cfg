SPECIFICATION FairSpec
CONSTANTS
  ReadinessAttempts = 2
  ProbeAttempts = 3
  WaitBudget = 2
  MaxMissing = 0
PROPERTY RecoverableProceeds
