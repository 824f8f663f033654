SPECIFICATION FairSpec
CONSTANTS
  Runners <- TwoRunners
  NoRunner <- Nobody
INVARIANT TypeOK
INVARIANT JobSeen
INVARIANT DroppedClean
PROPERTY FinalizedStaysDown
PROPERTY CredentialsGo
