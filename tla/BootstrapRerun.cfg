SPECIFICATION FairSpec
CONSTANTS
  Repos = {r1}
  r1 = r1
  r2 = r2
PROPERTY RerunInstalls
