SPECIFICATION UpSpec
CONSTANTS
  NoHost = NoHost
  Foreign = Foreign
  Hosts = {h1, h2}
  Procs = {p1}
  Selections <- SomeSelections
  h1 = h1
  h2 = h2
  p1 = p1
INVARIANT TypeOK
PROPERTY SavedMeansServing
PROPERTY DroppedMeansDeregistered
PROPERTY UpCompletes
