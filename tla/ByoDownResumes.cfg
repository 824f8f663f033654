SPECIFICATION DownSpec
CONSTANTS
  NoHost = NoHost
  Foreign = Foreign
  Hosts = {h1}
  Procs = {p1}
  Selections <- YesSelection
  h1 = h1
  p1 = p1
PROPERTY DownCompletes
