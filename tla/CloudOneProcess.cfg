SPECIFICATION FairSpec
CONSTANTS
  NoMachine = NoMachine
  Machines = {m1, m2}
  Procs = {p1}
  m1 = m1
  m2 = m2
  p1 = p1
INVARIANT TypeOK
INVARIANT NoSilentOrphan
INVARIANT NoOrphanRegistration
PROPERTY RecordDroppedOnlyWhenGone
PROPERTY BillingStops
