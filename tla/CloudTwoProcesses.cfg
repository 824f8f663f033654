SPECIFICATION Spec
CONSTANTS
  NoMachine = NoMachine
  Machines = {m1}
  Procs = {p1, p2}
  m1 = m1
  p1 = p1
  p2 = p2
SYMMETRY Symmetry
INVARIANT IInv
INVARIANT DestroyedMeansGone
VIEW WithoutHistory
