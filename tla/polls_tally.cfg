SPECIFICATION Spec
CONSTANTS
  Users = {u1, u2}
  Options = {o1, o2}
  Reqs = {r1, r2}
  Ops <- OpNames
  CounterBound = 2
  None = None
  u1 = u1
  u2 = u2
  o1 = o1
  o2 = o2
  r1 = r1
  r2 = r2
SYMMETRY Symmetry
INVARIANTS
  TypeOK
  TallyExact
PROPERTIES
  RecordedVotesStand
