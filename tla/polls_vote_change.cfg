SPECIFICATION Spec
CONSTANTS
  Users = {u1}
  Options = {o1, o2}
  Reqs = {r1, r2}
  Ops <- VoteOps
  CounterBound = 1
  None = None
  u1 = u1
  o1 = o1
  o2 = o2
  r1 = r1
  r2 = r2
SYMMETRY Symmetry
PROPERTIES
  NoChangeWhenForbidden
