SPECIFICATION MCSpec
CONSTANTS
  Users = {u1, u2}
  Passwords = {p1, p2, t1}
  Temps = {t1}
  Sids = {s1, s2, s3}
  Rids = {q1}
  Reqs = {r1, r2}
  Ops <- OpNames
  Password = p1
  None = None
  u1 = u1
  u2 = u2
  p1 = p1
  p2 = p2
  t1 = t1
  s1 = s1
  s2 = s2
  s3 = s3
  q1 = q1
  r1 = r1
  r2 = r2
SYMMETRY Symmetry
INVARIANTS
  TypeOK
  GrantedWithinWindow
  ParentRetired
  SurvivorsRaced
PROPERTIES
  ImplementsLedger
