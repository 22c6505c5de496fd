SPECIFICATION Spec
CONSTANTS
  Users = {u1}
  Passwords = {p1, t1}
  Temps = {t1}
  Sids = {s1}
  Rids = {q1}
  Reqs = {r1, r2}
  Ops <- PasswordResetOps
  None = None
  u1 = u1
  p1 = p1
  t1 = t1
  s1 = s1
  q1 = q1
  r1 = r1
  r2 = r2
SYMMETRY Symmetry
PROPERTIES
  RejectionsStand
