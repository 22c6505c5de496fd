SPECIFICATION MCSpec
CONSTANTS
  Users = {u1, u2}
  Tabs = {t1, t2}
  Calls = {c1, c2}
  Slots = {x1, x2, x3}
  Sids = {s1, s2, s3}
  Mishaps = {}
  None = None
  u1 = u1
  u2 = u2
  t1 = t1
  t2 = t2
  c1 = c1
  c2 = c2
  x1 = x1
  x2 = x2
  x3 = x3
  s1 = s1
  s2 = s2
  s3 = s3
SYMMETRY Symmetry
INVARIANTS
  RefusedForCause
  SessionsSound
  CookieMatchesTab
CHECK_DEADLOCK FALSE
