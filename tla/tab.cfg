SPECIFICATION MCSpec
CONSTANTS
  Users = {u1}
  Tabs = {t1}
  Calls = {c1, c2}
  Slots = {x1, x2}
  Sids = {s1, s2}
  Mishaps = {"fail", "reload", "leave", "retire"}
  None = None
  u1 = u1
  t1 = t1
  c1 = c1
  c2 = c2
  x1 = x1
  x2 = x2
  s1 = s1
  s2 = s2
  Ids = {row1, row2}
  own = row1
  Changes = {m1}
  UserIds = {v1, v2}
  Nobody = Nobody
  before = v1
  Rows = {r1, r2}
  NoRow = NoRow
  MaxVersion = 2
INVARIANTS
  EntriesSound
PROPERTIES
  EverythingEnds
  EditingSound
