SPECIFICATION MCSpec
CONSTANTS
  Users = {u1, u2}
  Rooms = {r1}
  Handlers = {h1, h2}
  Topics = {t1, t2}
  Messages = {m1, m2}
  Scopes = {s1, s2}
  ChatOps = {"post", "pin", "list", "markRead", "createTopic", "deleteTopic", "setScope", "patchScope"}
  None = None
  u1 = u1
  u2 = u2
  r1 = r1
  h1 = h1
  h2 = h2
  t1 = t1
  t2 = t2
  m1 = m1
  m2 = m2
  s1 = s1
  s2 = s2
SYMMETRY Symmetry
INVARIANTS
  ConversationSound
  SeenWithinWindow
PROPERTIES
  MarksWholeTopic
