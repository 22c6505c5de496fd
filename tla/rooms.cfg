SPECIFICATION MCSpec
CONSTANTS
  Users = {u1, u2, u3}
  Rooms = {r1, r2}
  Handlers = {h1, h2}
  RoomOps = {"create", "delete", "add", "batch", "bulkAdd", "role", "remove", "bulkRemove"}
  None = None
  Pair = {u1, u2}
  Lobby = r1
  Notifications = {n1, n2}
  Views = {v1, page}
  Page = page
  MaxMoves = 2
  MaxMishaps = 2
  Pace = 3
  u1 = u1
  u2 = u2
  u3 = u3
  r1 = r1
  r2 = r2
  h1 = h1
  h2 = h2
  n1 = n1
  n2 = n2
  v1 = v1
  page = page
SYMMETRY Symmetry
INVARIANTS
  RoomTypeOK
  OneDirectRoom
  MembersTold
PROPERTIES
  KeepsMembership
  ChangedByManagers
  NoticesSound
CHECK_DEADLOCK FALSE
