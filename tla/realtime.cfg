SPECIFICATION MCSpec
CONSTANTS
  Rooms = {r1}
  Topics = {t1}
  Messages = {m1, m2}
  OldIn <- OneOld
  RoomOf <- InFirst
  RoomsList = RoomsList
  None = None
  MaxFailures = 1
  MaxVisits = 2
  r1 = r1
  t1 = t1
  m1 = m1
  m2 = m2
  Runs = {s1, s2}
  Codes = {c1}
  DemoCode = c2
  Voters = {v1, v2}
  Options = {o1, o2}
  VoteOf <- OneVote
  Guests = {g1, g2}
  Invited = {g1}
  MaxStarts = 2
  MaxChanges = 1
  first = s1
  second = s2
  voter = v1
  choice = o1
  Pace = 2
  Editors = {e1, tab}
  Tab = tab
  Sayings = {a, b}
  MaxEdits = 2
  MaxLosses = 1
  MaxOpenings = 2
  MaxHappens = 3
  saying = a
INVARIANTS
  ListsExact
  CountsExact
  JoinedActive
  EndsWell
  OneOfEachUnlessOverlapped
  FeedSound
CHECK_DEADLOCK FALSE
PROPERTIES
  ShownEventually
