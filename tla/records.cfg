SPECIFICATION MCSpec
CONSTANTS
  Users = {a, b, c}
  Handlers = {h1, h2}
  Ops = {"add", "remove", "update", "delete", "work", "review", "confirm"}
  Times = {1, 2, 3}
  Unchanged = Unchanged
  NumberBound = 2
  Assignable = {a, b}
  Reviewed = {c}
  Units = {1, 2, 3}
  Names = {a, b, c}
  Tags = {t1}
  OrgReqs = {h1, h2}
  Top = Top
  Same = Same
  Posts = {p1}
  Titles = {manager}
  Roles = {1, 2}
  RoleNames = {1, 2}
  Codes = {}
  Admin = c
  Managers = {h1, h2}
  Accounts = {1, 2}
  Mails = {a, b}
  Applications = {1, 2}
  Desks = {h1, h2}
  Nobody = Nobody
SYMMETRY Symmetry
INVARIANTS
  TaskTypeOK
  RecordTypes
  LegalUnlessOverwritten
  EventsSound
  OrgSound
  SettledUnlessDisturbed
PROPERTIES
  ProgressKept
  NothingFromNothing
CHECK_DEADLOCK FALSE
