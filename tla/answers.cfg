SPECIFICATION MCSpec
CONSTANTS
  Users = {u1, u2}
  Options = {o1, o2}
  Reqs = {r1, r2}
  Ops <- VoteOps
  CounterBound = 1
  None = None
  Units = {1, 2, 3}
  Names = {1, 2, 3}
  Tags = {t1}
  OrgReqs = {h1, h2}
  resolver = h1
  changer = h2
  Top = Top
  Same = Same
  Posts = {p1}
  Titles = {manager}
  Roles = {}
PROPERTIES
  Answered
  WalkEnds
