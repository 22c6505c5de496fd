SPECIFICATION TaskSpec
CONSTANTS
  Users = {u1}
  Handlers = {h1, h2, h3}
  Ops = {"add", "remove", "work", "review"}
  u1 = u1
  h1 = h1
  h2 = h2
  h3 = h3
SYMMETRY Symmetry
INVARIANTS
  ReviewedIsSubmitted
