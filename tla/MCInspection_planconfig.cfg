SPECIFICATION Spec
CONSTANTS
  Ids = {1, 2, 3, 4}
  Repos = {"r", "s"}
  ItemIds = {"a", "b", "c"}
  Worlds <- ConfigWorlds
  Unset = Unset
  NoSegment = "no segment"
  Refs <- MCRefs
  MaxDepth = 3
INVARIANTS
  PlanConfigOverrides
CHECK_DEADLOCK FALSE
