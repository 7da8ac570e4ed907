SPECIFICATION FairSpec
CONSTANTS
  Paths = {"ctx"}
  Repos <- MCRepos
  Context = "context"
  RepoOf <- MCRepoOf
  Mounted = {}
  Specs <- Failing
  WorkNext = {"git-commit-work"}
  Editors = {}
  MaxCycles = 2
  MaxCrashes = 2
  CommitMayFail = FALSE
  TornWrites = TRUE
INVARIANTS
  SessionsKept
  TriageTakesEffect
  CleanAtCycleEnd
PROPERTIES
  BoundaryCompletes
