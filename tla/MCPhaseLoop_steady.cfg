SPECIFICATION Spec
CONSTANTS
  Paths = {"ctx", "tgt"}
  Repos <- MCRepos
  Context = "context"
  RepoOf <- MCRepoOf
  Mounted = {"target"}
  Specs <- AllSpecs
  WorkNext = {"git-commit-work"}
  Editors = {"triage", "work", "reflect"}
  MaxCycles = 2
  MaxCrashes = 0
  CommitMayFail = FALSE
  TornWrites = FALSE
INVARIANTS
  BaselinesCover
  

  
  
