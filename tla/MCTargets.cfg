SPECIFICATION FairSpec
CONSTANTS
  Components = {"a", "b", "c"}
  Repos = {"r", "s"}
  RepoOf <- MCRepoOf
  Deps <- MCDeps
  Indexed = {"a", "c"}
  Other = {"b", "c"}
  Agents = FALSE
  Prunes = TRUE
  MaxFaults = 1
  Meddling = {"r"}
INVARIANTS
  RowsHaveWorktrees
PROPERTIES
  RequestsKept
  
  
