SPECIFICATION Spec
CONSTANTS
  Ids = {"a", "b", "c"}
  m = m
  n = n
  Intents = {m, n}
  Seeds <- MCSeeds
SYMMETRY IntentSymmetry
INVARIANTS
  ListedOnce
  DependenciesSound
  CascadeJustified
PROPERTIES
  TerminalIsFinal
