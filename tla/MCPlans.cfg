SPECIFICATION PlansSpec
CONSTANTS
  Verbs = {"v1", "v2", "v3"}
  Concurrent = FALSE
  Unset = Unset
  Titles <- MCTitles
  Texts <- MCTexts
  AnchorFlags <- MCAnchorFlags
  Seeds <- MCSeeds
  MaxRecords <- MCMaxRecords
  NoItem = NoItem
  ItemIds = {"p", "q", "r"}
  Serves <- MCServes
  MaxCalls = 6
  Absent = Absent
  Jobs = {1, 2}
  OldPlans <- MCOldPlans
  Proposals <- MCProposals
  Missing = Missing
  Embedded <- MCEmbedded
  LegacyDirs <- MCLegacyDirs
  Slugs = {"s", "w"}
  InitOnLegacy = FALSE
  MaxKills = 2
INVARIANTS
  StoreSound
  
  ConfigurationKept
PROPERTIES
  ImplementsAtomicFile
  RecordHistory
  
  
CHECK_DEADLOCK FALSE
