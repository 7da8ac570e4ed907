SPECIFICATION SurveysSpec
CONSTANTS
  Plans = {1, 2, 3}
  Strangers = {4}
  Phases = {triage}
  Backlogs = {v1, v2}
  None = None
  Torn = Torn
  MaxAttempts = 3
  MaxSurveys = 2
  MaxChanges = 1
  MaxFaults = 1
  Repos = {1, 2}
  Versions = {t1, t2}
  First = t1
  Directed = {dependsOn}
  Symmetric = {coImplements}
  Absent = Absent
  Concurrency = 1
  MaxRuns = 2
  MaxActs = 2
  MaxLost = 1
  MaxProposals = 2
INVARIANTS
  SurveyIsCurrent
  SurfaceDescribesKey
  
  RelationsSound
CHECK_DEADLOCK FALSE
