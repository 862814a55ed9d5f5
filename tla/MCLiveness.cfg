CONSTANTS
  Session = {s1, s2}
  MaxEventsPerSession = 2
  MaxSessions = 2
  Caller = {c1}
  Loop = {l1}
  NoOne = nobody
  MaxPublished = 2
  MaxBadRollbacks = 1
  MaxCrashes = 0
  Task = {main}
  Main = main
  Context = {k1}
  MaxRetries = 1
  MaxEvents = 1
  MaxTimeouts = 6
  MaxFaults = 0
SPECIFICATION LivenessSpec
CHECK_DEADLOCK FALSE
PROPERTIES
  FilesGrowOn
  AgentRunsOn
