CONSTANTS
  llm = llm
  autogen = autogen
  c1 = c1
  c2 = c2
  admin = admin
  nobody = nobody
  stop = stop
  Adapters <- MCAdapters
  AgentAdapter = {autogen}
  HookFirst = {autogen}
  Call = {c1, c2}
  Admin = admin
  Nobody = nobody
  Sentinel = stop
  MaxOps = 3
  Alert = {a1, a2}
  OldAlert = {a1}
  Writer = {w1, w2}
  Reader = {r1, r2}
  Summary = {"lifecycle_summary", "trending"}
  Ttl = 1
  Client = {k1, k2}
  Replaying = {k1}
  PageSize = 1
  MaxTime = 3
SPECIFICATION ServicesSpec
CHECK_DEADLOCK FALSE
VIEW InService
INVARIANTS
  ServicesTypeOK
  HostUnharmed
  OneSharedSession
  BeforeComesFirst
  StaleOnlyIfOutrun
  HistoryIsCopied
  RestoredIsAdopted
  
