\* Two replicas under every fault, and under none.
CONSTANTS
  c1 = c1
  c2 = c2
  Replica = {r1, r2}
  Case <- MCCase
  ML1Message <- MCMessage
  MaxMessages = 2
  LockTTL = 1
  ToolTimeout = 1
  ToolLimit = 1
  Scenario = {{"redis", "commit", "crash"}, {}}
  Prompt = FALSE
SPECIFICATION Spec
INVARIANTS TypeOK ExclusiveWithinTTL ToolsAreJoined ClaimsAreKept
PROPERTIES HandlerReturns EveryCaseHandled
\* Every replica may be waiting for a next message.
CHECK_DEADLOCK FALSE
