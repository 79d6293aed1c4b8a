\* README.md:74 promises one worker per case; nothing fails in this run.
CONSTANTS
  c1 = c1
  c2 = c2
  Replica = {r1, r2}
  Case <- MCCase
  ML1Message <- FewMessages
  MaxMessages = 2
  LockTTL = 2
  ToolTimeout = 2
  ToolLimit = 1
  Scenario = {{}}
  Prompt = TRUE
SPECIFICATION SafeSpec
INVARIANTS SingleWorker
\* Every replica may be waiting for a next message.
CHECK_DEADLOCK FALSE
