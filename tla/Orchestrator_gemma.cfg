\* README.md:76 promises a call to Gemma for a small gap; nothing fails.
CONSTANTS
  c1 = c1
  c2 = c2
  Replica = {r1}
  Case <- MCCase
  ML1Message <- FewMessages
  MaxMessages = 1
  LockTTL = 1
  ToolTimeout = 1
  ToolLimit = 1
  Scenario = {{}}
  Prompt = FALSE
SPECIFICATION SafeSpec
INVARIANTS UncertainAsksGemma
\* Every replica may be waiting for a next message.
CHECK_DEADLOCK FALSE
