\* Every fault at once, all but a failing disk, and none.
CONSTANTS
  c1 = c1
  c2 = c2
  Case <- MCCase
  ML2Message <- MCMessage
  Malformed = Malformed
  MaxTopic = 3
  MaxCrashes = 2
  Scenario = {{"redis", "broker", "disk", "crash"}, {"redis", "broker", "crash"}, {}}
SPECIFICATION Spec
INVARIANTS DeadLetterNotDecided
PROPERTIES NewestDecides HighOnlyWithReport EveryMessageSettled
\* The engine waits for ever when the topic has nothing more for it.
CHECK_DEADLOCK FALSE
