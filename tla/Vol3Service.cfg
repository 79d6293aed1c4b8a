\* Everything at once, and the combinations under which more is promised.
CONSTANTS
  Worker = {w1, w2}
  NumPlugins = 2
  MemoryCase = {m1, m2}
  LogCase = {l1}
  Malformed = Malformed
  MaxTopic = 2
  MaxCrashes = 1
  Scenario = {{"redis", "commit", "expire", "crash"},
              {"redis", "crash"}, {"commit", "crash"},
              {"commit", "expire", "crash"}, {"expire"}}
SPECIFICATION Spec
INVARIANTS TypeOK DeliveredOnce KeysAreTrue
PROPERTIES DoneMeansSettled NoRedundantExecution EveryMemoryCaseAnalysed TopicDrained
\* The service waits for ever when the topic has nothing more for it.
CHECK_DEADLOCK FALSE
