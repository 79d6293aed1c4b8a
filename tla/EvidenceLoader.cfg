\* Two uploads of two parts: every fault at once, and all but a failing disk.
CONSTANTS
  Upload = {u1, u2}
  File <- MCFile
  Field = Field
  MaxParts = 2
  Scenario = {{"redis", "broker", "disk", "leave", "crash"},
              {"redis", "broker", "leave", "crash"}}
SPECIFICATION Spec
INVARIANTS AnnouncedIsComplete ReadyHasChecksum RejectedLeavesNothing
PROPERTIES AbandonedIsSettled
