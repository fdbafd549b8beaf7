\* A user who edits the entry while the runtime is being replaced.
SPECIFICATION FairDevSpec
CONSTANTS
  e1 = e1
  e2 = e2
  Exports = {e1, e2}
  Configured = e1
  Broken = Broken
  MaxEdits = 2
  MaxRuntimes = 4
PROPERTIES
  EveryEditIsPickedUp
\* When the user stops editing nothing is left to do.
CHECK_DEADLOCK FALSE
