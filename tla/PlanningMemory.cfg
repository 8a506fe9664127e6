SPECIFICATION PlanningSpec
CONSTANTS
  Replies <- MCReplies
  Substitute <- MCSubstitute
  Remembered = 10
  Shown = 5
  MaxRetries = 1
  MaxCycles = 2
INVARIANT RejectionIsKnown
CHECK_DEADLOCK FALSE
