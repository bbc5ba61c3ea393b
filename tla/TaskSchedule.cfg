\* Two overlapping generation passes, two requests that edit the definition
\* one after another, one restart.  The clock and the edits are bounded, so the
\* instance comes to an end: that is no deadlock of the system.
SPECIFICATION FairSpec
CONSTANTS
  d1 = d1  d2 = d2  tick = tick  inline = inline  e1 = e1  e2 = e2
  Defs = {d1}
  Passes <- MCPasses
  Editors = {e1}
  MaxTime = 2
  Period = 1
  BatchLimit = 2
  MaxEdits = 2
  MaxCrashes = 1
  None = None
INVARIANTS TypeOK ExactlyOnce NothingSkipped
PROPERTIES DueIsGenerated DisabledStaysDisabled
CHECK_DEADLOCK FALSE
