\* Three pins, of which one is reserved and one cannot detect both edges,
\* and a table of two entries, so that it fills up.
SPECIFICATION FairSpec
CONSTANTS
  Pins = {p1, p2, p3}
  Reserved = {p3}
  DualEdge = {p1}
  MaxEntries = 2
  Types = {"EDGE_BOTH", "LEVEL_HIGH"}
  None = None
INVARIANTS TypeOK EnabledHasEntry
PROPERTIES RefinesRegistry Handled DetectsAsked
CHECK_DEADLOCK FALSE
