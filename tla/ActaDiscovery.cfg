SPECIFICATION Spec
CONSTANTS
  LastDraw = 8
  Anchor = 4
  Window = 1
  StepLimit = 4
  ThisYear = 1
  Sites <- MCSites
  Late = {6}
  Indexes <- MCIndexes
INVARIANTS FutureNeedsEvidence NewerIsProbed FindsNewest
PROPERTY FetchEnds
