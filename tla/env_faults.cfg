SPECIFICATION NewsSpec
CONSTANTS
  None = None
  MaxEdits = 2
  MaxFaults = 1
  Titles <- FewTitles
  Fold <- FewFold
  Listed <- FewListed
  Stubs <- FewStubs
  Cap = 2
  MaxFound = 2
  MaxVideos = 2
  MaxRuns = 3
  MaxBeats = 5
  Consider = 4
  ClipCost = 5
  StillCost = 2
  CheckCost = 1
CHECK_DEADLOCK FALSE
 
PROPERTIES ReadyIsBuilt ReadyIsCurrent
