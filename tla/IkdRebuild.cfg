CONSTANTS
  p1 = p1
  p2 = p2
  p3 = p3
  Points <- MCPoints
  SonPoints <- MCSonPoints
  Voxels <- MCVoxels
  Boxes <- MCBoxes
  Searchers = {s1, s2}
  MaxLog = 1
  None = None
SPECIFICATION FairSpec
INVARIANTS SearchLocked LogCovers
PROPERTIES ReplaceKeepsContents NobodyWaitsForEver
CHECK_DEADLOCK FALSE
