SPECIFICATION AllSpec
CHECK_DEADLOCK FALSE
INVARIANT BorderVertexRemoved
CONSTANTS
  Width = 7
  Height = 5
  Scenes <- MCScenes
  Plans <- MCBorders
  Sub = 2
  MaxHeight = 15
  HighestCeiling = 40
  FlagMergeThreshold = 1
  WalkableHeight = 2
  WalkableClimb = 1
  MaxLayers = 62
  MaxClearance = 20
  MaxDistance = 255
  Stacks = 8
  ExpandRounds = 8

  OverlapLimit = 4
  NeighbourLimit = 2
  QueueLimit = 64
  IdLimit = 255
  HeightLimit = 8
