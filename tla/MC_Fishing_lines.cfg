CONSTANTS
  Scenes <- MCScenes
SPECIFICATION Spec
INVARIANTS
  FishingMeansLinesAgree
CHECK_DEADLOCK FALSE
