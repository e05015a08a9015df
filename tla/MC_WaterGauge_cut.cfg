CONSTANTS
  Scenes <- MCScenes
SPECIFICATION Spec
INVARIANTS CutInsideImage
CHECK_DEADLOCK FALSE
