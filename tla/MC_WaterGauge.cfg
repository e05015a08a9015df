CONSTANTS
  Scenes <- MCScenes
SPECIFICATION Spec
INVARIANTS WaterGaugeReadsScale
CHECK_DEADLOCK FALSE
