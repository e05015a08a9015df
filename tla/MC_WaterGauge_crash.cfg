CONSTANTS
  Scenes <- MCScenes
SPECIFICATION Spec
INVARIANTS WaterGaugeKeepsRunning
