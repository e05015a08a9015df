CONSTANTS
  Scenes <- MCScenes
SPECIFICATION Spec
INVARIANTS
  FishingNeverThrows
