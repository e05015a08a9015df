CONSTANTS
  Scenes <- MCScenes
  FrameNumbers <- MCFrameNumbers
SPECIFICATION Spec
INVARIANTS LitterIgnoresOutlines
