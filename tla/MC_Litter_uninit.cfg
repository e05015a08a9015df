CONSTANTS
  Scenes <- MCScenes
  FrameNumbers <- MCFrameNumbers
SPECIFICATION Spec
PROPERTY LitterAnalysisFollowsReference
