CONSTANTS
  f1 = f1
  Scenes <- MCScenes
  FrameNumbers <- MCFrameNumbers
SPECIFICATION Spec
INVARIANTS FloaterAlarmConfirmed
