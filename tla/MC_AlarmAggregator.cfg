CONSTANTS
  dA = dA
  dL = dL
  dB = dB
  f1 = f1
  Detectors <- MCDetectors
  Kind <- MCKind
  Capacity <- MCCapacity
  MaxActivations <- MCMaxActivations
  FrameGaps <- MCFrameGaps
  RateLimitMs <- MCRateLimitMs
  LitterScenes <- MCLitterScenes
  LitterFrameNumbers <- MCLitterFrameNumbers
  FloaterScenes <- MCFloaterScenesSeen
  FloaterFrameNumbers <- MCFloaterFrameNumbersRef
SPECIFICATION Spec
CONSTRAINT SentBound
INVARIANTS TypeOK
