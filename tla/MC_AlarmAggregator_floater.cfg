CONSTANTS
  dA = dA
  dL = dL
  dB = dB
  f1 = f1
  Detectors <- MCDetectorsFloater
  Kind <- MCKindFloater
  Capacity <- MCCapacity
  MaxActivations <- MCMaxActivations
  FrameGaps <- MCFrameGaps
  RateLimitMs <- MCRateLimitMs
  LitterScenes <- MCLitterScenes
  LitterFrameNumbers <- MCLitterFrameNumbers
  FloaterScenes <- MCFloaterScenes
  FloaterFrameNumbers <- MCFloaterFrameNumbers
SPECIFICATION Spec
INVARIANTS NoDuplicateDelivery
