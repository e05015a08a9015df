CONSTANTS
  dI = dI
  dF = dF
  Detectors <- MCDetectors
  Kind <- MCKind
  MaxFrames <- MCMaxFrames
  OpenModeling = TRUE
SPECIFICATION Spec

PROPERTIES EveryDetectorAnalyses
