CONSTANTS
  Scenes <- MCScenes
  Boxes <- MCBoxes
  Rois <- MCRois
  People <- MCPeople
SPECIFICATION Spec
INVARIANTS
  HsvAgreesWithReference
  AlarmRectsAreIntruders
