\* The queue as built: finite timeout, waits that wake only when notified.
CONSTANTS
  Size <- MCSize
  MaxAlarms <- MCMaxAlarms
  Spurious = FALSE
SPECIFICATION Spec
INVARIANTS
  TypeOK
  NoSlotRace
PROPERTIES
  AlarmQueueRefined
  CommittedAlarmTaken
