\* Timed waits that may return no_timeout without a notify, as the C++
\* standard allows: get_head_to_write / get_tail_to_read do not re-test.
CONSTANTS
  Size <- MCSize
  MaxAlarms <- MCMaxAlarms
  Spurious = TRUE
SPECIFICATION Spec
PROPERTIES
  AlarmQueueRefined
