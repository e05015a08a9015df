-------------------------- MODULE MC_AlarmMsgQueue --------------------------
(* Model-checking instance of AlarmMsgQueue.  A ring of Size 4 (three      *)
(* usable slots, as in the capacity-3 scenario of the spec) and six alarms *)
(* make the writer fill the ring, wait on _not_full_cond and wrap _head    *)
(* and _tail around at least once.                                         *)
EXTENDS AlarmMsgQueue

MCSize == 4
MCMaxAlarms == 6
=============================================================================
