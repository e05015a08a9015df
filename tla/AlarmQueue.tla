----------------------------- MODULE AlarmQueue -----------------------------
(***************************************************************************)
(* What AlarmMsgQueue promises to its one producer (Analysis::DrawInfo)    *)
(* and its one consumer (HttpClient::Run): a first-in first-out buffer of  *)
(* at most Capacity alarms.  An alarm the producer offers is either        *)
(* appended or dropped (the drop leaves the buffer as it was); the         *)
(* consumer takes the oldest alarm, and the alarms taken so far form the   *)
(* sequence `taken`.  Nothing is reordered, duplicated or invented.        *)
(***************************************************************************)
EXTENDS Naturals, Sequences

CONSTANTS
  Capacity,   \* the number of alarms the buffer may hold at once
  Alarms      \* the alarms a producer may offer

ASSUME Capacity \in Nat \ {0}

VARIABLES
  queue,      \* the alarms committed and not yet taken, oldest first
  taken       \* every alarm handed to the consumer, in order

vars == <<queue, taken>>

Init ==
  /\ queue = <<>>
  /\ taken = <<>>

Put(a) ==
  /\ Len(queue) < Capacity
  /\ queue' = Append(queue, a)
  /\ UNCHANGED taken

Take ==
  /\ queue /= <<>>
  /\ queue' = Tail(queue)
  /\ taken' = Append(taken, Head(queue))

Next == (\E a \in Alarms : Put(a)) \/ Take

Spec == Init /\ [][Next]_vars
=============================================================================
