---------------------------- MODULE AlarmMsgQueue ----------------------------
(***************************************************************************)
(* The alarm ring buffer of one camera (src/.../AlarmMsgQueue.cpp) with    *)
(* the two threads that use it:                                            *)
(*   - the writer, the capture thread in Analysis::DrawInfo, which for     *)
(*     every alarm calls get_head_to_write, fills the returned slot in     *)
(*     place and calls head_next (or drops the alarm on a NULL slot);      *)
(*   - the reader, HttpClient::Run, which calls get_tail_to_read,          *)
(*     serializes the returned slot, calls tail_next and then sends.      *)
(* get_* and *_next each hold the queue mutex, so each is one step; the   *)
(* slot is filled and serialized outside the mutex, so those are steps of *)
(* their own.  A wait on a condition variable is a state of its own: a    *)
(* notify_one moves the waiter to "notified"; std::condition_variable::    *)
(* wait_for may return no_timeout without a notify (a spurious wake-up)   *)
(* when Spurious is TRUE, and may report timeout even after a notify      *)
(* (libstdc++ decides by re-reading the clock).  The queue is built by     *)
(* Analysis::LoadConfig with a finite timeout (1000 ms), so only the      *)
(* wait_for branches are modelled, never the `_timeout < 0` ones.         *)
(***************************************************************************)
EXTENDS Integers, Sequences
LOCAL INSTANCE SequencesExt

CONSTANTS
  Size,       \* the `size` passed to the constructor (50 in the code)
  MaxAlarms,  \* bound: the number of alarms the writer offers
  Spurious    \* whether a timed wait may wake up without a notify

ASSUME Size \in Nat /\ Size >= 2
ASSUME MaxAlarms \in Nat \ {0}
ASSUME Spurious \in BOOLEAN

\* head_next/tail_next wrap at _size - 1, so the slots in use are 0..Size-2.
Slots == 0 .. Size - 2
\* The alarms are numbered in the order the writer produces them.
AlarmIds == 1 .. MaxAlarms
\* AlarmData::clear() leaves a slot with no alarm in it.
NoAlarm == 0

VARIABLES
  head, tail, element_size,   \* _head, _tail, _element_size
  data,                       \* _data: the alarm held by each slot
  wpc,                        \* where the writer is
  nextAlarm,                  \* the alarm the writer is offering
  rpc,                        \* where the reader is
  rbody,                      \* the alarm the reader serialized
  taken                       \* history: alarms retired by tail_next, in order

vars == <<head, tail, element_size, data, wpc, nextAlarm, rpc, rbody, taken>>

WriterStates == {"idle", "waitFull", "notifiedFull", "fill", "commit"}
ReaderStates == {"idle", "waitEmpty", "notifiedEmpty", "read", "retire", "send"}

\* A plausible bug, used as a mutant: the index wraps at _size.
NextIndexWrapsAtSize(i) == IF i + 1 = Size THEN 0 ELSE i + 1

\* ++i; if (i == _size - 1) i = 0;
NextIndex(i) == IF i + 1 = Size - 1 THEN 0 ELSE i + 1

Init ==
  /\ head = 0
  /\ tail = 0
  /\ element_size = 0
  /\ data = [s \in Slots |-> NoAlarm]
  /\ wpc = "idle"
  /\ nextAlarm = 1
  /\ rpc = "idle"
  /\ rbody = NoAlarm
  /\ taken = <<>>

(***************************************************************************)
(* Plausible bugs of the code, used as mutants of the definitions below.   *)
(***************************************************************************)
\* get_head_to_write tests `_element_size >= _size` (off by one).
WriteAcquireOffByOne ==
  /\ wpc = "idle"
  /\ nextAlarm <= MaxAlarms
  /\ \/ element_size < Size /\ wpc' = "fill"
     \/ element_size >= Size /\ wpc' = "waitFull"
  /\ UNCHANGED <<head, tail, element_size, data, nextAlarm, rpc, rbody, taken>>

\* get_tail_to_read tests `_element_size < 0` instead of `<= 0`.
ReadAcquireNoEmptyCheck ==
  /\ rpc = "idle"
  /\ \/ element_size < 0 /\ rpc' = "waitEmpty"
     \/ element_size >= 0 /\ rpc' = "read"
  /\ UNCHANGED <<head, tail, element_size, data, wpc, nextAlarm, rbody, taken>>

\* get_tail_to_read waits while fewer than two alarms are queued.
ReadAcquireWaitsForTwo ==
  /\ rpc = "idle"
  /\ \/ element_size <= 1 /\ rpc' = "waitEmpty"
     \/ element_size > 1 /\ rpc' = "read"
  /\ UNCHANGED <<head, tail, element_size, data, wpc, nextAlarm, rbody, taken>>

(***************************************************************************)
(* The writer: one iteration of the `for (info : alarms)` loop of          *)
(* Analysis::DrawInfo around get_head_to_write / head_next.                *)
(***************************************************************************)
\* get_head_to_write: take the slot at once, or wait on _not_full_cond.
WriteAcquire ==
  /\ wpc = "idle"
  /\ nextAlarm <= MaxAlarms
  /\ \/ element_size < Size - 1 /\ wpc' = "fill"
     \/ element_size >= Size - 1 /\ wpc' = "waitFull"
  /\ UNCHANGED <<head, tail, element_size, data, nextAlarm, rpc, rbody, taken>>

\* wait_for returned no_timeout: return _data[_head] without re-testing.
WriteWake ==
  /\ \/ wpc = "notifiedFull"
     \/ Spurious /\ wpc = "waitFull"
  /\ wpc' = "fill"
  /\ UNCHANGED <<head, tail, element_size, data, nextAlarm, rpc, rbody, taken>>

\* wait_for returned timeout: NULL, DrawInfo drops this alarm (`continue`).
WriteTimeout ==
  /\ wpc \in {"waitFull", "notifiedFull"}
  /\ wpc' = "idle"
  /\ nextAlarm' = nextAlarm + 1
  /\ UNCHANGED <<head, tail, element_size, data, rpc, rbody, taken>>

\* this_alarm->clear() and the field assignments, outside the mutex.
Fill ==
  /\ wpc = "fill"
  /\ data' = [data EXCEPT ![head] = nextAlarm]
  /\ wpc' = "commit"
  /\ UNCHANGED <<head, tail, element_size, nextAlarm, rpc, rbody, taken>>

\* head_next: count the alarm, advance _head, notify_one(_not_empty_cond).
HeadNext ==
  /\ wpc = "commit"
  /\ element_size' = element_size + 1
  /\ head' = NextIndex(head)
  /\ rpc' = IF rpc = "waitEmpty" THEN "notifiedEmpty" ELSE rpc
  /\ wpc' = "idle"
  /\ nextAlarm' = nextAlarm + 1
  /\ UNCHANGED <<tail, data, rbody, taken>>

(***************************************************************************)
(* The reader: one iteration of the `while (_is_run)` loop of              *)
(* HttpClient::Run.                                                        *)
(***************************************************************************)
\* get_tail_to_read: take the slot at once, or wait on _not_empty_cond.
ReadAcquire ==
  /\ rpc = "idle"
  /\ \/ element_size <= 0 /\ rpc' = "waitEmpty"
     \/ element_size > 0 /\ rpc' = "read"
  /\ UNCHANGED <<head, tail, element_size, data, wpc, nextAlarm, rbody, taken>>

\* wait_for returned no_timeout: return _data[_tail] without re-testing.
ReadWake ==
  /\ \/ rpc = "notifiedEmpty"
     \/ Spurious /\ rpc = "waitEmpty"
  /\ rpc' = "read"
  /\ UNCHANGED <<head, tail, element_size, data, wpc, nextAlarm, rbody, taken>>

\* wait_for returned timeout: NULL, the reader sleeps and loops.
ReadTimeout ==
  /\ rpc \in {"waitEmpty", "notifiedEmpty"}
  /\ rpc' = "idle"
  /\ UNCHANGED <<head, tail, element_size, data, wpc, nextAlarm, rbody, taken>>

\* The cJSON calls read the slot, outside the mutex.
Serialize ==
  /\ rpc = "read"
  /\ rbody' = data[tail]
  /\ rpc' = "retire"
  /\ UNCHANGED <<head, tail, element_size, data, wpc, nextAlarm, taken>>

\* tail_next: uncount the alarm, advance _tail, notify_one(_not_full_cond).
TailNext ==
  /\ rpc = "retire"
  /\ element_size' = element_size - 1
  /\ tail' = NextIndex(tail)
  /\ wpc' = IF wpc = "waitFull" THEN "notifiedFull" ELSE wpc
  /\ taken' = Append(taken, rbody)
  /\ rpc' = "send"
  /\ UNCHANGED <<head, data, nextAlarm, rbody>>

\* SendReq(serverURL, body): the slot is no longer used.
SendReq ==
  /\ rpc = "send"
  /\ rpc' = "idle"
  /\ UNCHANGED <<head, tail, element_size, data, wpc, nextAlarm, rbody, taken>>

Writer == WriteAcquire \/ WriteWake \/ WriteTimeout \/ Fill \/ HeadNext
Reader == ReadAcquire \/ ReadWake \/ ReadTimeout \/ Serialize \/ TailNext \/ SendReq

Next == Writer \/ Reader

(***************************************************************************)
(* Both are OS threads: each runs whenever it can.  A timed wait ends.     *)
(***************************************************************************)
Fairness ==
  /\ WF_vars(WriteAcquire) /\ WF_vars(WriteWake) /\ WF_vars(WriteTimeout)
  /\ WF_vars(Fill) /\ WF_vars(HeadNext)
  /\ WF_vars(ReadAcquire) /\ WF_vars(ReadWake) /\ WF_vars(ReadTimeout)
  /\ WF_vars(Serialize) /\ WF_vars(TailNext) /\ WF_vars(SendReq)

Spec == Init /\ [][Next]_vars /\ Fairness

-----------------------------------------------------------------------------
TypeOK ==
  /\ head \in Slots /\ tail \in Slots
  /\ element_size \in -1 .. Size
  /\ data \in [Slots -> AlarmIds \cup {NoAlarm}]
  /\ wpc \in WriterStates /\ rpc \in ReaderStates
  /\ nextAlarm \in 1 .. MaxAlarms + 1
  /\ rbody \in AlarmIds \cup {NoAlarm}
  /\ taken \in Seq(AlarmIds \cup {NoAlarm})

\* The committed alarms, oldest first: element_size slots from _tail on.
QueueContents ==
  [i \in 1 .. element_size |-> data[(tail + i - 1) % (Size - 1)]]

(* The writer's and the reader's slot pointers (_data[_head] held from     *)
(* get_head_to_write to head_next, _data[_tail] from get_tail_to_read to   *)
(* tail_next) never point at the same AlarmData while one of them is       *)
(* accessing it: clear()/assignments in DrawInfo never overlap the cJSON   *)
(* reads of HttpClient::Run on one slot.                                   *)
NoSlotRace ==
  ~ /\ wpc \in {"fill", "commit"}
    /\ rpc \in {"read", "retire"}
    /\ head = tail

(* Used through get_head_to_write/head_next and get_tail_to_read/          *)
(* tail_next, the ring behaves as the bounded FIFO of AlarmQueue with       *)
(* capacity _size - 1: every head_next appends the alarm just written, and *)
(* every tail_next hands HttpClient the oldest committed alarm.            *)
Abstract == INSTANCE AlarmQueue
              WITH Capacity <- Size - 1, Alarms <- AlarmIds,
                   queue <- QueueContents, taken <- taken
AlarmQueueRefined == Abstract!Spec

(* Every alarm DrawInfo commits with head_next is eventually retired by    *)
(* HttpClient::Run (tail_next), however the timed waits resolve.           *)
CommittedAlarmTaken ==
  \A a \in AlarmIds : (a \in ToSet(QueueContents)) ~> (a \in ToSet(taken))
=============================================================================
