--------------------------- MODULE AlarmAggregator ---------------------------
(***************************************************************************)
(* The alarm path of one camera, from the detectors to the sink:           *)
(*   - each detector thread records its latest result with SetAlarm under  *)
(*     alarm_mutex (InvadeThread.cpp, FishingThread.cpp, ...);             *)
(*   - once per captured frame the capture thread runs Analysis::DrawInfo: *)
(*     it calls GetAlarm on every detector in vector order and collects    *)
(*     the active ones, drops the whole batch if less than 1000 ms have    *)
(*     passed since the last forwarded batch, and otherwise writes each    *)
(*     alarm to the AlarmMsgQueue, dropping one whose slot wait times out;  *)
(*   - HttpClient::Run takes alarms from the queue and sends them.         *)
(* The queue is its abstract specification AlarmQueue, which the module    *)
(* AlarmMsgQueue shows the ring buffer implements.  An alarm is named by   *)
(* its detector and by how many times that detector has set it active:     *)
(* <<d, n>> is the content of the n-th SetAlarm(true) of d.                *)
(* Time is kept only as the milliseconds since last_time, saturated at     *)
(* the 1000 ms that DrawInfo compares them with.                           *)
(***************************************************************************)
EXTENDS Integers, Sequences

CONSTANTS
  Detectors,       \* Analysis::algorithms that produce alarms, in order
  Kind,            \* the detector class of each: "Invade", "Floater", ...
  Capacity,        \* the usable slots of the AlarmMsgQueue (_size - 1)
  MaxActivations,  \* bound: SetAlarm(true) calls per detector
  FrameGaps,       \* ms that one capture-loop iteration may take
  RateLimitMs,     \* the `diff_time < 1000` of DrawInfo
  LitterScenes,    \* what a LitterThread pass may see (module Litter)
  LitterFrameNumbers,
  FloaterScenes,   \* what a FloaterThread pass may see (module Floater)
  FloaterFrameNumbers

DetectorSet == {Detectors[i] : i \in 1 .. Len(Detectors)}
Kinds == {"Invade", "Fishing", "Litter", "Floater", "WaterColor", "WaterGauge"}

ASSUME Kind \in [DetectorSet -> Kinds]
ASSUME Capacity \in Nat \ {0}
ASSUME MaxActivations \in Nat
ASSUME FrameGaps \subseteq Nat \ {0} /\ RateLimitMs \in Nat \ {0}

(* SetAlarm(false, ...) on every pass with no finding: Invade, Fishing,    *)
(* Litter and Floater.  WaterColor and WaterGauge only ever set it true.   *)
ReportsAbsence == {d \in DetectorSet : Kind[d] \in {"Invade", "Fishing", "Litter", "Floater"}}
(* FloaterThread::GetAlarm has `alarm.set_is_active(false)` commented out. *)
Latching == {d \in DetectorSet : Kind[d] = "Floater"}

Alarm == DetectorSet \X (1 .. MaxActivations)

(* LitterThread and FloaterThread are modelled pass by pass, with their    *)
(* frame cycles (modules Litter and Floater); the other detectors set      *)
(* their alarm freely.                                                     *)
LitterDets == {d \in DetectorSet : Kind[d] = "Litter"}
FloaterDets == {d \in DetectorSet : Kind[d] = "Floater"}
FreeDets == DetectorSet \ (LitterDets \cup FloaterDets)

VARIABLES
  active,    \* alarm.is_active of each detector
  act,       \* the number of SetAlarm(true) calls of each detector
  cpc,       \* where the capture thread is in DrawInfo / the loop
  ai,        \* the detector DrawInfo is reading
  batch,     \* DrawInfo's local `alarms` vector, not yet written
  elapsed,   \* ms since last_time, saturated at RateLimitMs
  queue,     \* the AlarmMsgQueue contents
  sent,      \* the alarms HttpClient has taken, in order
  lst,       \* the frame cycle of each LitterThread
  fst        \* the frame cycle of each FloaterThread

vars == <<active, act, cpc, ai, batch, elapsed, queue, sent, lst, fst>>

Q == INSTANCE AlarmQueue WITH Alarms <- Alarm, taken <- sent

(* The two detector modules, for their PassOutcome(s) operators only: a    *)
(* thread's state is an entry of lst or fst here, not their variables.     *)
L == INSTANCE Litter WITH Scenes <- LitterScenes, FrameNumbers <- LitterFrameNumbers,
       count <- 0, refSize <- 0, alarm <- FALSE, scene <- <<>>, pass <- "none",
       isCar <- FALSE
F == INSTANCE Floater WITH Scenes <- FloaterScenes, FrameNumbers <- FloaterFrameNumbers,
       count <- 0, df <- {}, df1 <- {}, alarm <- [active |-> FALSE, rects |-> {}], pass <- "none", fresh <- FALSE,
       river <- [picked |-> 0, largest |-> 0]

SatAdd(x, y) == IF x + y >= RateLimitMs THEN RateLimitMs ELSE x + y

Init ==
  /\ active = [d \in DetectorSet |-> FALSE]
  /\ act = [d \in DetectorSet |-> 0]
  /\ cpc = "collect"
  /\ ai = 1
  /\ batch = <<>>
  \* gettimeofday(&last_time) just before the loop: nothing has passed.
  /\ elapsed = 0
  /\ Q!Init
  \* The public constructors leave the frame numbers uninitialized.
  /\ lst \in [LitterDets -> {[count |-> n, refSize |-> 0, isCar |-> FALSE] :
                             n \in LitterFrameNumbers}]
  /\ fst \in [FloaterDets -> {[count |-> n, df |-> {}, df1 |-> {},
                               alarm |-> [active |-> FALSE, rects |-> {}],
                               pass |-> "none", fresh |-> FALSE,
                               river |-> [picked |-> 0, largest |-> 0]] :
                              n \in FloaterFrameNumbers}]

\* A write that never waits for a free slot (get_head_to_write without the
\* `_element_size >= _size - 1` test).
ForwardNoFullCheck ==
  /\ cpc = "forward"
  /\ batch /= <<>>
  /\ queue' = Append(queue, Head(batch))
  /\ batch' = Tail(batch)
  /\ UNCHANGED <<active, act, cpc, ai, elapsed, sent, lst, fst>>

(***************************************************************************)
(* Detector threads                                                      *)
(***************************************************************************)
\* SetAlarm(true, ...) with a new finding.
SetAlarmActive(d) ==
  /\ d \in FreeDets
  /\ act[d] < MaxActivations
  /\ active' = [active EXCEPT ![d] = TRUE]
  /\ act' = [act EXCEPT ![d] = @ + 1]
  /\ UNCHANGED <<cpc, ai, batch, elapsed, queue, sent, lst, fst>>

\* SetAlarm(false, ...) when a pass finds nothing.
SetAlarmInactive(d) ==
  /\ d \in FreeDets \cap ReportsAbsence
  /\ active' = [active EXCEPT ![d] = FALSE]
  /\ UNCHANGED <<act, cpc, ai, batch, elapsed, queue, sent, lst, fst>>

(* Whether a detector's SetAlarm sets its alarm, as an activation: each   *)
(* SetAlarm(true, ...) is a new alarm content <<d, act[d]>>.               *)
SetAlarmTo(d, on) ==
  /\ on => act[d] < MaxActivations
  /\ active' = [active EXCEPT ![d] = on]
  /\ act' = IF on THEN [act EXCEPT ![d] = @ + 1] ELSE act

\* One pass of LitterThread::Run: get_result and SetAlarm.
LitterPass(d) ==
  /\ d \in LitterDets
  /\ \E s \in LitterScenes : \E o \in L!PassOutcomes(lst[d], s) :
       /\ SetAlarmTo(d, o.alarm)
       /\ lst' = [lst EXCEPT ![d] = [count |-> o.count, refSize |-> o.refSize,
                                     isCar |-> o.isCar]]
  /\ UNCHANGED <<cpc, ai, batch, elapsed, queue, sent, fst>>

\* One pass of FloaterThread::Run: getfloater and SetAlarm.
FloaterPass(d) ==
  /\ d \in FloaterDets
  /\ \E s \in FloaterScenes :
       LET o == F!PassOutcome(fst[d], s)
       IN /\ SetAlarmTo(d, o.alarm.active)
          /\ fst' = [fst EXCEPT ![d] = o]
  /\ UNCHANGED <<cpc, ai, batch, elapsed, queue, sent, lst>>

(***************************************************************************)
(* The capture thread: DrawInfo, then usleep and the next frame.           *)
(***************************************************************************)
(* `AnalysisAlarm alarm = ptr->GetAlarm(); ... if (alarm.is_active())      *)
(* alarms.push_back(alarm);`  GetAlarm copies the alarm and, except in     *)
(* FloaterThread, clears is_active under alarm_mutex.                      *)
Collect ==
  /\ cpc = "collect"
  /\ ai <= Len(Detectors)
  /\ LET d == Detectors[ai] IN
       /\ batch' = IF active[d] THEN Append(batch, <<d, act[d]>>) ELSE batch
       /\ active' = IF d \in Latching THEN active
                    ELSE [active EXCEPT ![d] = FALSE]
  /\ ai' = ai + 1
  /\ UNCHANGED <<act, cpc, elapsed, queue, sent, lst, fst>>

\* The loop over the detectors is done.
CollectDone ==
  /\ cpc = "collect"
  /\ ai > Len(Detectors)
  /\ cpc' = "decide"
  /\ UNCHANGED <<active, act, ai, batch, elapsed, queue, sent, lst, fst>>

(* `if (alarms.empty()) return;` then `if (diff_time < 1000) return;`      *)
(* (the batch is discarded), else `last_time = time_now`.                  *)
Decide ==
  /\ cpc = "decide"
  /\ \/ /\ batch = <<>>
        /\ cpc' = "sleep"
        /\ UNCHANGED <<batch, elapsed>>
     \/ /\ batch /= <<>>
        /\ elapsed < RateLimitMs
        /\ batch' = <<>>
        /\ cpc' = "sleep"
        /\ UNCHANGED elapsed
     \/ /\ batch /= <<>>
        /\ elapsed >= RateLimitMs
        /\ elapsed' = 0
        /\ cpc' = "forward"
        /\ UNCHANGED batch
  /\ UNCHANGED <<active, act, ai, queue, sent, lst, fst>>

(* One alarm of the batch: get_head_to_write, fill, head_next; or a NULL   *)
(* slot after waiting the queue's 1000 ms timeout, and `continue`.         *)
Forward ==
  /\ cpc = "forward"
  /\ batch /= <<>>
  /\ \/ /\ Q!Put(Head(batch))
        /\ UNCHANGED elapsed
     \/ /\ Len(queue) >= Capacity
        /\ elapsed' = SatAdd(elapsed, 1000)
        /\ UNCHANGED <<queue, sent>>
  /\ batch' = Tail(batch)
  /\ UNCHANGED <<active, act, cpc, ai, lst, fst>>

ForwardDone ==
  /\ cpc = "forward"
  /\ batch = <<>>
  /\ cpc' = "sleep"
  /\ UNCHANGED <<active, act, ai, batch, elapsed, queue, sent, lst, fst>>

\* usleep(interval) and the next `cap >> img`; DrawInfo starts over.
NextFrame ==
  /\ cpc = "sleep"
  /\ \E g \in FrameGaps : elapsed' = SatAdd(elapsed, g)
  /\ cpc' = "collect"
  /\ ai' = 1
  /\ batch' = <<>>
  /\ UNCHANGED <<active, act, queue, sent, lst, fst>>

(***************************************************************************)
(* HttpClient::Run: get_tail_to_read, serialize, tail_next, SendReq.       *)
(***************************************************************************)
Dispatch ==
  /\ Q!Take
  /\ UNCHANGED <<active, act, cpc, ai, batch, elapsed, lst, fst>>

Capture == Collect \/ CollectDone \/ Decide \/ Forward \/ ForwardDone \/ NextFrame

Next ==
  \/ \E d \in DetectorSet : SetAlarmActive(d) \/ SetAlarmInactive(d)
  \/ \E d \in DetectorSet : LitterPass(d) \/ FloaterPass(d)
  \/ Capture
  \/ Dispatch

Spec == Init /\ [][Next]_vars /\ WF_vars(Capture) /\ WF_vars(Dispatch)

-----------------------------------------------------------------------------
TypeOK ==
  /\ active \in [DetectorSet -> BOOLEAN]
  /\ act \in [DetectorSet -> 0 .. MaxActivations]
  /\ cpc \in {"collect", "decide", "forward", "sleep"}
  /\ ai \in 1 .. Len(Detectors) + 1
  /\ batch \in Seq(Alarm)
  /\ elapsed \in 0 .. RateLimitMs
  /\ queue \in Seq(Alarm) /\ Len(queue) <= Capacity
  /\ sent \in Seq(Alarm)
  /\ \A d \in LitterDets : lst[d].count \in LitterFrameNumbers \cup {0, 1, 3}
  /\ \A d \in FloaterDets : fst[d].count \in FloaterFrameNumbers \cup 1 .. 5

(* No detector alarm reaches the sink twice: the edge-triggered GetAlarm   *)
(* hands each SetAlarm(true) to DrawInfo at most once, and the queue and   *)
(* HttpClient neither repeat nor duplicate it (spec 7: "no alarm is ever   *)
(* silently duplicated").                                                  *)
NoDuplicateDelivery ==
  \A i, j \in 1 .. Len(sent) : i < j => sent[i] /= sent[j]
=============================================================================
