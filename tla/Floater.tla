------------------------------- MODULE Floater ------------------------------
(***************************************************************************)
(* FloaterThread (FloaterThread.cpp): every pass of Run with all three     *)
(* images present calls getfloater, which decrements                      *)
(* DetectFrameNumber_Floater and works in a cycle of five passes:          *)
(*   any value not 0 .. 3  reference: DetectFrame_Floater := the floaters  *)
(*                         in the river, number := 4;                      *)
(*   3, 2                  wait;                                           *)
(*   1                     confirmation: if DetectFrame_Floater is not     *)
(*                         empty, DetectFrame_Floater_1 := the floaters in *)
(*                         the river; number := 1;                         *)
(*   0                     analysis: the floaters in the river of the      *)
(*                         segment image (result) and of the foreground    *)
(*                         model (result_mod); number := 5, and 0 is       *)
(*                         returned when the list the code picks is not    *)
(*                         empty and DetectFrame_Floater_1 is not empty.   *)
(* Run then calls SetAlarm(true, area, speed, result) when getfloater      *)
(* returned 0 and result is not empty, and SetAlarm(false) otherwise.      *)
(* Every pass first calls RiverRect, which picks counter_max among the     *)
(* water contours of the segment image.  A floater is a model value; a     *)
(* scene gives the point count of each water contour in findContours       *)
(* order, for each the floaters getObjectRect finds (more than 25 points)  *)
(* with a bounding-box corner strictly inside it (pointPolygonTest > 0),   *)
(* and the number of foreground blobs with one in the picked contour.      *)
(***************************************************************************)
EXTENDS Integers, FiniteSets

CONSTANTS
  Scenes,        \* what one pass may see: [waters, holds, mod]
  FrameNumbers   \* what DetectFrameNumber_Floater may hold after construction

VARIABLES
  count,   \* DetectFrameNumber_Floater
  df,      \* DetectFrame_Floater
  df1,     \* DetectFrame_Floater_1
  alarm,   \* [active, rects]: alarm.is_active and the floaters it names
  pass,    \* what the latest pass was: "none", "reference", "wait",
           \* "confirm", "analysis"
  fresh,   \* DetectFrame_Floater_1 was refilled by this cycle's confirmation
  river    \* point counts of the water contours of the latest pass:
           \* [picked, largest]

vars == <<count, df, df1, alarm, pass, fresh, river>>

NoAlarm == [active |-> FALSE, rects |-> {}]

(* RiverRect's loop over the contours: `size_t maxarea = 100` is declared  *)
(* inside the loop body, so every contour of more than 100 points passes   *)
(* `contours[i].size() > maxarea` and k ends as the last of them (0 when   *)
(* there is none, k == -1, and when contours is empty).                    *)
RiverPick(waters) ==
  LET Big == {i \in DOMAIN waters : waters[i] > 50 /\ waters[i] > 100}
  IN IF Big = {} THEN 0 ELSE CHOOSE i \in Big : \A j \in Big : j <= i

(* The point count of the contour k picks (0 for none).                    *)
PickedSize(waters) ==
  LET k == RiverPick(waters) IN IF k = 0 THEN 0 ELSE waters[k]

(* The point count of the largest water contour of more than 100 points   *)
(* (0 when there is none).                                                 *)
LargestWater(waters) ==
  LET Big == {waters[i] : i \in {i \in DOMAIN waters : waters[i] > 100}}
  IN IF Big = {} THEN 0 ELSE CHOOSE m \in Big : \A x \in Big : x <= m

(* The floaters of the segment image in the river: those with a corner     *)
(* inside counter_max; none when counter_max is empty.                     *)
InRiver(s) ==
  LET k == RiverPick(s.waters) IN IF k = 0 THEN {} ELSE s.holds[k]

(* result_mod: the foreground blobs tested against counter_max.            *)
ModInRiver(s) == IF RiverPick(s.waters) = 0 THEN 0 ELSE s.mod

(* The list getfloater's last step (综合分析) picks: result_mod when it    *)
(* has fewer entries than result but at least one, otherwise result.       *)
(* Only whether it is empty matters; its area goes to alarm.floater_area.  *)
PickedEmpty(s) ==
  IF Cardinality(InRiver(s)) > ModInRiver(s) /\ ModInRiver(s) /= 0 THEN ModInRiver(s) = 0
  ELSE InRiver(s) = {}

(* One pass of Run on the segment image s from the state st: RiverRect,    *)
(* the getfloater step DetectFrameNumber_Floater selects, then SetAlarm.  *)
PassOutcome(st, s) ==
  LET n == st.count - 1
      seen == InRiver(s)
      r == [st EXCEPT !.river = [picked |-> PickedSize(s.waters),
                                 largest |-> LargestWater(s.waters)]]
  IN
  CASE n = 0 ->
         LET ok == ~PickedEmpty(s) /\ st.df1 /= {}
         IN [r EXCEPT !.count = 5, !.pass = "analysis",
                      !.alarm = IF ok /\ seen /= {}
                                THEN [active |-> TRUE, rects |-> seen]
                                ELSE NoAlarm]
    [] n = 1 ->
         [r EXCEPT !.count = 1, !.pass = "confirm", !.alarm = NoAlarm,
                   !.df1 = IF st.df /= {} THEN seen ELSE @,
                   !.fresh = st.df /= {}]
    [] n \in {2, 3} ->
         [r EXCEPT !.count = n, !.pass = "wait", !.alarm = NoAlarm]
    [] OTHER ->
         [r EXCEPT !.count = 4, !.pass = "reference", !.alarm = NoAlarm,
                   !.df = seen, !.fresh = FALSE]

State == [count |-> count, df |-> df, df1 |-> df1, alarm |-> alarm,
          pass |-> pass, fresh |-> fresh, river |-> river]

-----------------------------------------------------------------------------
\* FloaterThread(Analysis*) leaves DetectFrameNumber_Floater uninitialized.
Init ==
  /\ count \in FrameNumbers
  /\ df = {} /\ df1 = {}
  /\ alarm = NoAlarm
  /\ pass = "none"
  /\ fresh = FALSE
  /\ river = [picked |-> 0, largest |-> 0]

Pass ==
  \E s \in Scenes :
    LET o == PassOutcome(State, s)
    IN /\ count' = o.count /\ df' = o.df /\ df1' = o.df1
       /\ alarm' = o.alarm /\ pass' = o.pass /\ fresh' = o.fresh
       /\ river' = o.river

Next == Pass

\* Run is a thread of its own that passes again after every usleep.
Spec == Init /\ [][Next]_vars /\ WF_vars(Pass)

-----------------------------------------------------------------------------
(* A floater alarm rests on a confirmation frame of its own cycle: the     *)
(* analysis compares with DetectFrame_Floater_1, which the confirmation    *)
(* pass clears and refills only when the reference frame of the cycle saw  *)
(* a floater, and otherwise keeps from an earlier cycle.                   *)
FloaterAlarmConfirmed ==
  alarm.active => fresh

(* Whatever DetectFrameNumber_Floater held after construction, the         *)
(* detector analyses a frame again and again.                              *)
FloaterAnalysesRecur ==
  []<>(pass = "analysis")

(* The floaters of a pass are judged against the largest water region:     *)
(* RiverRect means counter_max to be the largest contour of more than 100  *)
(* points (maxarea starts at 100 and takes the size of each contour that   *)
(* beats it), but maxarea is declared inside the loop body and starts at   *)
(* 100 for every contour, so a smaller contour found later wins.           *)
FloatersJudgedInLargestWater ==
  river.picked = river.largest
=============================================================================
