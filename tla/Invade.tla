------------------------------- MODULE Invade -------------------------------
(***************************************************************************)
(* InvadeThread (InvadeThread.cpp): each pass of Run finds the people in   *)
(* the segment image (getObjectRect), keeps the bounding box of every one  *)
(* that crosses a configured region of interest (get_result with           *)
(* crossAlgorithm2), and sets its alarm with those boxes; DrawInfo reads   *)
(* it with GetAlarm.  A person is given by the bounding box of its contour *)
(* (minAreaRect(contour).boundingRect()); a cv::Rect is [x, y, w, h].      *)
(* getObjectRect returns every contour: its `size() > 50` test only        *)
(* decides which ones are drawn, so people are not filtered by size.       *)
(***************************************************************************)
EXTENDS Integers, Sequences, SequencesExt

CONSTANTS
  Boxes,   \* the rectangles regions and people are drawn from
  Rois,    \* config.roi_rects, in order
  People   \* the sequences of people getObjectRect may return

ASSUME Boxes \subseteq [x : Int, y : Int, w : Nat, h : Nat]
ASSUME Rois \in Seq(Boxes)
ASSUME People \subseteq Seq(Boxes)

VARIABLES
  alarm,  \* alarm.is_active and alarm.rects
  found   \* the people getObjectRect found in the latest pass of Run

vars == <<alarm, found>>

(***************************************************************************)
(* A plausible bug, used as a mutant: only r1's top-left corner is tested, *)
(* so a region lying inside the person's box is missed.                    *)
(***************************************************************************)
CrossOneCorner(r1, r2) ==
  LET x1 == r1.x  y1 == r1.y  x3 == r2.x  y3 == r2.y
      x4 == r2.x + r2.w  y4 == r2.y + r2.h
  IN (x1 >= x3 /\ x1 < x4) /\ (y1 >= y3 /\ y1 < y4)

(* crossAlgorithm2: r1's corner lies in r2 or r2's corner lies in r1, on   *)
(* each axis; the first test excludes the far edge of r2, the second       *)
(* includes the far edge of r1.                                            *)
CrossAlgorithm2(r1, r2) ==
  LET x1 == r1.x  y1 == r1.y  x2 == r1.x + r1.w  y2 == r1.y + r1.h
      x3 == r2.x  y3 == r2.y  x4 == r2.x + r2.w  y4 == r2.y + r2.h
  IN /\ (x1 >= x3 /\ x1 < x4) \/ (x3 >= x1 /\ x3 <= x2)
     /\ (y1 >= y3 /\ y1 < y4) \/ (y3 >= y1 /\ y3 <= y2)

(* get_result: for each region j, in order, the boxes of the people that   *)
(* cross it, in the order getObjectRect found them; state 0.  A person     *)
(* crossing two regions is pushed twice.                                   *)
GetResult(people) ==
  [state |-> 0,
   rects |-> FlattenSeq([j \in 1 .. Len(Rois) |->
                SelectSeq(people, LAMBDA b : CrossAlgorithm2(Rois[j], b))])]

\* SetAlarm(is_active, result): clear_rects, and the boxes only when active.
SetAlarm(isActive, result) ==
  alarm' = [active |-> isActive, rects |-> IF isActive THEN result ELSE <<>>]

Init == alarm = [active |-> FALSE, rects |-> <<>>] /\ found = <<>>

(* One pass of InvadeThread::Run with both images present:                 *)
(* `if (state == 0 && !result.empty()) SetAlarm(true, result); else        *)
(* SetAlarm(false, result);`                                               *)
Analyse(people) ==
  /\ found' = people
  /\ LET r == GetResult(people) IN
     SetAlarm(r.state = 0 /\ r.rects # <<>>, r.rects)

\* GetAlarm copies the alarm and clears is_active; the boxes stay.
GetAlarm == alarm' = [alarm EXCEPT !.active = FALSE] /\ UNCHANGED found

Next == (\E people \in People : Analyse(people)) \/ GetAlarm

Spec == Init /\ [][Next]_vars

-----------------------------------------------------------------------------
(* Reference: two cv::Rects, half-open on both axes, share a pixel, and    *)
(* two closed rectangles meet.                                             *)
Overlap(r1, r2) ==
  /\ r1.x < r2.x + r2.w /\ r2.x < r1.x + r1.w
  /\ r1.y < r2.y + r2.h /\ r2.y < r1.y + r1.h
Meet(r1, r2) ==
  /\ r1.x <= r2.x + r2.w /\ r2.x <= r1.x + r1.w
  /\ r1.y <= r2.y + r2.h /\ r2.y <= r1.y + r1.h

(* The alarm's boxes are the intruders of the latest pass: every person   *)
(* whose box shares a pixel with a region of interest is among them, and   *)
(* every box among them at least touches a region.  So crossAlgorithm2     *)
(* misses no overlap and reports nothing separated from every region by a  *)
(* gap; between the two it is not symmetric (a box starting on the far     *)
(* edge of a region counts, one ending on its near edge does not).         *)
AlarmRectsAreIntruders ==
  LET hit == {b \in Range(found) : \E j \in 1 .. Len(Rois) : Overlap(Rois[j], b)}
  IN /\ hit \subseteq Range(alarm.rects)
     /\ \A b \in Range(alarm.rects) : \E j \in 1 .. Len(Rois) : Meet(Rois[j], b)
=============================================================================
