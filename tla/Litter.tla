------------------------------- MODULE Litter -------------------------------
(***************************************************************************)
(* LitterThread (LitterThread.cpp): every pass of Run with both images     *)
(* present calls get_result on the segment image.  DetectFrameNumber is    *)
(* decremented; at 0 the pass is an analysis, otherwise it takes a         *)
(* reference frame (the floaters it sees) and sets the number to 1.  The   *)
(* analysis finds people, floaters and cars (getObjectRect), computes      *)
(* is_car over every person-car pair, and decides on the first person and  *)
(* the first floater: a litter alarm when they are 50 .. 300 apart, the    *)
(* number of floaters differs from the reference frame and is_car is       *)
(* false.  A target is the bounding box of a contour and its centre        *)
(* (minAreaRect, rounded to cv::Point); contours are found in an order     *)
(* the model does not fix.  getObjectRect draws every box it finds onto    *)
(* the segment image in (0, 0, 255), which is CAR_COLOR (DefineColor.cpp), *)
(* so the car search, which comes last, also finds the outline of every    *)
(* person and floater whose contour has more than 100 points.  The         *)
(* outlines are assumed not to touch each other or a car.                  *)
(***************************************************************************)
EXTENDS Integers, Sequences, SequencesExt

CONSTANTS
  Scenes,        \* what one pass may see: [people, floaters, cars]
  FrameNumbers   \* what DetectFrameNumber may hold after construction

VARIABLES
  count,    \* DetectFrameNumber
  refSize,  \* DetectFrameFloater.size()
  alarm,    \* alarm.is_active
  scene,    \* the segment image of the latest pass
  pass,     \* what the latest pass was: "none", "reference", "analysis"
  isCar     \* Run's is_car, as the latest analysis left it

vars == <<count, refSize, alarm, scene, pass, isCar>>

\* LitterThread::isOverlap: the closed boxes meet.
IsOverlap(r1, r2) ==
  /\ r1.x + r1.w >= r2.x /\ r2.x + r2.w >= r1.x
  /\ r1.y + r1.h >= r2.y /\ r2.y + r2.h >= r1.y

\* The largest r in lo .. hi with r * r <= n.
RECURSIVE ISqrt(_, _, _)
ISqrt(n, lo, hi) ==
  IF lo >= hi THEN lo
  ELSE LET mid == (lo + hi + 1) \div 2
       IN IF mid * mid <= n THEN ISqrt(n, mid, hi) ELSE ISqrt(n, lo, mid - 1)

(* `distancePeopleFloat = sqrt(dx*dx + dy*dy)` into a size_t: the double   *)
(* square root is truncated, which is the integer square root (the search  *)
(* starts below 46340, whose square is the largest below 2^31).           *)
Distance(p, q) ==
  LET n == (p[1] - q[1]) ^ 2 + (p[2] - q[2]) ^ 2
  IN ISqrt(n, 0, IF n < 46340 THEN n ELSE 46340)

\* cvRound(a / 2): halves go to the even neighbour.
HalfRound(a) ==
  IF (a % 2) = 0 \/ ((a \div 2) % 2) = 0 THEN a \div 2 ELSE a \div 2 + 1

(* The outline `rectangle(srcImg, rect.boundingRect(), Scalar(0,0,255))`  *)
(* as a car contour: its external contour has 2(w + h) - 4 points, and it  *)
(* is kept when that is more than the 100 of the car search.               *)
Outline(t) ==
  [box |-> t.box,
   center |-> <<HalfRound(2 * t.box.x + t.box.w - 1),
                HalfRound(2 * t.box.y + t.box.h - 1)>>]
HasOutlineCar(t) == 2 * (t.box.w + t.box.h) - 4 > 100

\* The cars getObjectRect(srcImage, color_car, car_rect, 100) finds.
CarsSeen(s) ==
  Range(s.cars) \cup {Outline(t) : t \in {t \in Range(s.people) \cup Range(s.floaters) : HasOutlineCar(t)}}

(* One person-car pair of the first loop.  minDistance (uint32, from 400)  *)
(* only falls; is_car is set from it by the last non-overlapping pair and  *)
(* cleared by an overlapping one.                                          *)
CarStep(acc, pc) ==
  IF IsOverlap(pc[1].box, pc[2].box) THEN [acc EXCEPT !.isCar = FALSE]
  ELSE LET d == Distance(pc[1].center, pc[2].center)
           m == IF d < acc.min THEN d ELSE acc.min
       IN [min |-> m, isCar |-> 50 < m /\ m < 100]

\* The pairs (people[m], cars[n]), m outer, n inner.
Pairs(P, C) ==
  [k \in 1 .. Len(P) * Len(C) |-> <<P[(k - 1) \div Len(C) + 1], C[((k - 1) % Len(C)) + 1]>>]

(* The analysis branch of get_result, with the cars in the order cars.     *)
(* The floater loop returns on its first pair; with no person or no       *)
(* floater it falls through and DetectFrameNumber stays 0.                 *)
Analysis(s, cars, ref) ==
  LET acc == FoldLeft(CarStep, [min |-> 400, isCar |-> FALSE], Pairs(s.people, cars))
  IN IF s.people = <<>> \/ s.floaters = <<>>
     THEN [result |-> FALSE, count |-> 0, isCar |-> acc.isCar]
     ELSE LET p == s.people[1]
              f == s.floaters[1]
              d == Distance(p.center, f.center)
              m == IF d < acc.min THEN d ELSE acc.min
          IN [count |-> 3, isCar |-> acc.isCar,
              result |-> /\ ~IsOverlap(p.box, f.box)
                         /\ 50 < m /\ m < 300
                         /\ ref /= Len(s.floaters)
                         /\ ~acc.isCar]

-----------------------------------------------------------------------------
\* LitterThread(Analysis*) leaves DetectFrameNumber uninitialized.
Init ==
  /\ count \in FrameNumbers
  /\ refSize = 0
  /\ alarm = FALSE
  /\ scene = [people |-> <<>>, floaters |-> <<>>, cars |-> <<>>]
  /\ pass = "none"
  /\ isCar = FALSE

(* One pass of Run on the segment image s, from DetectFrameNumber and the  *)
(* size of the reference frame in st: get_result, then                     *)
(* SetAlarm(state == 0 && result == 1).  A reference pass leaves result at *)
(* 0 and is_car as it was.  The possible outcomes, one per car order.      *)
PassOutcomes(st, s) ==
  IF st.count - 1 = 0
  THEN {LET r == Analysis(s, cars, st.refSize)
        IN [count |-> r.count, refSize |-> st.refSize, alarm |-> r.result,
            pass |-> "analysis", isCar |-> r.isCar] : cars \in SetToSeqs(CarsSeen(s))}
  ELSE {[count |-> 1, refSize |-> Len(s.floaters), alarm |-> FALSE,
         pass |-> "reference", isCar |-> st.isCar]}

Pass ==
  \E s \in Scenes :
    \E o \in PassOutcomes([count |-> count, refSize |-> refSize, isCar |-> isCar], s) :
      /\ count' = o.count /\ refSize' = o.refSize /\ alarm' = o.alarm
      /\ pass' = o.pass /\ isCar' = o.isCar /\ scene' = s

\* GetAlarm copies the alarm and clears is_active.
GetAlarm == alarm' = FALSE /\ UNCHANGED <<count, refSize, scene, pass, isCar>>

Next == Pass \/ GetAlarm

Spec == Init /\ [][Next]_vars

-----------------------------------------------------------------------------
(* A litter alarm names a person and a floater between 50 and 300 pixels   *)
(* apart: get_result's test `50 < minDistance && minDistance < 300` is     *)
(* about the person-floater distance, but minDistance is shared with the   *)
(* person-car loop that ran before it.                                     *)
LitterAlarmHasNearbyFloater ==
  alarm =>
    \E i \in 1 .. Len(scene.people), j \in 1 .. Len(scene.floaters) :
      LET d == Distance(scene.people[i].center, scene.floaters[j].center)
      IN ~IsOverlap(scene.people[i].box, scene.floaters[j].box) /\ 50 < d /\ d < 300

(* An analysis of a segment image with no car never finds a car near a   *)
(* person: is_car is meant to come from the cars of the segmentation, but  *)
(* the car search runs on an image getObjectRect has drawn the people's    *)
(* and floaters' boxes onto in CAR_COLOR.                                  *)
LitterIgnoresOutlines ==
  pass = "analysis" /\ scene.cars = <<>> => ~isCar

(* Every analysis compares with a reference frame taken by the pass just   *)
(* before it: get_result decrements DetectFrameNumber, which the public    *)
(* constructor never sets, so the first pass may be an analysis against    *)
(* the empty DetectFrameFloater.                                           *)
LitterAnalysisFollowsReference ==
  [][pass' = "analysis" => pass = "reference"]_vars
=============================================================================
