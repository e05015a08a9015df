----------------------------- MODULE WaterGauge -----------------------------
(***************************************************************************)
(* WaterGaugeThread (WaterGaugeThread.cpp): every pass of Run with both    *)
(* images present calls CWaterLevelMeasure, and when it returns Normal     *)
(* calls SetAlarm(water_gauge_length - (result / 0.6) * 0.01), where       *)
(* result is the number of scale marks getScaler counted.  The pass:       *)
(*   - WaterDraftMeasure finds the red gauge in the segment image; none is *)
(*     InputFileError, the only error it returns;                          *)
(*   - it straightens the gauge by the largest contour of its saturation   *)
(*     edges (box2[maxAreaIndex2], read even when there is none);          *)
(*   - scannerLine narrows the region to the columns with enough vertical  *)
(*     jumps, and its result is ignored;                                   *)
(*   - the rows of low saturation are cut off above and below, against the *)
(*     average of the nonzero pixels (sumGray / number);                   *)
(*   - getWaterLevelScaler returns Normal whatever getScaler returned.     *)
(* A scene gives the facts of the images the code branches on: whether    *)
(* each contour search finds something, the jump count of each column, the *)
(* rows with more than 10 bright pixels, and the bounding box of each      *)
(* scale-mark contour.  The reading is kept as the scale count it is       *)
(* computed from.  The doubles 0.9 and 0.25 are taken as exact ratios.     *)
(***************************************************************************)
EXTENDS Integers, Sequences, FiniteSets

CONSTANTS
  Scenes   \* [gauge, tilt, sat, jumps, rows, marks]

\* #define JUMP_COUNT 8 and LEFT_RIGHT_COUNT 5.
JUMP_COUNT == 8
LEFT_RIGHT_COUNT == 5

VARIABLES
  alarm,   \* [active, count]: alarm.is_active and the scale count behind
           \* water_gauge_num
  status,  \* "running", or "aborted" once a pass crashed the process
  last     \* the region the latest measuring pass cut: [x, w, y, h] within
           \* the cols of the straightened image and the rows of the cut

vars == <<alarm, status, last>>

NoRegion == [x |-> 0, w |-> 0, cols |-> 0, y |-> 0, h |-> 0, rows |-> 0]

(* scannerLine on the jump counts of the columns (jumps[i + 1] is column   *)
(* i) over the region [x, x + w): the first column of three with           *)
(* JUMP_COUNT jumps is the left edge, the last such from the right the     *)
(* right edge (plus two).  A left edge at 0 or width - 2 is -2, a region   *)
(* of at most LEFT_RIGHT_COUNT columns -3; both leave the region as it was.*)
ScannerLine(jumps, x, w) ==
  LET Jump(i) == jumps[i + 1] >= JUMP_COUNT
      Left == {i \in x .. x + w - 4 : Jump(i) /\ Jump(i + 1) /\ Jump(i + 2)}
      leftIndex == IF Left = {} THEN 0 ELSE CHOOSE i \in Left : \A j \in Left : i <= j
      Right == {i \in leftIndex + 2 .. x + w - 3 : Jump(i) /\ Jump(i - 1) /\ Jump(i - 2)}
      rightIndex == IF Right = {} THEN x + w - 3
                    ELSE (CHOOSE i \in Right : \A j \in Right : i >= j) + 2
  IN CASE leftIndex = 0 \/ leftIndex = Len(jumps) - 2 -> [code |-> -2, x |-> x, w |-> w]
       [] rightIndex <= leftIndex + LEFT_RIGHT_COUNT -> [code |-> -3, x |-> x, w |-> w]
       [] OTHER -> [code |-> 0, x |-> leftIndex, w |-> rightIndex - leftIndex]

(* 剪去上下能量低的区域: rows[i + 1] says row i of the cut has more than 10 *)
(* pixels brighter than the average.  The first such row of the upper half *)
(* moves the top down, the last of the lower half moves the bottom up;     *)
(* either only when more than 5 rows lie below it.                         *)
TrimRows(rows) ==
  LET H == Len(rows)
      Top == {i \in 0 .. H \div 2 - 1 : rows[i + 1]}
      Bottom == {i \in H \div 2 + 1 .. H - 1 : rows[i + 1]}
      i == CHOOSE i \in Top : \A j \in Top : i <= j
      k == CHOOSE k \in Bottom : \A j \in Bottom : k >= j
      top == IF Top /= {} /\ H - i > 5 THEN [y |-> i, h |-> H - i - 1] ELSE [y |-> 0, h |-> H]
  IN IF Bottom /= {} /\ H - k > 5 THEN [top EXCEPT !.h = @ - H + k + 4] ELSE top

(* getScaler on the bounding boxes of the scale-mark contours, in a region *)
(* W wide: -1 with no contour; otherwise the number of contours, plus one  *)
(* for each as wide as 0.9 W and each more than twice the average height,  *)
(* minus one for each of area below 0.25 W times the average height.      *)
GetScaler(marks, W) ==
  LET n == Len(marks)
      Count(P(_)) == Cardinality({j \in 1 .. n : P(marks[j])})
      avg == LET RECURSIVE SumH(_) SumH(j) == IF j = 0 THEN 0 ELSE marks[j].h + SumH(j - 1)
             IN SumH(n) \div n
      Wide(m) == 10 * m.w >= 9 * W
      Tall(m) == m.h > 2 * avg
      Small(m) == 4 * m.w * m.h < W * avg
  IN IF n = 0 THEN -1 ELSE n + Count(Wide) + Count(Tall) - Count(Small)

(* The outcomes of one CWaterLevelMeasure on the scene s: "error"          *)
(* (InputFileError), "crash", or the region cut and the scale count.       *)
(* With no saturation contour box2 is empty and box2[0] is read past its   *)
(* end: the angle is whatever the memory holds, or the read faults.  A cut *)
(* with no nonzero saturation divides by number = 0, which traps.          *)
Measure(s) ==
  LET Fail(k) == [kind |-> k, region |-> NoRegion, count |-> 0]
      r == ScannerLine(s.jumps, 0, Len(s.jumps))
      t == TrimRows(s.rows)
      ok == [kind |-> "normal", count |-> GetScaler(s.marks, r.w),
             region |-> [x |-> r.x, w |-> r.w, cols |-> Len(s.jumps),
                         y |-> t.y, h |-> t.h, rows |-> Len(s.rows)]]
  IN CASE ~s.gauge -> {Fail("error")}
       [] ~s.tilt -> {Fail("crash")} \cup (IF s.sat THEN {ok} ELSE {})
       [] ~s.sat -> {Fail("crash")}
       [] OTHER -> {ok}

-----------------------------------------------------------------------------
Init ==
  /\ alarm = [active |-> FALSE, count |-> 0]
  /\ status = "running"
  /\ last = NoRegion

(* One pass of Run with both images present: CWaterLevelMeasure, then     *)
(* SetAlarm when it returned Normal.                                       *)
Pass ==
  /\ status = "running"
  /\ \E s \in Scenes : \E o \in Measure(s) :
       CASE o.kind = "crash" -> status' = "aborted" /\ UNCHANGED <<alarm, last>>
         [] o.kind = "error" -> UNCHANGED vars
         [] OTHER -> /\ alarm' = [active |-> TRUE, count |-> o.count]
                     /\ last' = o.region
                     /\ UNCHANGED status

\* GetAlarm copies the alarm and clears is_active.
GetAlarm ==
  /\ status = "running"
  /\ alarm' = [alarm EXCEPT !.active = FALSE]
  /\ UNCHANGED <<status, last>>

Next == Pass \/ GetAlarm

Spec == Init /\ [][Next]_vars

-----------------------------------------------------------------------------
(* A water-gauge alarm carries a reading taken from at least one scale     *)
(* mark: getScaler returns -1 when it finds no mark, and its count can     *)
(* fall to 0 when every mark is small, yet getWaterLevelScaler returns     *)
(* Normal, and Run turns the count into water_gauge_length - count / 60.   *)
WaterGaugeReadsScale ==
  alarm.active => alarm.count >= 1

(* A pass never brings the process down: spec section 4 has a stage turn   *)
(* an internal error into a skipped tick, but WaterDraftMeasure divides by *)
(* the number of nonzero saturation pixels and indexes box2 without       *)
(* testing either for zero.                                                *)
WaterGaugeKeepsRunning ==
  status = "running"

(* The region WaterDraftMeasure cuts out, `_inputMatCut(draft1._targetRect)`*)
(* after scannerLine and the row trim, lies inside the straightened image  *)
(* and is not empty, so the cv::Mat region assertion holds.                *)
CutInsideImage ==
  last /= NoRegion =>
    /\ 0 <= last.x /\ 0 < last.w /\ last.x + last.w <= last.cols
    /\ 0 <= last.y /\ 0 < last.h /\ last.y + last.h <= last.rows
=============================================================================
