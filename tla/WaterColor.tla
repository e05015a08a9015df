----------------------------- MODULE WaterColor -----------------------------
(***************************************************************************)
(* WaterColorThread (WaterColorThread.cpp): each pass of Run takes the     *)
(* origin and segment images, averages the origin pixels the segmentation  *)
(* marks as water (getWaterColor), converts the mean to HSV (rgbToHsv),    *)
(* names its colour (getColor), and sets its alarm.  DrawInfo reads the    *)
(* alarm with GetAlarm.                                                    *)
(* The water mask (inRange and threshold on the segment image) is given    *)
(* as a bag of the origin pixels it selects, each a cv::Vec3b <<B, G, R>>. *)
(* The doubles of rgbToHsv are exact rationals [n |-> num, d |-> den]:     *)
(* every comparison getColor makes is between a ratio of channel values    *)
(* and a constant, and the double and the exact ratio fall on the same     *)
(* side of each constant for every 8-bit input (the one inexact hue, 85   *)
(* computed as 84.99999999999999, is on the same side of `H <= 85`).       *)
(* The channel sums are unsigned int and cannot wrap: at most 513 x 513   *)
(* pixels (IMG_SIZE) of at most 255.                                       *)
(***************************************************************************)
EXTENDS Integers, Bags, FiniteSetsExt, Functions

CONSTANTS
  Scenes    \* the water masks an analysis pass may see: bags of pixels

Pixels == (0 .. 255) \X (0 .. 255) \X (0 .. 255)

ASSUME \A s \in Scenes : IsABag(s) /\ DOMAIN s \subseteq Pixels

\* The colour names getColor returns, and "" for getWaterColor's empty result.
Colours == {"black", "white", "lightgrey", "darkgrey", "lightred", "darkred",
            "green", "cyan", "blue", "magenta"}
NoColour == ""

VARIABLES
  alarm,  \* alarm.is_active and alarm.water_color
  water   \* the water mask of the latest pass of Run

vars == <<alarm, water>>

(***************************************************************************)
(* Exact rationals.                                                        *)
(***************************************************************************)
Q(n, d) == [n |-> n, d |-> d]                 \* d > 0
LtQ(a, n, d) == a.n * d < n * a.d             \* a < n/d
GtQ(a, n, d) == a.n * d > n * a.d             \* a > n/d
EqQ(a, b) == a.n * b.d = b.n * a.d

(***************************************************************************)
(* rgbToHsv                                                                *)
(***************************************************************************)
RECURSIVE WrapDown(_), WrapUp(_)
\* `while (H > 360) H -= 360;`
WrapDown(h) == IF h.n > 360 * h.d THEN WrapDown(Q(h.n - 360 * h.d, h.d)) ELSE h
\* `while (H < 0) H += 360;`
WrapUp(h) == IF h.n < 0 THEN WrapUp(Q(h.n + 360 * h.d, h.d)) ELSE h

Larger(x, y) == IF x > y THEN x ELSE y
Smaller(x, y) == IF x < y THEN x ELSE y

(* A plausible bug, used as a mutant: the `while (H < 0)` loop left out,   *)
(* so a red hue with B > G stays negative.                                 *)
RgbToHsvNoWrapUp(R, G, B) ==
  LET mx == Larger(Larger(B, G), R)
      mn == Smaller(Smaller(B, G), R)
      d == mx - mn
      h0 == IF B = mx THEN Q(4 * d + R - G, d)
            ELSE IF G = mx THEN Q(2 * d + B - R, d)
            ELSE Q(G - B, d)
  IN IF mx = mn THEN [h |-> Q(0, 1), s |-> Q(0, 1), v |-> Q(mx, 255)]
     ELSE [h |-> WrapDown(Q(60 * h0.n, h0.d)), s |-> Q(d, mx), v |-> Q(mx, 255)]

(* MAX and MIN by the code's ternaries; H from whichever of the three      *)
(* `if (X == MAX)` tests holds last (they are not else-ifs), times 60,     *)
(* brought into [0, 360]; S = (MAX - MIN) / MAX; V = MAX / 255.            *)
RgbToHsv(R, G, B) ==
  LET mx == Larger(Larger(B, G), R)
      mn == Smaller(Smaller(B, G), R)
      d == mx - mn
      h0 == IF B = mx THEN Q(4 * d + R - G, d)
            ELSE IF G = mx THEN Q(2 * d + B - R, d)
            ELSE Q(G - B, d)
  IN IF mx = mn THEN [h |-> Q(0, 1), s |-> Q(0, 1), v |-> Q(mx, 255)]
     ELSE [h |-> WrapUp(WrapDown(Q(60 * h0.n, h0.d))), s |-> Q(d, mx), v |-> Q(mx, 255)]

(***************************************************************************)
(* getColor: the nested tests in the code's order.  Where both sides of an *)
(* `S < 0.4` test give the same name (yellow, green, cyan, blue, magenta)  *)
(* the test is left out.  The yellow band 25..85 is named dark grey.       *)
(***************************************************************************)
GetColor(hsv) ==
  LET H == hsv.h  S == hsv.s  V == hsv.v IN
  IF LtQ(V, 30, 255) THEN "black"
  ELSE IF LtQ(S, 1, 10)
       THEN IF GtQ(V, 180, 255) THEN "white"
            ELSE IF GtQ(V, 80, 255) THEN "lightgrey" ELSE "darkgrey"
  ELSE IF ~GtQ(H, 85, 1) /\ ~LtQ(H, 25, 1) THEN "darkgrey"
  ELSE IF LtQ(H, 25, 1) \/ GtQ(H, 330, 1)
       THEN IF LtQ(S, 2, 5) THEN "lightred" ELSE "darkred"
  ELSE IF GtQ(H, 85, 1) /\ ~GtQ(H, 165, 1) THEN "green"
  ELSE IF GtQ(H, 165, 1) /\ ~GtQ(H, 205, 1) THEN "cyan"
  ELSE IF GtQ(H, 205, 1) /\ ~GtQ(H, 275, 1) THEN "blue"
  ELSE "magenta"

(***************************************************************************)
(* getWaterColor and get_result_color                                      *)
(***************************************************************************)
\* temSize, and the channel k (1 = B, 2 = G, 3 = R) summed over the mask.
TemSize(mask) == BagCardinality(mask)
ChannelSum(mask, k) == SumFunction([p \in DOMAIN mask |-> mask[p] * p[k]])

(* More than 100 water pixels: the integer mean of each channel, then      *)
(* rgbToHsv(R, G, B) and getColor; otherwise "".                           *)
GetWaterColor(mask) ==
  LET n == TemSize(mask) IN
  IF n > 100
  THEN GetColor(RgbToHsv(ChannelSum(mask, 3) \div n, ChannelSum(mask, 2) \div n,
                         ChannelSum(mask, 1) \div n))
  ELSE NoColour

\* Both images are there (Run has checked them), so the state is 1.
GetResultColor(mask) == [state |-> 1, result |-> GetWaterColor(mask)]

(***************************************************************************)
(* Reference: the hexcone HSV of an RGB triple, hue in [0, 360).           *)
(***************************************************************************)
HsvRef(R, G, B) ==
  LET mx == Max({R, G, B})
      d == mx - Min({R, G, B})
  IN IF d = 0 THEN [h |-> Q(0, 1), s |-> Q(0, 1), v |-> Q(mx, 255)]
     ELSE [h |-> CASE mx = R -> Q(60 * ((G - B) % (6 * d)), d)
                   [] mx # R /\ mx = G -> Q(60 * (B - R + 2 * d), d)
                   [] mx # R /\ mx # G -> Q(60 * (R - G + 4 * d), d),
           s |-> Q(d, mx), v |-> Q(mx, 255)]

SameHsv(a, b) == EqQ(a.h, b.h) /\ EqQ(a.s, b.s) /\ EqQ(a.v, b.v)

-----------------------------------------------------------------------------
Init == alarm = [active |-> FALSE, color |-> NoColour] /\ water = EmptyBag

\* SetAlarm(color): the colour and is_active under alarm_mutex.
SetAlarm(color) == alarm' = [active |-> TRUE, color |-> color]

(* One pass of WaterColorThread::Run with both images present:             *)
(* `state = get_result_color(...); if (state == 1 || !result.empty())      *)
(* SetAlarm(result.c_str());`.                                             *)
Analyse(mask) ==
  /\ water' = mask
  /\ LET r == GetResultColor(mask) IN
     IF r.state = 1 \/ r.result # NoColour THEN SetAlarm(r.result)
     ELSE UNCHANGED alarm

\* GetAlarm copies the alarm and clears is_active.
GetAlarm == alarm' = [alarm EXCEPT !.active = FALSE] /\ UNCHANGED water

Next == (\E mask \in Scenes : Analyse(mask)) \/ GetAlarm

Spec == Init /\ [][Next]_vars

-----------------------------------------------------------------------------
(* rgbToHsv of the mean colour of the water the thread last analysed is    *)
(* the hexcone HSV of that colour: the non-exclusive `if (X == MAX)`       *)
(* tests, the ternary MAX/MIN and the two wrap loops agree with the        *)
(* textbook formula, ties between channels included.                       *)
HsvAgreesWithReference ==
  LET n == TemSize(water)
      R == ChannelSum(water, 3) \div n
      G == ChannelSum(water, 2) \div n
      B == ChannelSum(water, 1) \div n
  IN n > 0 => SameHsv(RgbToHsv(R, G, B), HsvRef(R, G, B))

(* An active WaterColor alarm names a colour: Run's test                   *)
(* `!result.empty()` means to raise the alarm only when getWaterColor      *)
(* found enough water to name one.                                         *)
AlarmHasColour ==
  alarm.active => alarm.color # NoColour
=============================================================================
