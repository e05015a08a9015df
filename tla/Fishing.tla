------------------------------ MODULE Fishing -------------------------------
(***************************************************************************)
(* FishingThread (FishingThread.cpp): each pass of Run takes the origin,   *)
(* segment and foreground images and calls FishingEstimate, which finds    *)
(* the people and the water in the 513 x 513 segment image                 *)
(* (TargetDectRect), picks the largest water region, and for each person   *)
(* beside it cuts a fishing-rod region out of the origin image and a       *)
(* region out of the foreground image, fits a line in each, and reports    *)
(* fishing when the two angles agree.                                      *)
(* A target is the bounding box of a contour and its centre (minAreaRect). *)
(* A person also carries the white pixels GetBinWhitePoint collects from   *)
(* its foreground region (bg) and from its processed rod region (bin): the *)
(* least-squares line fit and the angle test are modelled on them, the     *)
(* pixel filters that produce them (PreProcessSrc, DeleteHVLine,           *)
(* DeleteSmallArea) are not.  The geometry is kept: every product of an int and a double     *)
(* ratio the code truncates to int is the truncated exact rational, which  *)
(* equals the double result for every coordinate 0 .. 513 and the frame    *)
(* sizes of the model.  Taking a region of a cv::Mat (`img(rect)`) that is *)
(* not inside the image fails an OpenCV assertion: a cv::Exception nothing *)
(* catches, so the thread, and with it the process, terminates.           *)
(***************************************************************************)
EXTENDS Integers, Sequences, FiniteSetsExt

CONSTANTS
  Scenes   \* what one pass may see: [src |-> <<cols, rows>>, people, rivers]

\* IMG_SIZE (TensorflowThread.cpp): the segment image is 513 x 513.
SegCols == 513
SegRows == 513

VARIABLES
  alarm,   \* alarm.is_active
  status,  \* "running", or "aborted" once a cv::Exception left Run
  scene    \* the images of the latest pass

vars == <<alarm, status, scene>>

Rect(x, y, w, h) == [x |-> x, y |-> y, w |-> w, h |-> h]

\* `(int)(v * ((double)a / b))` for v, a, b >= 0.
Scale(v, a, b) == (v * a) \div b

Abs(v) == IF v < 0 THEN -v ELSE v

(* The cv::Mat(m, roi) assertion: the region lies inside an image of       *)
(* size <<cols, rows>>.                                                    *)
InImage(r, size) ==
  /\ 0 <= r.x /\ 0 <= r.w /\ r.x + r.w <= size[1]
  /\ 0 <= r.y /\ 0 <= r.h /\ r.y + r.h <= size[2]

IsEmpty(r) == r.w = 0 \/ r.h = 0

(* GaussBgModeling::GetForegroundImg: a frame of more than 280 * 20 pixels *)
(* is resized to 640 x 360 before the background model is applied.         *)
ForegroundSize(src) ==
  IF src[1] * src[2] > 280 * 20 THEN <<640, 360>> ELSE src

(* The water region with the largest area, the first among equal ones;     *)
(* (0, 0) when every area is 0.                                            *)
RECURSIVE RiverFrom(_, _, _, _)
RiverFrom(rivers, j, maxArea, loc) ==
  IF j > Len(rivers) THEN loc
  ELSE LET a == rivers[j].box.w * rivers[j].box.h IN
       IF a > maxArea THEN RiverFrom(rivers, j + 1, a, rivers[j].center)
       ELSE RiverFrom(rivers, j + 1, maxArea, loc)
RiverLocation(rivers) == RiverFrom(rivers, 1, 0, <<0, 0>>)

(* The person's box scaled from the segment image to the origin image.     *)
RealRect(src, p) ==
  Rect(Scale(p.box.x, src[1], SegCols), Scale(p.box.y, src[2], SegRows),
       Scale(p.box.w, src[1], SegCols), Scale(p.box.h, src[2], SegRows))

(* Person right of the river: the rod region to the person's left (or from *)
(* the river when that would leave the image), then the foreground region, *)
(* of which only the bottom is tested.  An empty region leaves its angle  *)
(* at 0, which never agrees.  The outcome of this person:                 *)
(* "next" (continue), "error" (an assertion fails), or "angles" (the two   *)
(* line angles are compared).                                              *)
RightOfRiver(src, p, loc) ==
  LET real == RealRect(src, p)
      x0 == real.x - real.w * 2
      rx == IF x0 <= 0 THEN Scale(loc[1], src[1], SegCols) ELSE x0
      rw == IF x0 <= 0 THEN Scale(Abs(p.box.x - loc[1]), src[1], SegCols)
            ELSE real.w * 2 - 2
      rod == Rect(rx, (real.y * 9) \div 10, rw, (real.h * 15) \div 10)
      fg == Rect(rod.x \div 2, rod.y \div 2, real.w \div 2, real.h \div 2)
  IN IF rod.h + rod.y > src[2] THEN "next"
     ELSE IF ~InImage(rod, src) THEN "error"
     ELSE IF Abs(rod.x \div 2 - real.w \div 2) < 0
             \/ rod.y \div 2 + real.h \div 2 > ForegroundSize(src)[2] THEN "next"
     ELSE IF ~InImage(fg, ForegroundSize(src)) THEN "error"
     ELSE IF IsEmpty(rod) \/ IsEmpty(fg) THEN "next"
     ELSE "angles"

(* Person left of the river: the rod region to the person's right, moved   *)
(* back when its corner leaves the image, then the foreground region,      *)
(* tested on both sides; empty regions are skipped.                        *)
LeftOfRiver(src, p, loc) ==
  LET real == RealRect(src, p)
      x1 == real.x + real.w
      y1 == (real.y * 12) \div 10
      rod == Rect(IF x1 > src[1] THEN real.x ELSE x1,
                  IF y1 > src[2] THEN real.y ELSE y1,
                  real.w * 2 - 2, (real.h * 15) \div 10)
      fg == Rect(rod.x \div 2, rod.y \div 2, real.w \div 2, real.h \div 2)
  IN IF rod.x + rod.w > src[1] \/ rod.h + rod.y > src[2] THEN "next"
     ELSE IF ~InImage(rod, src) THEN "error"
     ELSE IF IsEmpty(rod) THEN "next"
     ELSE IF fg.x + fg.w > ForegroundSize(src)[1]
             \/ fg.y + fg.h > ForegroundSize(src)[2] THEN "next"
     ELSE IF IsEmpty(fg) THEN "next"
     ELSE "angles"

(* One person of the loop: skipped when its scaled corner is not inside    *)
(* the frame, and neither branch when its centre is level with the river.  *)
PersonStep(src, p, loc) ==
  LET real == RealRect(src, p) IN
  IF real.x <= 0 \/ real.y <= 0 \/ real.y > src[2] \/ real.x > src[1] THEN "next"
  ELSE IF p.center[1] > loc[1] THEN RightOfRiver(src, p, loc)
  ELSE IF p.center[1] < loc[1] THEN LeftOfRiver(src, p, loc)
  ELSE "next"

(* LineFitting's least-squares sums over the white pixels P, as           *)
(* mathematical integers: k = n / d with n = N*Sxy - Sx*Sy and             *)
(* d = N*Sxx - Sx*Sx (d >= 0).                                             *)
LeastSquares(P) ==
  LET N == Cardinality(P)
      Sx == MapThenSumSet(LAMBDA p : p[1], P)
      Sy == MapThenSumSet(LAMBDA p : p[2], P)
      Sxy == MapThenSumSet(LAMBDA p : p[1] * p[2], P)
      Sxx == MapThenSumSet(LAMBDA p : p[1] * p[1], P)
  IN [n |-> N * Sxy - Sx * Sy, d |-> N * Sxx - Sx * Sx]

(* lineAngle after ISFishing / NextImgProcess: it stays 0.0 when there are *)
(* at most 2 or more than 70 white pixels.  The sums are size_t, so a      *)
(* negative numerator wraps to about 2^64; k is then above 10^9, 1 + k * k *)
(* rounds to k * k, sinValue is exactly -1 and the angle exactly -90.  All *)
(* x equal gives 0.0 / 0.0: the angle is NaN.  A zero numerator gives      *)
(* -0.0, which equals 0.  An angle -atan(k) in degrees is kept as the      *)
(* slope n / d it comes from, n = 1 and d = 0 for -90.                     *)
Angle(kind, n, d) == [kind |-> kind, n |-> n, d |-> d]

LineAngle(P) ==
  LET ls == LeastSquares(P) IN
  CASE Cardinality(P) <= 2 \/ Cardinality(P) > 70 -> Angle("zero", 0, 1)
    [] ls.d = 0 -> Angle("nan", 0, 0)
    [] ls.n < 0 -> Angle("slope", 1, 0)
    [] ls.n = 0 -> Angle("zero", 0, 1)
    [] OTHER -> Angle("slope", ls.n, ls.d)

(* `abs(a - b) < 4 && abs(a - b) > 0 && a != 0 && b != 0` on the angles   *)
(* -atan(k1) and -atan(k2) (the double std::abs): a NaN angle fails the    *)
(* first test.  For the slopes, tan of the difference is                   *)
(* (k1 - k2) / (1 + k1 * k2), and tan 4 degrees is 0.0699 (to 4 digits,    *)
(* which no scene of the model comes near).                                *)
AnglesAgree(a, b) ==
  /\ a.kind = "slope" /\ b.kind = "slope"
  /\ a.n * b.d /= b.n * a.d
  /\ Abs(a.n * b.d - b.n * a.d) * 10000 < 699 * (a.d * b.d + a.n * b.n)

(* The outcome of person i on: "true", "false" or "error".  Where the      *)
(* angles are compared and agree, FishingEstimate returns true; otherwise  *)
(* the loop goes on.                                                       *)
RECURSIVE PeopleFrom(_, _, _)
PeopleFrom(s, i, loc) ==
  IF i > Len(s.people) THEN "false"
  ELSE CASE PersonStep(s.src, s.people[i], loc) = "error" -> "error"
         [] PersonStep(s.src, s.people[i], loc) = "angles"
              /\ AnglesAgree(LineAngle(s.people[i].bg), LineAngle(s.people[i].bin)) -> "true"
         [] OTHER -> PeopleFrom(s, i + 1, loc)

(* FishingEstimate: no person or no water, or a water centre on the border *)
(* of the segment image, is "no fishing".                                  *)
FishingEstimate(s) ==
  LET loc == RiverLocation(s.rivers) IN
  IF s.people = <<>> \/ s.rivers = <<>> THEN "false"
  ELSE IF loc[1] <= 0 \/ loc[2] <= 0 \/ loc[1] >= SegCols \/ loc[2] >= SegRows
       THEN "false"
  ELSE PeopleFrom(s, 1, loc)

-----------------------------------------------------------------------------
Init == alarm = FALSE /\ status = "running" /\ scene = <<>>

(* One pass of FishingThread::Run with all three images present:           *)
(* SetAlarm(FishingEstimate(...), people_rect), or the exception ends it.  *)
Analyse ==
  /\ status = "running"
  /\ \E s \in Scenes :
       LET r == FishingEstimate(s) IN
       /\ scene' = s
       /\ IF r = "error" THEN status' = "aborted" /\ UNCHANGED alarm
          ELSE alarm' = (r = "true") /\ UNCHANGED status

\* GetAlarm copies the alarm and clears is_active.
GetAlarm == status = "running" /\ alarm' = FALSE /\ UNCHANGED <<status, scene>>

Next == Analyse \/ GetAlarm

Spec == Init /\ [][Next]_vars

-----------------------------------------------------------------------------
(* FishingThread never leaves Run by an exception: spec section 4 says a   *)
(* stage never throws out of Run() and an internal error is a skipped      *)
(* tick; FishingEstimate tests its regions before it cuts them out.        *)
FishingNeverThrows ==
  status = "running"

(* The angle LineFitting means to compute: the same fit with a signed      *)
(* numerator, so that a line rising to the right has a positive angle.     *)
RefAngle(P) ==
  LET ls == LeastSquares(P) IN
  CASE Cardinality(P) <= 2 \/ Cardinality(P) > 70 \/ ls.n = 0 -> Angle("zero", 0, 1)
    [] ls.d = 0 -> Angle("nan", 0, 0)
    [] OTHER -> Angle("slope", ls.n, ls.d)

(* A fishing alarm rests on two rod lines that agree: FishingEstimate      *)
(* returns true for a person whose line in the foreground region and line  *)
(* in the rod region lie within 4 degrees of each other, but LineFitting   *)
(* computes the slope's numerator in size_t, so every line rising to the   *)
(* right reads as -90 degrees and matches any steep line falling to it.    *)
FishingMeansLinesAgree ==
  alarm =>
    \E i \in DOMAIN scene.people :
      /\ PersonStep(scene.src, scene.people[i], RiverLocation(scene.rivers)) = "angles"
      /\ AnglesAgree(RefAngle(scene.people[i].bg), RefAngle(scene.people[i].bin))
=============================================================================
