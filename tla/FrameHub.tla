------------------------------ MODULE FrameHub ------------------------------
(***************************************************************************)
(* The images one camera shares between its threads (Analysis.h):          *)
(*   origin_img     written by the capture thread (SetOriginImg), read by   *)
(*                  TensorflowThread and every detector (GetOriginImg);     *)
(*   foreground_img written by the capture thread when open_modeling is    *)
(*                  set (SetForegroundImg), read by FishingThread and       *)
(*                  FloaterThread (GetForegroundImg);                       *)
(*   segment_img    written by TensorflowThread (SetSegmentImg), read by    *)
(*                  the detectors (GetSegmentImg) and, with no lock, by the *)
(*                  capture thread: `DrawInfo(img, segment_img)` copies the *)
(*                  cv::Mat header, sharing its pixel buffer, and the       *)
(*                  SEGMANTIC case of DrawInfo reads those pixels.          *)
(* Every Set/Get holds the image's mutex and copies (copyTo / clone), so   *)
(* each is one step.  SetSegmentImg copies into the buffer segment_img     *)
(* already has (same size every time), so while it holds segment_mutex    *)
(* the pixels DrawInfo reads are being overwritten: that copy is a state   *)
(* of TensorflowThread of its own.  An image is named by the number of the *)
(* captured frame it comes from; 0 is an empty cv::Mat.  Frame numbers     *)
(* stop growing at MaxFrames (later frames are identified with the last).  *)
(***************************************************************************)
EXTENDS Integers

CONSTANTS
  Detectors,     \* the detector threads of the camera
  Kind,          \* the detector class of each
  OpenModeling,  \* config.open_modeling(): the foreground image is published
  MaxFrames      \* bound: the frame numbers

Kinds == {"Invade", "Fishing", "Litter", "Floater", "WaterColor", "WaterGauge"}

ASSUME Kind \in [Detectors -> Kinds]
ASSUME OpenModeling \in BOOLEAN
ASSUME MaxFrames \in Nat \ {0}

Frames == 0 .. MaxFrames
Empty == 0

(* FishingThread::Run and FloaterThread::Run also take GetForegroundImg    *)
(* and skip the frame while it is empty.                                   *)
NeedsForeground == {d \in Detectors : Kind[d] \in {"Fishing", "Floater"}}

VARIABLES
  origin, foreground, segment,  \* the frame each shared image holds
  cpc,       \* the capture thread: "origin", "foreground", "draw"
  tpc,       \* TensorflowThread: "snap", "infer", "copy"
  tin,       \* the origin frame TensorflowThread is segmenting
  dpc,       \* each detector: "origin", "segment", "foreground", "check"
  dorig, dseg, dfg,  \* the images a detector's loop iteration holds
  analysed   \* whether a detector has analysed a frame (reached SetAlarm)

vars == <<origin, foreground, segment, cpc, tpc, tin, dpc, dorig, dseg, dfg,
          analysed>>

NextFrame(f) == IF f < MaxFrames THEN f + 1 ELSE f

Init ==
  /\ origin = Empty /\ foreground = Empty /\ segment = Empty
  /\ cpc = "origin"
  /\ tpc = "snap" /\ tin = Empty
  /\ dpc = [d \in Detectors |-> "origin"]
  /\ dorig = [d \in Detectors |-> Empty]
  /\ dseg = [d \in Detectors |-> Empty]
  /\ dfg = [d \in Detectors |-> Empty]
  /\ analysed = [d \in Detectors |-> FALSE]

(***************************************************************************)
(* A plausible bug, used as a mutant: TensorflowThread tests the origin    *)
(* image the wrong way round and sleeps while there is one.                *)
(***************************************************************************)
TensorflowSnapInverted ==
  /\ tpc = "snap"
  /\ \/ origin /= Empty /\ UNCHANGED <<tpc, tin>>
     \/ origin = Empty /\ tin' = origin /\ tpc' = "infer"
  /\ UNCHANGED <<origin, foreground, segment, cpc, dpc, dorig, dseg, dfg, analysed>>

(***************************************************************************)
(* The capture thread, one frame of Analysis::Run's loop.                  *)
(***************************************************************************)
\* `cap >> img` gave a frame: SetOriginImg(img).
CaptureOrigin ==
  /\ cpc = "origin"
  /\ origin' = NextFrame(origin)
  /\ cpc' = "foreground"
  /\ UNCHANGED <<foreground, segment, tpc, tin, dpc, dorig, dseg, dfg, analysed>>

\* `if (config.has_open_modeling() && config.open_modeling())
\*    SetForegroundImg(...)`: the foreground of the same frame.
CaptureForeground ==
  /\ cpc = "foreground"
  /\ foreground' = IF OpenModeling THEN origin ELSE foreground
  /\ cpc' = "draw"
  /\ UNCHANGED <<origin, segment, tpc, tin, dpc, dorig, dseg, dfg, analysed>>

(* DrawInfo(img, segment_img): the header copy and, for the SEGMANTIC      *)
(* algorithm, inRange/findContours on its pixels; then usleep.             *)
CaptureDraw ==
  /\ cpc = "draw"
  /\ cpc' = "origin"
  /\ UNCHANGED <<origin, foreground, segment, tpc, tin, dpc, dorig, dseg, dfg, analysed>>

(***************************************************************************)
(* TensorflowThread::Run                                                   *)
(***************************************************************************)
\* GetOriginImg; an empty one means usleep and `continue`.
TensorflowSnap ==
  /\ tpc = "snap"
  /\ \/ origin = Empty /\ UNCHANGED <<tpc, tin>>
     \/ origin /= Empty /\ tin' = origin /\ tpc' = "infer"
  /\ UNCHANGED <<origin, foreground, segment, cpc, dpc, dorig, dseg, dfg, analysed>>

\* session->Run succeeded: SetSegmentImg takes segment_mutex and copies.
InferOk ==
  /\ tpc = "infer"
  /\ tpc' = "copy"
  /\ UNCHANGED <<origin, foreground, segment, cpc, tin, dpc, dorig, dseg, dfg, analysed>>

\* `!status.ok() || outputs.empty()`: usleep and `continue`.
InferFail ==
  /\ tpc = "infer"
  /\ tpc' = "snap"
  /\ UNCHANGED <<origin, foreground, segment, cpc, tin, dpc, dorig, dseg, dfg, analysed>>

\* input.copyTo(segment_img) is done; segment_mutex is released.
SegmentCopied ==
  /\ tpc = "copy"
  /\ segment' = tin
  /\ tpc' = "snap"
  /\ UNCHANGED <<origin, foreground, cpc, tin, dpc, dorig, dseg, dfg, analysed>>

(***************************************************************************)
(* A detector's Run loop, up to the analysis and SetAlarm.                 *)
(***************************************************************************)
SnapOrigin(d) ==
  /\ dpc[d] = "origin"
  /\ dorig' = [dorig EXCEPT ![d] = origin]
  /\ dpc' = [dpc EXCEPT ![d] = "segment"]
  /\ UNCHANGED <<origin, foreground, segment, cpc, tpc, tin, dseg, dfg, analysed>>

\* GetSegmentImg waits for segment_mutex while SetSegmentImg holds it.
SnapSegment(d) ==
  /\ dpc[d] = "segment"
  /\ tpc /= "copy"
  /\ dseg' = [dseg EXCEPT ![d] = segment]
  /\ dpc' = [dpc EXCEPT ![d] = IF d \in NeedsForeground THEN "foreground" ELSE "check"]
  /\ UNCHANGED <<origin, foreground, segment, cpc, tpc, tin, dorig, dfg, analysed>>

SnapForeground(d) ==
  /\ dpc[d] = "foreground"
  /\ dfg' = [dfg EXCEPT ![d] = foreground]
  /\ dpc' = [dpc EXCEPT ![d] = "check"]
  /\ UNCHANGED <<origin, foreground, segment, cpc, tpc, tin, dorig, dseg, analysed>>

(* `if (origin.empty() || segment.empty() [|| foreground.empty()])`:       *)
(* usleep and `continue`; otherwise analyse and SetAlarm, then usleep.     *)
Check(d) ==
  /\ dpc[d] = "check"
  /\ LET ready == /\ dorig[d] /= Empty /\ dseg[d] /= Empty
                  /\ d \in NeedsForeground => dfg[d] /= Empty
     IN analysed' = [analysed EXCEPT ![d] = @ \/ ready]
  /\ dpc' = [dpc EXCEPT ![d] = "origin"]
  /\ UNCHANGED <<origin, foreground, segment, cpc, tpc, tin, dorig, dseg, dfg>>

Capture == CaptureOrigin \/ CaptureForeground \/ CaptureDraw
Tensorflow == TensorflowSnap \/ InferOk \/ InferFail \/ SegmentCopied
Detector(d) == SnapOrigin(d) \/ SnapSegment(d) \/ SnapForeground(d) \/ Check(d)

Next == Capture \/ Tensorflow \/ \E d \in Detectors : Detector(d)

(***************************************************************************)
(* Every thread runs whenever it can.  A failed inference is retried on    *)
(* the next tick; the session is assumed not to fail on every one of them  *)
(* (strong fairness of InferOk), and frames keep arriving.  A detector     *)
(* blocked on segment_mutex gets it: TensorflowThread releases it and then *)
(* sleeps a whole detect interval (strong fairness of SnapSegment).        *)
(***************************************************************************)
Fairness ==
  /\ WF_vars(Capture)
  /\ WF_vars(TensorflowSnap) /\ SF_vars(InferOk) /\ WF_vars(SegmentCopied)
  /\ \A d \in Detectors : WF_vars(Detector(d)) /\ SF_vars(SnapSegment(d))

Spec == Init /\ [][Next]_vars /\ Fairness

-----------------------------------------------------------------------------
TypeOK ==
  /\ origin \in Frames /\ foreground \in Frames /\ segment \in Frames
  /\ cpc \in {"origin", "foreground", "draw"}
  /\ tpc \in {"snap", "infer", "copy"} /\ tin \in Frames
  /\ dpc \in [Detectors -> {"origin", "segment", "foreground", "check"}]
  /\ dorig \in [Detectors -> Frames] /\ dseg \in [Detectors -> Frames]
  /\ dfg \in [Detectors -> Frames]
  /\ analysed \in [Detectors -> BOOLEAN]

(* The capture thread never uses the pixels of segment_img (DrawInfo's     *)
(* header copy and its SEGMANTIC case) while TensorflowThread's            *)
(* SetSegmentImg is overwriting them under segment_mutex (spec 5: FrameHub *)
(* slots are guarded by per-kind mutexes, readers get independent copies). *)
NoUnlockedSegmentAccess ==
  ~ (cpc = "draw" /\ tpc = "copy")

(* Every detector eventually gets a frame it can analyse: the capture      *)
(* thread, TensorflowThread and the detector's own loop together fill      *)
(* every image it waits for.                                               *)
EveryDetectorAnalyses ==
  \A d \in Detectors : <>analysed[d]
=============================================================================
