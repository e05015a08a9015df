----------------------------- MODULE Detectors -----------------------------
(***************************************************************************)
(* Two detector threads of one camera side by side, WaterColorThread and  *)
(* InvadeThread, each with its own alarm under its own alarm_mutex, and    *)
(* the capture thread's GetAlarm of each.  They share nothing, so their    *)
(* steps interleave freely.                                                *)
(***************************************************************************)
CONSTANTS Scenes, Boxes, Rois, People

VARIABLES wcAlarm, water, ivAlarm, found

vars == <<wcAlarm, water, ivAlarm, found>>

WC == INSTANCE WaterColor WITH alarm <- wcAlarm, water <- water
IV == INSTANCE Invade WITH alarm <- ivAlarm, found <- found

Init == WC!Init /\ IV!Init

Next ==
  \/ WC!Next /\ UNCHANGED <<ivAlarm, found>>
  \/ IV!Next /\ UNCHANGED <<wcAlarm, water>>

Spec == Init /\ [][Next]_vars

-----------------------------------------------------------------------------
(* rgbToHsv agrees with the hexcone HSV on the latest mean water colour.   *)
HsvAgreesWithReference == WC!HsvAgreesWithReference

(* The Invade alarm's boxes are exactly the intruders, up to touching.    *)
AlarmRectsAreIntruders == IV!AlarmRectsAreIntruders

(* An active WaterColor alarm names a colour.                              *)
AlarmHasColour == WC!AlarmHasColour
=============================================================================
