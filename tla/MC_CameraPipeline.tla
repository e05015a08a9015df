------------------------- MODULE MC_CameraPipeline -------------------------
(* Model-checking instance of CameraPipeline: one camera with two          *)
(* configured detectors (either may fail its LoadConfig, so the camera     *)
(* runs with zero, one or two detectors) and its HttpClient.  RetryLimit   *)
(* is the literal 10 of Analysis::Run.                                     *)
EXTENDS CameraPipeline

CONSTANTS p1, d1, d2

MCInstances == <<p1>>
MCConfigured == <<d1, d2>>
MCRetryLimit == 10
=============================================================================
