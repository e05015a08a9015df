------------------------- MODULE MC_AlarmAggregator --------------------------
EXTENDS AlarmAggregator, TLC

CONSTANTS dA, dL, dB, f1

\* Three detectors in this vector order: one that reports absence and sets
\* its alarm freely (Invade), a LitterThread and a FloaterThread.
MCDetectors == <<dA, dL, dB>>
MCKind == (dA :> "Invade") @@ (dL :> "Litter") @@ (dB :> "Floater")
\* A FloaterThread first, and a WaterColor.
MCDetectorsFloater == <<dA, dB>>
MCKindFloater == (dA :> "Floater") @@ (dB :> "WaterColor")
MCCapacity == 1
MCMaxActivations == 2
\* One loop iteration takes half of the rate-limit window, or all of it.
MCFrameGaps == {500, 1000}
MCRateLimitMs == 1000

\* LitterThread passes over an empty segment image or one with a person
\* and a floater 150 pixels apart (module Litter); its frame number starts
\* at the private constructor's 3 or at what the public one leaves.
Target(x, y, w, h) ==
  [box |-> [x |-> x, y |-> y, w |-> w, h |-> h], center |-> <<x + w \div 2, y + h \div 2>>]
MCLitterScenes ==
  { [people |-> <<>>, floaters |-> <<>>, cars |-> <<>>],
    [people |-> <<Target(101, 101, 11, 31)>>,
     floaters |-> <<Target(251, 101, 11, 11)>>, cars |-> <<>>] }
MCLitterFrameNumbers == {3, 1}
\* FloaterThread passes on one river, with or without a floater in it.
MCFloaterScenes == [waters : {<<300>>}, holds : {<<{}>>, <<{f1}>>}, mod : {1}]
MCFloaterFrameNumbers == {5, 1}
\* Beside the other two detectors: a floater always in the river, and the
\* frame number starting the cycle with a reference pass.
MCFloaterScenesSeen == [waters : {<<300>>}, holds : {<<{f1}>>}, mod : {1}]
MCFloaterFrameNumbersRef == {5}
\* Bound: a latched FloaterThread alarm is delivered on every frame, so the
\* sink's history is explored up to this many alarms.
MaxSent == 2
SentBound == Len(sent) <= MaxSent
=============================================================================
