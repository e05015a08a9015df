----------------------------- MODULE MC_FrameHub -----------------------------
EXTENDS FrameHub, TLC

CONSTANTS dI, dF

\* An InvadeThread (origin and segment) and a FishingThread (also the
\* foreground image).
MCDetectors == {dI, dF}
MCKind == (dI :> "Invade") @@ (dF :> "Fishing")
MCMaxFrames == 2
=============================================================================
