CONSTANTS
  LoopGaps <- MCLoopGaps
  ClockSteps <- MCClockSteps
  MaxReal <- MCMaxReal
  MaxSkew <- MCMaxSkew
SPECIFICATION Spec
INVARIANTS ForwardsSpaced
