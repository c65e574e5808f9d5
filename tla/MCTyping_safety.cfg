SPECIFICATION Spec
CONSTANTS
  Burst <- MCBurst
  Refill <- MCRefill
  MaxBubbles = 1
  MaxClock = 1
  MaxForward = 2
  MaxUp = 2
  MaxOps = 2
  MaxLink = 2
INVARIANTS
  BucketsHold
  IndicatorTrue
