\* A timer of one and a half ticks.
SPECIFICATION Spec
CONSTANTS
  WORD = 16
  NS = 2
  MaxValue = 5
INVARIANT OneShot
