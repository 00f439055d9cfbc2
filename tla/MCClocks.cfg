\* Two goroutines, two ledgers, two options.
CONSTANTS
  g1 = g1
  g2 = g2
  Goroutines = {g1, g2}
  Injected = {"injected"}
  Offset <- MCOffset
  MaxNow = 2
  MaxLedgers = 2
  MaxOptions = 2
SYMMETRY MCSymmetry
SPECIFICATION Spec
INVARIANT PostedInOrder
PROPERTY PostedByChosenClock
