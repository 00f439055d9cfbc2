\* Errors of the library, and of sentinels, with whatever a provider returns.
CONSTANTS
  MaxErrors = 8
  MaxForeign = 2
  Classes <- MCClasses
SPECIFICATION Spec
\* The heap is full at MaxErrors.
CHECK_DEADLOCK FALSE
INVARIANTS
  UnwrapLosesNothing
  RewrapKeepsMatches
