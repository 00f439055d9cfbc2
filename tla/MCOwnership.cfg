\* A caller that keeps and overwrites everything it gave and got.
CONSTANTS
  Arrays <- MCArrays
  Maps   <- MCMaps
  Items  <- MCItems
  rent = rent
  cash = cash
  p = p
  q = q
  Table  <- MCTable
  MaxArrays = 5
  MaxMaps   = 3
  MaxEntries = 1
  MaxValues = 2
SPECIFICATION Spec
SYMMETRY Renamed
CHECK_DEADLOCK FALSE
INVARIANTS
  ValuesAsChecked
PROPERTIES
  ValuesFrozen
  CallerMemoryUntouched
