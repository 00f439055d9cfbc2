\* Runs of the generator and builds while the lists are replaced.
CONSTANTS
  Unreadable = Unreadable
  NotRatable = NotRatable
  ListOnes <- MCListOnes
  ListTwos <- MCListTwos
  Numerics <- MCNumerics
  Upper    <- MCUpper
SPECIFICATION Spec
INVARIANTS
  TableAsItsHeaderSays
  ConsistentNotRefused
  RegistryServesTable
PROPERTIES
  TableKeptUnlessConsistent
