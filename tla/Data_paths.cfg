\* The machine may rest once the IOs of the instance have been submitted.
SPECIFICATION Spec
CONSTANTS
  NBlocks = 2
  NIOs = 2
  MaxCrashes = 1
  Paths <- AllPaths
INVARIANTS StorageSound    
CHECK_DEADLOCK FALSE
