\* The inductive invariant of the PatchDriver proofs (FInv, which holds DInv), on every script's driver.
CONSTANTS
  Work <- MCWork
  Changes <- MCChanges
  Drivers <- AllDrivers
INIT DInit
NEXT DNext
INVARIANT FInv
CHECK_DEADLOCK FALSE
