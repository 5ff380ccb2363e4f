\* Every script's driver, every combination of missing, unreadable and unwritable files.
CONSTANTS
  Work <- MCWork
  Changes <- MCChanges
  Drivers <- AllDrivers
INIT DInit
NEXT DNext
INVARIANTS
  DTypeOK
  CountIsFilesFixed
  DoneMeansAllFixed
CHECK_DEADLOCK FALSE
