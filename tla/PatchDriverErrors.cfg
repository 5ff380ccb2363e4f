\* All five drivers on a worklist with a missing file and an I/O failure.
CONSTANTS
  Work <- MCWork
  Changes <- MCChanges
  Drivers <- AllDrivers
INIT DInit
NEXT DNext
INVARIANT ErrorsAsSpecified
CHECK_DEADLOCK FALSE
