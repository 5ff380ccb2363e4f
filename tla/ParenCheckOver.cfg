\* The same loop, checked against where the call it strips really ends.
CONSTANTS
  Lines <- ParenLines
  Calls = {"audit"}
  MaxLen = 5
INIT QInit
NEXT QNext
INVARIANTS
  NoOverErase
CHECK_DEADLOCK FALSE
