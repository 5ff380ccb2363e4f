\* fix-handlers-v2.py: rate-limit test before the skip branch, cache test after it.
CONSTANTS
  Lines <- GofmtLines
  Early = {"rate"}
  Late = {"cache"}
  MaxLen = 5
INIT CInit
NEXT CNext
INVARIANTS
  IInv
CHECK_DEADLOCK FALSE
