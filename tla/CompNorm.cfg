\* fix-zap-comprehensive.py on calls with one or two pairs.
CONSTANTS
  Calls <- CompCalls
INIT CInit
NEXT CNext
INVARIANT CallAsSpecified
CHECK_DEADLOCK FALSE
