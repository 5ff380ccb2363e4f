\* fix-remaining-logger-errors.py on calls with one or two pairs.
CONSTANTS
  Calls <- InferCalls
INIT IInit
NEXT INext
INVARIANT ErrorOnlyForErrorKey
CHECK_DEADLOCK FALSE
