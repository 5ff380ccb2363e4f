\* fix-all-handlers.py remove_rate_limit_blocks on any gofmt-shaped file.
CONSTANTS
  Lines <- GofmtLines
  Early = {"rate"}
  Late = {}
  MaxLen = 5
INIT Init
NEXT Next
PROPERTY IntentSpec
CHECK_DEADLOCK FALSE
