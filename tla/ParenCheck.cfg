\* fix-plugin-security-refs.py 42-57 on gofmt lines with no parenthesis in a literal.
CONSTANTS
  Lines <- ParenLines
  Calls = {"audit"}
  MaxLen = 5
INIT QInit
NEXT QNext
INVARIANTS
  NoLeftovers
CHECK_DEADLOCK FALSE
