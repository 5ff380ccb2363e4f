\* fix-handlers-v2.py / fix-all-handlers.py on a guard whose braces do not
\* balance on its line: a one-line guard, or a '{' inside a string literal.
CONSTANTS
  Lines <- UnbalancedLines
  Early = {"rate"}
  Late = {}
  MaxLen = 4
INIT CInit
NEXT CNext
INVARIANT NoOverErase
CHECK_DEADLOCK FALSE
