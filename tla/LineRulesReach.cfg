\* fix-plugin-security-refs.py: \s*X[^;]+\n deletions.
CONSTANTS
  RuleSets <- SecRefsOnly
  Vocab <- ReachVocab
  MaxLen = 4
SPECIFICATION LRSpec
INVARIANT KeptLinesIntact
CHECK_DEADLOCK FALSE
