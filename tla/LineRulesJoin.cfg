\* fix-all-handlers.py and fix-plugin-errors.py: \s*X\n deletions.
CONSTANTS
  RuleSets <- JoinScripts
  Vocab <- JoinVocab
  MaxLen = 4
SPECIFICATION LRSpec
INVARIANT KeptLinesIntact
CHECK_DEADLOCK FALSE
