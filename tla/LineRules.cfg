\* fix-handlers-v2.py's \n\s+X deletions.
CONSTANTS
  RuleSets <- V2Only
  Vocab <- V2Vocab
  MaxLen = 6
SPECIFICATION LRSpec
INVARIANTS
  KeptLinesIntact
  TargetsRemoved
CHECK_DEADLOCK FALSE
