SPECIFICATION FrontMatterSpec
CONSTANTS
  Tokens = {"newline", "space", "---", "...", "+++", "x"}
  MaxLen = 7
INVARIANTS
  KindIsRight
  SplitExact
CHECK_DEADLOCK FALSE
