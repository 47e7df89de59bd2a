SPECIFICATION Spec
CONSTANTS
  Names = {"br", "gzip", "identity"}
  Other = "other"
  Qs <- MCQs
  MaxItems = 3
INVARIANTS
  DefaultOrAsked
  StrongPreferenceWins
  SmallestOfEquals
  BoundedDrift
