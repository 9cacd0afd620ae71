SPECIFICATION LoopSpec
CONSTANTS
  Triggers <- Typing
  Separators = {"s"}
  Letters = {"a", "b", "s"}
  MaxHistory = 3
  MaxKeys = 7
  MaxRushed = 5
  Names = {"x", "y", "g", "h"}
  Templates = {1, 2, 3, 4, 5}
  Library <- Bodies
  Files <- MatchFiles
  Configs <- Setups
  MaxDepth = 6
  MaxDetailed = 4
INVARIANTS LoopSound UndoRestores VerdictExact
PROPERTIES Detects ChoiceKeysDropped
CHECK_DEADLOCK FALSE
