SPECIFICATION Spec
CONSTANTS
  Code <- MCCode
  Entry <- MCEntry
  Models = {"sc"}
  Main = {"main7"}
INVARIANT
  OwnReadsPrunedRight
CHECK_DEADLOCK FALSE
