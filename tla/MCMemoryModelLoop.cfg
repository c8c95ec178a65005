SPECIFICATION Spec
CONSTANTS
  Code <- MCCode
  Entry <- MCEntry
  Models = {"sc"}
  Main = {"main6"}
INVARIANT
  LoopsPrunedRight
CHECK_DEADLOCK FALSE
