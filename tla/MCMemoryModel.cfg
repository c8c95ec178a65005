SPECIFICATION Spec
CONSTANTS
  Code <- MCCode
  Entry <- MCEntry
  Models = {"sc", "tso", "pso"}
  Main = {"main1", "main2", "main3", "main4", "main5", "main6", "main7"}
INVARIANTS
  TypeOK
  PruningSound
  FilteredNeverRead
CHECK_DEADLOCK FALSE
