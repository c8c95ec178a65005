SPECIFICATION Spec
CONSTANTS
  Var <- MCVar
  Lo = 0
  Hi = 2
  BitWidth = 3
  Exit = "exit"
  Prog <- MCProg
  Entry <- MCEntry
  Code <- MCProg
  Models = {"sc"}
  BlockOrder <- MCBlockOrder
  ThreadCreate <- MCThreadCreate
  Layout <- MCLayout
  Option <- MCOptionCache
  Initializer <- MCInitializer
INVARIANT
  CacheRight
CHECK_DEADLOCK FALSE
