SPECIFICATION Spec
CONSTANTS
  Var <- MCVar
  Lo <- MCLo
  Hi = 4
  BitWidth = 2
  Exit = "exit"
  Prog <- MCProg
  Start <- MCStart
  InterfMap <- MCInterfMap
INVARIANTS
  TypeOK
  FactDescribesRun
  Monotone
CHECK_DEADLOCK FALSE
