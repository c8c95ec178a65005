SPECIFICATION Spec
CONSTANTS
  Var <- MCVar
  Lo = 0
  Hi = 2
  BitWidth = 3
  Exit = "exit"
  Prog <- MCProg
  Entry <- MCEntry
  Code <- MCProg
  Models = {"sc"}
  BlockOrder <- MCBlockOrder
  ThreadCreate <- MCThreadCreate
  Layout <- MCLayout
  Option <- MCOption
  Initializer <- MCInitializer
INVARIANTS
  TypeOK
  AbortsExpected
  NoneMissed
  Fixpoint
  RunReported
PROPERTIES
  StoresGrow
  AnalysisEnds
CHECK_DEADLOCK FALSE
