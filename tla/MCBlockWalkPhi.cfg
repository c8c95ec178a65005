SPECIFICATION Spec
CONSTANTS
  Var <- MCPhiVar
  Lo <- MCLo
  Hi = 4
  BitWidth = 2
  Exit = "exit"
  Prog <- MCPhiProg
  Start <- MCPhiStart
  InterfMap <- MCNoInterf
INVARIANTS
  PhiJoinsItsValues
CHECK_DEADLOCK FALSE
