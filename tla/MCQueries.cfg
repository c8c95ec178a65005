SPECIFICATION Spec
CONSTANTS
  Code <- MCQueryCode
  Entry <- MCQueryEntry
  Models = {"sc"}
  LayoutOf <- MCLayout
  Pred <- MCPred
  StoresIn <- MCStoresIn
  PtrOf <- MCPtrOf
  IntBits = 16
  RowSizes <- MCRowSizes
  Value <- MCValue
  BVSize = 4
  ThreadFunc <- MCThreadFunc
  FactsOf <- MCFactsOf
  InterfsOf <- MCInterfsOf
  CreatorOf <- MCCreatorOf
  BlockOf <- MCBlockOf
  StoresAbove <- MCStoresAbove
INVARIANTS
  TypeOK
  InOrder
  AllTested
  ReachLeast
  ReachByPaths
  NeverOverruns
  IdsDistinct
  ReportedApart
  AskedApart
  AskedAsModelled
PROPERTY
  QueriesEnd
CHECK_DEADLOCK FALSE
