SPECIFICATION ThreadSpec
CONSTANTS
  BasicBlock <- MCBlock
  Succ <- MCSucc
  EntryPoint <- MCEntryPoint
  Layout <- MCLayout
  Store <- MCStore
  Create <- MCCreate
  Error <- MCError
  SitesOf <- MCSitesOf
  Element <- MCFact
  Bot <- MCBot
  Absent = Absent
  Below <- MCLeq
  Join <- MCJoin
  OutFact <- MCOutFact
  SiteFact <- MCSiteFact
  Environment <- MCState
  Concrete <- MCGamma
  Runs <- MCRuns
  Exit = "exit"
INVARIANTS
  ThreadTypeOK
  NothingLost
  SitesCoverSeen
  ThreadCovered
  ReportSound
PROPERTY
  LoopFreeTerminates
CHECK_DEADLOCK FALSE
