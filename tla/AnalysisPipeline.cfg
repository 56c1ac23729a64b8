SPECIFICATION Spec
CONSTANTS
  Versions = {"first", "second"}
  Steps = {0, 1, 2, 12}
  DurationLimit = 15
  Pins <- MCPins
  RemovalLimit = 1
  Spelling <- MCSpelling
  Audits <- MCAudits
  Origins <- MCOrigins
  Deployed <- MCDeployed
  Served <- MCServed
  RefOrder <- MCRefOrder
  Operating = {3}
  DefaultTopK = 3
  Grid = 3
  Tolerance = 1
  Slip = 1
  Queries = {0, 3, 5, 8, 20}
  TopKs = {1, 3, 4}
INVARIANTS
  PublicationIsReliable
  ProfileAgreesWithContract
  AuditedSourceIsTaken
  RuntimeIsOneChain
  RankingsAgree
PROPERTIES
  GatesJudgeTheFit
  CheckAcceptsWhatIsBuilt
  TargetsDoNotDecide
CHECK_DEADLOCK FALSE
