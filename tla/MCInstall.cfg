\* Three starts or toggles in the wizard; two retries of a three-step install.
SPECIFICATION InstallSpec
CONSTANTS
  Parts = {"wizard", "screen"}
  Service <- MCService
  Rank <- MCRank
  SortKey <- MCSortKey
  DependsOn <- MCDependsOn
  Provides <- MCProvides
  Consumes <- MCConsumes
  StackOf <- MCStackOf
  StackNeeds <- MCStackNeeds
  Optional = {}
  CrossProfile <- MCCrossProfile
  Role = {"llm", "embed"}
  ServiceOf <- MCServiceOf
  MainRole = "llm"
  Departments <- MCDepartments
  Exclusive = {"qdrant", "weaviate"}
  Defaults <- MCDefaults
  MaxActs = 3
  Worker = {w1, w2}
  Steps <- MCSteps
  Deploy = "deploy"
  MaxScreens = 2
  MaxRetries = 2
INVARIANTS
  AppliedServed
  PickStands
  WorkersApart
  SecretsGone
PROPERTIES
  ConfirmedIsInstalled
  RerunKeeps
  CancelEnds
CHECK_DEADLOCK FALSE
