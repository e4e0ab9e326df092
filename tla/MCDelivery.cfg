\* Each of the parts on its own. The lock: four processes, three directories.
SPECIFICATION DeliverySpec
CONSTANTS
  Parts = {"lock", "evidence", "render", "pipeline", "verify", "compose"}
  api = api
  cli = cli
  tui = tui
  elevated = elevated
  other = other
  user = user
  Root = Root
  opt = opt
  srv = srv
  run = run
  gone = gone
  tmpUser = tmpUser
  tmpRoot = tmpRoot
  Procs = {cli, tui, elevated, other}
  Uids = {user, Root}
  Installs = {opt, srv}
  Dirs = {run, gone, tmpUser, tmpRoot}
  Unset = Unset
  NoFile = NoFile
  NoFd = NoFd
  Uid <- MCUid
  InstallOf <- MCInstallOf
  RuntimeDir <- MCRuntimeDir
  FallbackDir <- MCFallbackDir
  BrokenDirs = {gone}
  OperatorChecks = TRUE
  MaxInodes = 4
  Target = {"k3s", "rke"}
  TargetOrder <- MCTargetOrder
  Renderable <- MCRenderable
  LastCatalog = 2
  MaxProofs = 2
  Invocations <- MCInvocations
  MaxDamage = 1
  Absent = Absent
  Damaged = Damaged
  Catalogs <- MCCatalogs
  Targets <- MCTargets
  VarName = {"A", "PASS", "RERANK"}
  SecretName = {"PASS"}
  Rounds = 2
  database = database
  proxy = proxy
  Selections <- MCSelections
  ProfilesOf <- MCProfilesOf
  NoConfig = NoConfig
  Dir = Dir
  MaxInstalls = 3
  MaxStops = 1
  MaxHostEvents = 2
  Scenario = {"local", "rag"}
  Edge = {"rag"}
  Domain = {"lab", "home"}
  Requests <- MCRequests
  NotYet = NotYet
  MaxVerifications = 2
  MaxKills = 1
  LastRelease = 2
  edge = edge
  sso = sso
  app = app
  db = db
  Commits <- MCCommits
  Lanes = {{"core"}, {"rag"}, {"edge"}, {"security"}, {"full"}}
  StrictLanes = {{"core"}, {"core", "rag"}}
  Router = edge
  Gate = sso
  Optional = {"reranker"}
  Pulled = {"docker"}
  Known <- MCKnownLinks
  Registered = {"data", "mgmt"}
  CiGroups = {"ops"}
  HostGroups = {}
  Projects = {"agmind", "agmind-rag"}
  DefaultProject = "agmind"
  NoStack = NoStack
INVARIANTS
  SingleFlight
  PassedWasProven
  CompletedVerifies
  PlaceholdersAccounted
  DataReadable
  BootBringsBack
  NoFalseAlarm
  CheckedRenders
  RoutesReach
PROPERTIES
  ImplementsAbstractLock
CHECK_DEADLOCK FALSE
