\* A recovery drill with data on a running stack.
SPECIFICATION OperationsSpec
CONSTANTS
  Parts = {"backup"}
  api = api
  worker = worker
  front = front
  sandbox = sandbox
  Descriptor = {api, worker, front, sandbox}
  ImageOf <- MCImageOf
  Members <- MCMembers
  ReferenceTag <- MCReferenceTag
  Published <- MCPublished
  HeldImage = {"sandbox"}
  NameRank <- MCNameRank
  FirstPin <- MCFirstPin
  NoDigest = NoDigest
  MaxSeconds = 2
  MaxBumps = 3
  MaxKills = 1
  env = env
  vol = vol
  roles = roles
  db = db
  mydb = mydb
  servers = servers
  File = {env}
  ConfigDir = {}
  Volume = {vol}
  Database = {roles, db, mydb}
  Globals = {roles}
  Plain = {db}
  Service = {servers}
  DataOf <- MCDataOf
  MemberOrder <- MCMemberOrder
  Nothing = Nothing
  Half = Half
  Empty = Empty
  Rotten = Rotten
  NoMarker = NoMarker
  MaxWork = 1
  MaxArchives = 1
  MaxRestores = 2
  MaxFaults = 0
  Version = {1, 2, 3}
  Migrator = {m1, m2}
  NoTarget = NoTarget
  MaxCommands = 3
  MaxBreaks = 1
  Fetcher = {f1, f2}
  Revision = {1, 2}
  Chunks = 2
  NoFile = NoFile
  Attempts = 2
  MaxRuns = 2
  MaxNetFaults = 1
  Remote = {r1, r2}
  NoRemote = NoRemote
  NoUnit = NoUnit
  MaxTimerCommands = 2
  MaxFirings = 2
  MaxUpsetsOfHost = 1
  Ram = {271, 272, 544, 960, 1440}
  CatalogFile = {"small", "large", "tuned", "embed", "rerank"}
  NoModel = NoModel
  Nameless = Nameless
  Catalogs <- MCCatalogs
  Hashed = {"small", "tuned", "embed", "rerank"}
  MaxModelCommands = 4
  MaxAccidents = 1
  web = web
  batch = batch
  webImage = webImage
  batchImage = batchImage
  webData = webData
  scratch = scratch
  DockerContainer = {web, batch}
  DockerImage = {webImage, batchImage}
  DockerVolume = {webData, scratch}
  DockerNetwork = {"default"}
  ImageOfContainer <- MCImageOfContainer
  VolumesOfContainer <- MCVolumesOfContainer
  NetworkOfContainer <- MCNetworkOfContainer
  Labeled = {scratch}
  WeightFile = {"named", "orphan"}
  WeightSource = {"descriptor", "catalog"}
  Named <- MCNamed
  MaxGcRuns = 2
  MaxChanges = 1
PROPERTY
  DrillLeavesLive
CHECK_DEADLOCK FALSE
