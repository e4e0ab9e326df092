\* A rotation, a rollback across it, then an install: one operator, no death.
SPECIFICATION HostSpec
CONSTANTS
  Parts = {"rotation"}
  Procs = {p1}
  EnvReaders = {redis}
  FileReaders = {authelia}
  Server = redis
  Off = Off
  Requests = {"rotate", "install", "deploy", "rollback"}
  MaxRotations = 1
  MaxDeaths = 0
  api = api
  database = database
  web = web
  sso = sso
  Deployable <- MCDeployable
  Setting = {"PG", "REDIS", "KEY"}
  Required <- MCRequired
  Defaulted <- MCDefaulted
  Secret <- MCSecret
  DbFile <- MCDbFile
  ConsumerFile <- MCConsumerFile
  Reader = {"dbfile"}
  Nothing = Nothing
  Untold = Untold
  MaxUpsets = 1
  MaxReleases = 2
  Writer = {w1, w2}
  Ways = {"atomic"}
  NoInode = NoInode
  MaxWrites = 1
  MaxOutages = 1
INVARIANT
  InstallReconciles
