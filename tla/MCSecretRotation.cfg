\* Two operators, two rotations, one death; every kind of request.
SPECIFICATION HostSpec
CONSTANTS
  Parts = {"rotation", "validation", "files"}
  Procs = {p1, p2}
  EnvReaders = {redis}
  FileReaders = {authelia}
  Server = redis
  Off = Off
  Requests = {"rotate", "rotate-only", "install", "deploy", "rollback"}
  MaxRotations = 2
  MaxDeaths = 1
  api = api
  database = database
  web = web
  sso = sso
  Deployable <- MCDeployable
  Setting = {"PG", "REDIS", "KEY"}
  Required <- MCRequired
  Defaulted <- MCDefaulted
  Secret <- MCSecret
  DbFile <- MCDbFile
  ConsumerFile <- MCConsumerFile
  Nothing = Nothing
  Untold = Untold
  MaxUpsets = 1
  MaxReleases = 2
  Writer = {w1, w2}
  Ways = {"atomic", "plain", "unit", "sudo"}
  NoInode = NoInode
  MaxWrites = 2
  MaxOutages = 1
CONSTRAINT Unraced
SYMMETRY Symmetry
INVARIANTS
  RotationHeals
  SkewNeedsAccident
  ServerSecretOnRecord
  OkMeansStarts
  ReaderSeesWhole
  ReturnedLasts
