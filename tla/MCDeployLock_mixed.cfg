\* One user, two environments: a login session and a scheduler.
SPECIFICATION LockSpec
CONSTANTS
  cli = cli
  tui = tui
  elevated = elevated
  other = other
  user = user
  Root = Root
  opt = opt
  srv = srv
  run = run
  gone = gone
  tmpUser = tmpUser
  tmpRoot = tmpRoot
  Procs = {cli, tui, elevated, other}
  Uids = {user, Root}
  Installs = {opt, srv}
  Dirs = {run, gone, tmpUser, tmpRoot}
  Unset = Unset
  NoFile = NoFile
  NoFd = NoFd
  Uid <- MCUid
  InstallOf <- MCInstallOf
  RuntimeDir <- MCMixedRuntimeDir
  FallbackDir <- MCFallbackDir
  BrokenDirs = {gone}
  OperatorChecks = TRUE
  MaxInodes = 4
INVARIANT
  SameUserSingleFlight
