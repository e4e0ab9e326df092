\* Two concurrent operators, two snapshots, retention of one, one death, one write
\* by the installer; a dying process takes its compose child with it.
SPECIFICATION Spec
CONSTANTS
  db = db
  web = web
  v1 = v1
  v2 = v2
  bad = bad
  Procs = {p1, p2}
  Svc = {db, web}
  Stateful = {db}
  Image = {v1, v2, bad}
  SickImage = {bad}
  Off = Off
  Config <- MCConfig
  Text = {t1}
  Absent = Absent
  NoSnap = NoSnap
  NoChild = NoChild
  NoReq = NoReq
  Requests <- MCRequests
  Legacy = {}
  Retention = 1
  MaxSnaps = 2
  MaxEdits = 1
  MaxDeaths = 1
  PruneTears = FALSE
  OrphansSurvive = FALSE
SYMMETRY Symmetry
INVARIANTS
  OneComposeAtATime
  RollbackPoint
  PassportVerified
  RecordedServicesKept
PROPERTIES
  ImplementsContract
