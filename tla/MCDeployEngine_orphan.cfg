\* A compose child outlives the process that started it.
SPECIFICATION Spec
CONSTANTS
  db = db
  web = web
  v1 = v1
  v2 = v2
  bad = bad
  Procs = {p1, p2}
  Svc = {db, web}
  Stateful = {db}
  Image = {v1, v2, bad}
  SickImage = {bad}
  Off = Off
  Config <- MCConfig
  Text = {t1}
  Absent = Absent
  NoSnap = NoSnap
  NoChild = NoChild
  NoReq = NoReq
  Requests <- MCRequests
  Legacy = {{db}}
  Retention = 1
  MaxSnaps = 2
  MaxEdits = 0
  MaxDeaths = 1
  PruneTears = FALSE
  OrphansSurvive = TRUE
SYMMETRY Symmetry
INVARIANT
  OneComposeAtATime
