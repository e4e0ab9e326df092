\* Fair scheduling; two operators, two deaths; compose children outlive their parents.
SPECIFICATION FairSpec
CONSTANTS
  db = db
  web = web
  v1 = v1
  v2 = v2
  bad = bad
  Procs = {p1, p2}
  Svc = {db, web}
  Stateful = {db}
  Image = {v1, v2, bad}
  SickImage = {bad}
  Off = Off
  Config <- MCConfig
  Text = {t1}
  Absent = Absent
  NoSnap = NoSnap
  NoChild = NoChild
  NoReq = NoReq
  Requests <- LiveRequests
  Legacy = {{db}}
  Retention = 1
  MaxSnaps = 1
  MaxEdits = 0
  MaxDeaths = 2
  PruneTears = FALSE
  OrphansSurvive = TRUE
PROPERTY
  LockComesFree
