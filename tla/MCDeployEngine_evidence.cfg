\* An apply that dies after it has written the compose file, then a retry.
SPECIFICATION Spec
CONSTANTS
  db = db
  web = web
  v1 = v1
  v2 = v2
  bad = bad
  Procs = {p1, p2}
  Svc = {db, web}
  Stateful = {db}
  Image = {v1, v2, bad}
  SickImage = {bad}
  Off = Off
  Config <- MCConfig
  Text = {t1}
  Absent = Absent
  NoSnap = NoSnap
  NoChild = NoChild
  NoReq = NoReq
  Requests <- FewRequests
  Legacy = {{db}}
  Retention = 1
  MaxSnaps = 2
  MaxEdits = 0
  MaxDeaths = 1
  PruneTears = FALSE
  OrphansSurvive = FALSE
SYMMETRY Symmetry
INVARIANT
  StatefulBackupEvidence
