------------------------- MODULE DeployEngine_proofs -------------------------
(***************************************************************************)
(* Proofs about DeployEngine, for any processes, services, images, compose *)
(* files, requests, retention and bounds.  Every invariant rests on        *)
(* ShapeOK, which says what a process's place in the code tells about the  *)
(* lock and about its own variables; the others are inductive with it:     *)
(*   PassportInv   for PassportVerified                                    *)
(*   RollbackInv   for RollbackPoint                                       *)
(*   KeptInv       for RecordedServicesKept (with RollbackInv)             *)
(***************************************************************************)
EXTENDS DeployEngine, FiniteSetTheorems, TLAPS

(* The one process in the lock is the one past "locking"; it has a request, *)
(* knows what it found, holds a snapshot while it copies or restores one,   *)
(* has a compose child only during an up, and there is a compose file from  *)
(* the moment it wrote one.                                                 *)
Shape ==
  /\ inside = {} \/ \E p \in Procs : inside = {p}
  /\ \A p \in Procs :
       /\ p \in inside <=> pc[p] \notin {"idle", "locking"}
       /\ pc[p] # "idle" => req[p] \in Requests
       /\ p \in inside => before[p] \in Found
       /\ pc[p] \in {"copying", "pruning", "restoring"} => held[p] \in Snapshot
       /\ pc[p] \in {"pulling", "starting", "upping", "waiting", "recording", "reverting"} =>
            files["compose"] # Absent
       /\ child[p] # NoChild => pc[p] \in {"upping", "reverting"}

ShapeOK == TypeOK /\ Shape

(* Every slot holds what its kind of file may hold.                         *)
LEMMA FilesRead ==
  ASSUME NEW f \in Files
  PROVE  /\ f["compose"] \in Config \cup {Absent}
         /\ f["passport"] \in Config \cup {Absent}
         /\ \A sl \in Slot : f[sl] \in Content(sl)
BY DEF Files, Slot, Content

(* Writing a file what it may hold gives files again.                       *)
LEMMA FilesWritten ==
  ASSUME NEW f \in Files, NEW sl \in Slot, NEW x \in Content(sl)
  PROVE  [f EXCEPT ![sl] = x] \in Files
BY DEF Files, Content

(* A swap of the descriptors that is cut off leaves the other files alone.   *)
LEMMA SwapKeeps ==
  ASSUME files \in Files, NEW p \in Procs, NEW f \in SwapCutOff(p)
  PROVE  /\ f \in Files
         /\ f["compose"] = files["compose"]
         /\ f["passport"] = files["passport"]
<1>1. [files EXCEPT !["descr"] = Absent] \in Files
  BY FilesWritten DEF Slot, Content
<1>2. /\ [files EXCEPT !["descr"] = Absent]["compose"] = files["compose"]
      /\ [files EXCEPT !["descr"] = Absent]["passport"] = files["passport"]
  BY DEF Files, Slot
<1> QED
  BY <1>1, <1>2 DEF SwapCutOff

(* What each kind of file may hold.                                         *)
LEMMA ContentOf ==
  /\ Content("compose") = Config \cup {Absent}
  /\ Content("passport") = Config \cup {Absent}
  /\ \A sl \in {"env", "version", "descr"} : Content(sl) = Text \cup {Absent}
BY DEF Content

(* An empty snapshot directory is a set of files.                           *)
LEMMA NoFilesType == NoFiles \in Files
BY DEF NoFiles, Files, Content

(* The parts of a snapshot.                                                 *)
LEMMA SnapshotRead ==
  ASSUME NEW sn \in Snapshot
  PROVE  sn.id \in Nat /\ sn.files \in Files
BY DEF Snapshot

(* Copying a file into a snapshot gives a snapshot.                         *)
LEMMA SnapshotWritten ==
  ASSUME NEW sn \in Snapshot, NEW sl \in Slot, NEW x \in Content(sl)
  PROVE  [sn EXCEPT !.files[sl] = x] \in Snapshot
<1>1. [sn.files EXCEPT ![sl] = x] \in Files
  BY FilesWritten, SnapshotRead
<1> QED
  BY <1>1 DEF Snapshot

(* What a failed removal leaves is a snapshot.                              *)
LEMMA RemainsType ==
  ASSUME NEW sn \in Snapshot, NEW r \in Remains(sn)
  PROVE  r \in Snapshot
<1>1. CASE PruneTears
  <2>1. PICK gone \in SUBSET Slot :
          r = [sn EXCEPT !.files =
                [sl \in Slot |-> IF sl \in gone THEN Absent ELSE sn.files[sl]]]
    BY <1>1 DEF Remains
  <2>2. [sl \in Slot |-> IF sl \in gone THEN Absent ELSE sn.files[sl]] \in Files
    BY SnapshotRead, FilesRead DEF Files, Content
  <2> QED
    BY <2>1, <2>2 DEF Snapshot
<1>2. CASE ~PruneTears
  BY <1>2 DEF Remains
<1> QED
  BY <1>1, <1>2

(* The parts of a request.                                                  *)
LEMMA RequestRead ==
  ASSUME NEW r \in Requests
  PROVE  r.target \in Config /\ r.kind \in {"apply", "upgrade", "rollback"}
BY EngineRequests DEF Request

(* What an operation notes when it gets the lock.                           *)
LEMMA FoundNow ==
  ASSUME files \in Files, running \in Stack, NEW e \in BOOLEAN
  PROVE  [compose |-> files["compose"], passport |-> files["passport"],
          running |-> running, evidence |-> e] \in Found
BY FilesRead DEF Found

(* A compose child leaves every service an image or nothing.               *)
LEMMA StackWritten ==
  ASSUME running \in Stack, NEW c \in Config, Converge(c)
  PROVE  running' \in Stack
BY EngineConstants DEF Stack, Converge

(* Five files are copied, each in its slot.                                *)
LEMMA SaveOrderType == Len(SaveOrder) = 5 /\ \A i \in 1 .. 5 : SaveOrder[i] \in Slot
BY DEF SaveOrder, Slot

(* Five files are restored, each to its slot.                              *)
LEMMA RestoreOrderType == Len(RestoreOrder) = 5 /\ \A i \in 1 .. 5 : RestoreOrder[i] \in Slot
BY DEF RestoreOrder, Slot

(* Getting the lock keeps the types and the shape.                         *)
LEMMA AdmitType ==
  ASSUME ShapeOK, NEW p \in Procs, NEW r \in Requests, Admit(p, r)
  PROVE  TypeOK' /\ Shape'
<1> USE DEF ShapeOK, Shape, TypeOK, Admit, Goto, Lock!Enter, Locations,
            storeVars, composeVars, budgets
<1>1. before'[p] \in Found /\ \A q \in Procs \ {p} : before'[q] = before[q]
  BY FoundNow
<1>2. before' \in [Procs -> Found \cup {NoReq}]
  BY <1>1
<1>3. inside = {} /\ inside' = {p} /\ pc' \in [Procs -> Locations]
  OBVIOUS
<1>4. TypeOK'
  BY <1>2, <1>3
<1>5. Shape'
  BY <1>1, <1>3
<1> QED
  BY <1>4, <1>5

(* Every step keeps the types.                                             *)
LEMMA TypeStep == ShapeOK /\ [Next]_vars => TypeOK'
<1> SUFFICES ASSUME ShapeOK, [Next]_vars PROVE TypeOK'
  OBVIOUS
<1> USE EngineConstants, EngineRequests DEF ShapeOK, Shape, TypeOK, Locations, Verdicts,
         storeVars, composeVars, budgets, opVars
<1>1. ASSUME NEW p \in Procs, Begin(p) PROVE TypeOK'
  BY <1>1, AdmitType DEF Begin
<1>2. ASSUME NEW p \in Procs, ReadBaseline(p) PROVE TypeOK'
  BY <1>2 DEF ReadBaseline, Step, Goto
<1>3. ASSUME NEW p \in Procs, BeginUpgrade(p) PROVE TypeOK'
  BY <1>3, AdmitType DEF BeginUpgrade
<1>4. ASSUME NEW p \in Procs, TurnedAway(p) PROVE TypeOK'
  BY <1>4 DEF TurnedAway, Step, Goto
<1>5. ASSUME NEW p \in Procs, Return(p) PROVE TypeOK'
  BY <1>5 DEF Return, Goto, Lock!Enter, Lock!Leave
<1>6. ASSUME NEW p \in Procs, Proceed(p) PROVE TypeOK'
  <2>1. PICK e \in BOOLEAN : before' = [before EXCEPT ![p].evidence = e]
    BY <1>6 DEF Proceed, FreshMarker
  <2>2. before[p] \in Found
    BY <1>6 DEF Proceed, Step
  <2>3. [before[p] EXCEPT !.evidence = e] \in Found
    BY <2>2 DEF Found
  <2>4. before' \in [Procs -> Found \cup {NoReq}] /\ before'[p] \in Found
    BY <2>1, <2>3
  <2> QED
    BY <1>6, <2>1, <2>4 DEF Proceed, Step, Goto
<1>7. ASSUME NEW p \in Procs, Refuse(p) PROVE TypeOK'
  BY <1>7 DEF Refuse, Exit, Goto
<1>8. ASSUME NEW p \in Procs, SnapOpen(p) PROVE TypeOK'
  <2>1. [id |-> nextId, files |-> NoFiles] \in Snapshot
    BY NoFilesType DEF Snapshot
  <2> QED
    BY <1>8, <2>1 DEF SnapOpen, Step, Goto
<1>9. ASSUME NEW p \in Procs, SnapCopy(p) PROVE TypeOK'
  <2>1. SaveOrder[at[p]] \in Slot
    BY <1>9, SaveOrderType DEF SnapCopy
  <2>2. held[p] \in Snapshot
    BY <1>9 DEF SnapCopy, Step
  <2>3. [held[p] EXCEPT !.files[SaveOrder[at[p]]] = files[SaveOrder[at[p]]]] \in Snapshot
    BY <2>1, <2>2, SnapshotWritten, FilesRead
  <2> QED
    BY <1>9, <2>3, SaveOrderType DEF SnapCopy, Step, Goto
<1>10. ASSUME NEW p \in Procs, SnapSeal(p) PROVE TypeOK'
  BY <1>10 DEF SnapSeal, Step, Goto
<1>11. ASSUME NEW p \in Procs, Prune(p) PROVE TypeOK'
  <2>1. store' \subseteq Snapshot
    BY <1>11, RemainsType DEF Prune, Newest
  <2> QED
    BY <1>11, <2>1 DEF Prune, Step, Goto
<1>12. ASSUME NEW p \in Procs, SnapFail(p) PROVE TypeOK'
  BY <1>12 DEF SnapFail, Exit, Goto
<1>13. ASSUME NEW p \in Procs, WriteCompose(p) PROVE TypeOK'
  <2>1. files' \in Files
    BY <1>13, FilesWritten, ContentOf, RequestRead DEF WriteCompose, Step, Slot
  <2> QED
    BY <1>13, <2>1 DEF WriteCompose, Step, Goto
<1>14. ASSUME NEW p \in Procs, PullImages(p) PROVE TypeOK'
  BY <1>14 DEF PullImages, Step, Goto
<1>15. ASSUME NEW p \in Procs, UpStart(p) PROVE TypeOK'
  BY <1>15, FilesRead DEF UpStart, Step, Goto
<1>16. ASSUME NEW p \in Procs, UpDone(p) PROVE TypeOK'
  BY <1>16 DEF UpDone, Step, Goto
<1>17. ASSUME NEW p \in Procs, HealthPass(p) PROVE TypeOK'
  BY <1>17, RequestRead DEF HealthPass, Step, Goto
<1>18. ASSUME NEW p \in Procs, StepFail(p) PROVE TypeOK'
  BY <1>18 DEF StepFail, Fail, Exit, Goto
<1>19. ASSUME NEW p \in Procs, Record(p) PROVE TypeOK'
  <2>1. req[p].target \in Content("passport")
    BY <1>19, ContentOf, RequestRead DEF Record
  <2>2. [files EXCEPT !["passport"] = req[p].target] \in Files
    BY <2>1, FilesWritten DEF Slot
  <2>3. files' \in Files
    BY <1>19, <2>2 DEF Record
  <2> QED
    BY <1>19, <2>3 DEF Record, Exit, Goto
<1>20. ASSUME NEW p \in Procs, Choose(p) PROVE TypeOK'
  BY <1>20 DEF Choose, Step, Goto
<1>21. ASSUME NEW p \in Procs, ChooseNone(p) PROVE TypeOK'
  BY <1>21 DEF ChooseNone, Exit, Goto
<1>22. ASSUME NEW p \in Procs, RestoreSlot(p) PROVE TypeOK'
  <2>1. RestoreOrder[at[p]] \in Slot
    BY <1>22, RestoreOrderType DEF RestoreSlot
  <2>2. held[p].files \in Files
    BY <1>22, SnapshotRead DEF RestoreSlot, Step
  <2>3. files' \in Files
    BY <1>22, <2>1, <2>2, FilesRead, FilesWritten DEF RestoreSlot
  <2> QED
    BY <1>22, <2>3, RestoreOrderType, SaveOrderType DEF RestoreSlot, Step, Goto
<1>23. ASSUME NEW p \in Procs, RevertStart(p) PROVE TypeOK'
  BY <1>23, FilesRead DEF RevertStart, Step, Goto
<1>24. ASSUME NEW p \in Procs, RevertDone(p) PROVE TypeOK'
  BY <1>24 DEF RevertDone, Exit, Goto
<1>25. ASSUME NEW p \in Procs, RevertFail(p) PROVE TypeOK'
  BY <1>25, SwapKeeps DEF RevertFail, Exit, Goto
<1>26. ASSUME NEW p \in Procs, ChildMove(p) PROVE TypeOK'
  <2>1. running' \in Stack
    BY <1>26, StackWritten DEF ChildMove
  <2> QED
    BY <1>26, <2>1 DEF ChildMove
<1>27. ASSUME NEW p \in Procs, Die(p) PROVE TypeOK'
  BY <1>27, SwapKeeps DEF Die, Goto, Lock!Enter, Lock!Leave
<1>28. ASSUME NEW c \in orphans, OrphanMove(c) PROVE TypeOK'
  <2>1. running' \in Stack
    BY <1>28, StackWritten DEF OrphanMove
  <2> QED
    BY <1>28, <2>1 DEF OrphanMove
<1>29. ASSUME NEW c \in orphans, OrphanExit(c) PROVE TypeOK'
  BY <1>29 DEF OrphanExit
<1>30. CASE InstallerWrites
  <2>1. PICK sl \in {"env", "version", "descr"}, t \in Text :
          files' = [files EXCEPT ![sl] = t]
    BY <1>30 DEF InstallerWrites
  <2>2. sl \in Slot /\ t \in Content(sl)
    BY ContentOf DEF Slot
  <2>3. files' \in Files
    BY <2>1, <2>2, FilesWritten
  <2> QED
    BY <1>30, <2>3 DEF InstallerWrites
<1>31. CASE UNCHANGED vars
  BY <1>31 DEF vars
<1> QED
  BY <1>1, <1>2, <1>3, <1>4, <1>5, <1>6, <1>7, <1>8, <1>9, <1>10, <1>11,
     <1>12, <1>13, <1>14, <1>15, <1>16, <1>17, <1>18, <1>19, <1>20, <1>21,
     <1>22, <1>23, <1>24, <1>25, <1>26, <1>27, <1>28, <1>29, <1>30, <1>31
  DEF Next, Working

(* Every step keeps the shape.                                             *)
LEMMA ShapeStep == ShapeOK /\ [Next]_vars => Shape'
<1> SUFFICES ASSUME ShapeOK, [Next]_vars PROVE Shape'
  OBVIOUS
<1> USE EngineConstants, EngineRequests DEF ShapeOK, Shape, TypeOK, Locations, Verdicts,
         storeVars, composeVars, budgets, opVars
<1>1. ASSUME NEW p \in Procs, Begin(p) PROVE Shape'
  BY <1>1, AdmitType DEF Begin
<1>2. ASSUME NEW p \in Procs, ReadBaseline(p) PROVE Shape'
  BY <1>2 DEF ReadBaseline, Step, Goto
<1>3. ASSUME NEW p \in Procs, BeginUpgrade(p) PROVE Shape'
  BY <1>3, AdmitType DEF BeginUpgrade
<1>4. ASSUME NEW p \in Procs, TurnedAway(p) PROVE Shape'
  BY <1>4 DEF TurnedAway, Step, Goto
<1>5. ASSUME NEW p \in Procs, Return(p) PROVE Shape'
  BY <1>5 DEF Return, Goto, Lock!Enter, Lock!Leave
<1>6. ASSUME NEW p \in Procs, Proceed(p) PROVE Shape'
  <2>1. PICK e \in BOOLEAN : before' = [before EXCEPT ![p].evidence = e]
    BY <1>6 DEF Proceed, FreshMarker
  <2>2. before[p] \in Found
    BY <1>6 DEF Proceed, Step
  <2>3. [before[p] EXCEPT !.evidence = e] \in Found
    BY <2>2 DEF Found
  <2>4. before' \in [Procs -> Found \cup {NoReq}] /\ before'[p] \in Found
    BY <2>1, <2>3
  <2> QED
    BY <1>6, <2>1, <2>4 DEF Proceed, Step, Goto
<1>7. ASSUME NEW p \in Procs, Refuse(p) PROVE Shape'
  BY <1>7 DEF Refuse, Exit, Goto
<1>8. ASSUME NEW p \in Procs, SnapOpen(p) PROVE Shape'
  <2>1. [id |-> nextId, files |-> NoFiles] \in Snapshot
    BY NoFilesType DEF Snapshot
  <2> QED
    BY <1>8, <2>1 DEF SnapOpen, Step, Goto
<1>9. ASSUME NEW p \in Procs, SnapCopy(p) PROVE Shape'
  <2>1. SaveOrder[at[p]] \in Slot
    BY <1>9, SaveOrderType DEF SnapCopy
  <2>2. held[p] \in Snapshot
    BY <1>9 DEF SnapCopy, Step
  <2>3. [held[p] EXCEPT !.files[SaveOrder[at[p]]] = files[SaveOrder[at[p]]]] \in Snapshot
    BY <2>1, <2>2, SnapshotWritten, FilesRead
  <2> QED
    BY <1>9, <2>3, SaveOrderType DEF SnapCopy, Step, Goto
<1>10. ASSUME NEW p \in Procs, SnapSeal(p) PROVE Shape'
  BY <1>10 DEF SnapSeal, Step, Goto
<1>11. ASSUME NEW p \in Procs, Prune(p) PROVE Shape'
  BY <1>11 DEF Prune, Step, Goto
<1>12. ASSUME NEW p \in Procs, SnapFail(p) PROVE Shape'
  BY <1>12 DEF SnapFail, Exit, Goto
<1>13. ASSUME NEW p \in Procs, WriteCompose(p) PROVE Shape'
  <2>1. files'["compose"] \in Config
    BY <1>13, RequestRead DEF WriteCompose, Step, Files, Slot
  <2> QED
    BY <1>13, <2>1 DEF WriteCompose, Step, Goto
<1>14. ASSUME NEW p \in Procs, PullImages(p) PROVE Shape'
  BY <1>14 DEF PullImages, Step, Goto
<1>15. ASSUME NEW p \in Procs, UpStart(p) PROVE Shape'
  BY <1>15 DEF UpStart, Step, Goto
<1>16. ASSUME NEW p \in Procs, UpDone(p) PROVE Shape'
  BY <1>16 DEF UpDone, Step, Goto
<1>17. ASSUME NEW p \in Procs, HealthPass(p) PROVE Shape'
  BY <1>17 DEF HealthPass, Step, Goto
<1>18. ASSUME NEW p \in Procs, StepFail(p) PROVE Shape'
  BY <1>18 DEF StepFail, Fail, Exit, Goto
<1>19. ASSUME NEW p \in Procs, Record(p) PROVE Shape'
  BY <1>19 DEF Record, Exit, Goto
<1>20. ASSUME NEW p \in Procs, Choose(p) PROVE Shape'
  BY <1>20 DEF Choose, Step, Goto
<1>21. ASSUME NEW p \in Procs, ChooseNone(p) PROVE Shape'
  BY <1>21 DEF ChooseNone, Exit, Goto
<1>22. ASSUME NEW p \in Procs, RestoreSlot(p) PROVE Shape'
  <2>1. files["compose"] # Absent => files'["compose"] # Absent
    BY <1>22 DEF RestoreSlot, DropWhenMissing, Files, Slot
  <2> QED
    BY <1>22, <2>1 DEF RestoreSlot, Step, Goto
<1>23. ASSUME NEW p \in Procs, RevertStart(p) PROVE Shape'
  BY <1>23 DEF RevertStart, Step, Goto
<1>24. ASSUME NEW p \in Procs, RevertDone(p) PROVE Shape'
  BY <1>24 DEF RevertDone, Exit, Goto
<1>25. ASSUME NEW p \in Procs, RevertFail(p) PROVE Shape'
  BY <1>25, SwapKeeps DEF RevertFail, Exit, Goto
<1>26. ASSUME NEW p \in Procs, ChildMove(p) PROVE Shape'
  BY <1>26 DEF ChildMove
<1>27. ASSUME NEW p \in Procs, Die(p) PROVE Shape'
  BY <1>27, SwapKeeps DEF Die, Goto, Lock!Enter, Lock!Leave
<1>28. ASSUME NEW c \in orphans, OrphanMove(c) PROVE Shape'
  BY <1>28 DEF OrphanMove
<1>29. ASSUME NEW c \in orphans, OrphanExit(c) PROVE Shape'
  BY <1>29 DEF OrphanExit
<1>30. CASE InstallerWrites
  BY <1>30 DEF InstallerWrites
<1>31. CASE UNCHANGED vars
  BY <1>31 DEF vars
<1> QED
  BY <1>1, <1>2, <1>3, <1>4, <1>5, <1>6, <1>7, <1>8, <1>9, <1>10, <1>11,
     <1>12, <1>13, <1>14, <1>15, <1>16, <1>17, <1>18, <1>19, <1>20, <1>21,
     <1>22, <1>23, <1>24, <1>25, <1>26, <1>27, <1>28, <1>29, <1>30, <1>31
  DEF Next, Working

(* The initial state has the types and the shape.                          *)
LEMMA InitShape == Init => ShapeOK
<1> SUFFICES ASSUME Init PROVE ShapeOK
  OBVIOUS
<1> USE EngineConstants
<1>1. PICK c \in {k \in Config : Healthy(k)} \cup {Absent}, t \in Text \cup {Absent} :
        /\ files = [sl \in Slot |-> IF sl \in {"compose", "passport"} THEN c ELSE t]
        /\ running = [s \in Svc |-> IF c = Absent THEN Off ELSE c[s]]
        /\ verified = {c} \ {Absent}
  BY DEF Init
<1>2. files \in Files
  BY <1>1 DEF Files, Content
<1>3. running \in Stack
  BY <1>1 DEF Stack
<1>4. verified \subseteq Config
  BY <1>1
<1> QED
  BY <1>2, <1>3, <1>4, SaveOrderType
  DEF Init, ShapeOK, TypeOK, Shape, Lock!Init, Locations, Verdicts

(* The inductive invariant the others rest on.                             *)
THEOREM ShapeInvariant == Spec => []ShapeOK
<1>1. ShapeOK /\ [Next]_vars => ShapeOK'
  BY TypeStep, ShapeStep DEF ShapeOK
<1> QED
  BY <1>1, InitShape, PTL DEF Spec

(* Type correctness of the deploy engine.                                  *)
THEOREM EngineTypeCorrect == Spec => []TypeOK
BY ShapeInvariant, PTL DEF ShapeOK

-------------------------------------------------------------------------------
(* No compose child has lost its parent.                                   *)
NoOrphans == orphans = {}

(* Where a compose child dies with its parent there are none.              *)
LEMMA NoOrphansStep ==
  ASSUME ~OrphansSurvive
  PROVE  NoOrphans /\ [Next]_vars => NoOrphans'
<1> SUFFICES ASSUME NoOrphans, [Next]_vars PROVE NoOrphans'
  OBVIOUS
<1> USE DEF NoOrphans, composeVars
<1>1. ASSUME NEW p \in Procs,
             Begin(p) \/ ReadBaseline(p) \/ BeginUpgrade(p) \/ TurnedAway(p) \/ Return(p)
      PROVE  NoOrphans'
  BY <1>1 DEF Begin, BeginUpgrade, Admit, ReadBaseline, TurnedAway, Return
<1>2. ASSUME NEW p \in Procs,
             Proceed(p) \/ Refuse(p) \/ SnapOpen(p) \/ SnapCopy(p) \/ SnapSeal(p)
             \/ Prune(p) \/ SnapFail(p)
      PROVE  NoOrphans'
  BY <1>2 DEF Proceed, Refuse, SnapOpen, SnapCopy, SnapSeal, Prune, SnapFail
<1>3. ASSUME NEW p \in Procs,
             WriteCompose(p) \/ PullImages(p) \/ UpStart(p) \/ UpDone(p)
             \/ HealthPass(p) \/ StepFail(p) \/ Record(p)
      PROVE  NoOrphans'
  BY <1>3 DEF WriteCompose, PullImages, UpStart, UpDone, HealthPass, StepFail, Record
<1>4. ASSUME NEW p \in Procs,
             Choose(p) \/ ChooseNone(p) \/ RestoreSlot(p) \/ RevertStart(p)
             \/ RevertDone(p) \/ RevertFail(p) \/ ChildMove(p)
      PROVE  NoOrphans'
  BY <1>4 DEF Choose, ChooseNone, RestoreSlot, RevertStart, RevertDone, RevertFail, ChildMove
<1>5. ASSUME NEW p \in Procs, Die(p) PROVE NoOrphans'
  BY <1>5 DEF Die
<1>6. ASSUME NEW c \in orphans, OrphanMove(c) \/ OrphanExit(c) PROVE NoOrphans'
  BY <1>6
<1>7. CASE InstallerWrites
  BY <1>7 DEF InstallerWrites
<1>8. CASE UNCHANGED vars
  BY <1>8 DEF vars
<1> QED
  BY <1>1, <1>2, <1>3, <1>4, <1>5, <1>6, <1>7, <1>8 DEF Next, Working

(* Where a compose child dies with its parent, at most one `docker compose *)
(* up` works on the project.  The run deploy_orphan shows that the          *)
(* hypothesis is needed.                                                    *)
THEOREM OneComposeHolds ==
  ASSUME ~OrphansSurvive
  PROVE  Spec => []OneComposeAtATime
<1>1. Init => NoOrphans
  BY DEF Init, NoOrphans
<1>2. ShapeOK /\ NoOrphans => OneComposeAtATime
  BY DEF ShapeOK, Shape, NoOrphans, OneComposeAtATime
<1> QED
  BY <1>1, <1>2, NoOrphansStep, ShapeInvariant, PTL DEF Spec

-------------------------------------------------------------------------------
(* A passport that is being copied or restored is verified too, and so is  *)
(* the one about to be written.                                            *)
PassportInv ==
  /\ PassportVerified
  /\ \A p \in Procs :
       /\ held[p] \in Snapshot => held[p].files["passport"] \in verified \cup {Absent}
       /\ pc[p] = "recording" => req[p].target \in verified

(* A prune leaves nothing in the store that was not there: a snapshot it    *)
(* found, or what is left of one.                                          *)
LEMMA PruneKeeps ==
  ASSUME ShapeOK, NEW p \in Procs, Prune(p), NEW sn \in store'
  PROVE  \E o \in store :
           sn.id = o.id /\ \A sl \in Slot : sn.files[sl] \in {o.files[sl], Absent}
<1>1. PICK stuck \in SUBSET (store \ Newest) :
        \E left \in [stuck -> UNION {Remains(o) : o \in stuck}] :
          /\ \A o \in stuck : left[o] \in Remains(o)
          /\ store' = Newest \cup {left[o] : o \in stuck}
  BY DEF Prune
<1>2. ASSUME NEW o \in store, NEW r \in Remains(o)
      PROVE  r.id = o.id /\ \A sl \in Slot : r.files[sl] \in {o.files[sl], Absent}
  BY <1>2 DEF Remains, ShapeOK, TypeOK, Snapshot
<1>3. CASE sn \in Newest
  BY <1>3 DEF Newest
<1>4. CASE sn \notin Newest
  <2>1. PICK o \in stuck : sn \in Remains(o)
    BY <1>1, <1>4
  <2> QED
    BY <1>2, <2>1
<1> QED
  BY <1>3, <1>4

(* Every step keeps passports verified.                                    *)
LEMMA PassportStep == ShapeOK /\ PassportInv /\ [Next]_vars => PassportInv'
<1> SUFFICES ASSUME ShapeOK /\ PassportInv, [Next]_vars PROVE PassportInv'
  OBVIOUS
<1> USE EngineNoSnap DEF ShapeOK, Shape, TypeOK, PassportInv, PassportVerified,
         storeVars, composeVars, budgets, opVars
<1>1. ASSUME NEW p \in Procs, Begin(p) PROVE PassportInv'
  BY <1>1 DEF Begin, Admit, Goto, Lock!Enter
<1>2. ASSUME NEW p \in Procs, ReadBaseline(p) PROVE PassportInv'
  BY <1>2 DEF ReadBaseline, Step, Goto
<1>3. ASSUME NEW p \in Procs, BeginUpgrade(p) PROVE PassportInv'
  BY <1>3 DEF BeginUpgrade, Admit, Goto, Lock!Enter
<1>4. ASSUME NEW p \in Procs, TurnedAway(p) PROVE PassportInv'
  BY <1>4 DEF TurnedAway, Step, Goto
<1>5. ASSUME NEW p \in Procs, Return(p) PROVE PassportInv'
  BY <1>5 DEF Return, Goto, Lock!Enter, Lock!Leave
<1>6. ASSUME NEW p \in Procs, Proceed(p) PROVE PassportInv'
  BY <1>6 DEF Proceed, Step, Goto
<1>7. ASSUME NEW p \in Procs, Refuse(p) PROVE PassportInv'
  BY <1>7 DEF Refuse, Exit, Goto
<1>8. ASSUME NEW p \in Procs, SnapOpen(p) PROVE PassportInv'
  BY <1>8 DEF SnapOpen, Step, Goto, NoFiles, Slot
<1>9. ASSUME NEW p \in Procs, SnapCopy(p) PROVE PassportInv'
  <2>1. held[p] \in Snapshot /\ SaveOrder[at[p]] \in Slot
    BY <1>9, SaveOrderType DEF SnapCopy, Step
  <2>2. held'[p].files["passport"] \in {held[p].files["passport"], files["passport"]}
    BY <1>9, <2>1 DEF SnapCopy, Snapshot, Files, Slot
  <2> QED
    BY <1>9, <2>1, <2>2 DEF SnapCopy, Step, Goto
<1>10. ASSUME NEW p \in Procs, SnapSeal(p) PROVE PassportInv'
  BY <1>10 DEF SnapSeal, Step, Goto
<1>11. ASSUME NEW p \in Procs, Prune(p) PROVE PassportInv'
  <2>1. \A sn \in store' : sn.files["passport"] \in verified \cup {Absent}
    BY <1>11, PruneKeeps DEF Slot
  <2> QED
    BY <1>11, <2>1 DEF Prune, Step, Goto
<1>12. ASSUME NEW p \in Procs, SnapFail(p) PROVE PassportInv'
  BY <1>12 DEF SnapFail, Exit, Goto
<1>13. ASSUME NEW p \in Procs, WriteCompose(p) PROVE PassportInv'
  BY <1>13 DEF WriteCompose, Step, Goto, Files
<1>14. ASSUME NEW p \in Procs, PullImages(p) PROVE PassportInv'
  BY <1>14 DEF PullImages, Step, Goto
<1>15. ASSUME NEW p \in Procs, UpStart(p) PROVE PassportInv'
  BY <1>15 DEF UpStart, Step, Goto
<1>16. ASSUME NEW p \in Procs, UpDone(p) PROVE PassportInv'
  BY <1>16 DEF UpDone, Step, Goto
<1>17. ASSUME NEW p \in Procs, HealthPass(p) PROVE PassportInv'
  BY <1>17 DEF HealthPass, Step, Goto
<1>18. ASSUME NEW p \in Procs, StepFail(p) PROVE PassportInv'
  BY <1>18 DEF StepFail, Fail, Exit, Goto
<1>19. ASSUME NEW p \in Procs, Record(p) PROVE PassportInv'
  BY <1>19 DEF Record, Exit, Goto, Files
<1>20. ASSUME NEW p \in Procs, Choose(p) PROVE PassportInv'
  BY <1>20 DEF Choose, Step, Goto
<1>21. ASSUME NEW p \in Procs, ChooseNone(p) PROVE PassportInv'
  BY <1>21 DEF ChooseNone, Exit, Goto
<1>22. ASSUME NEW p \in Procs, RestoreSlot(p) PROVE PassportInv'
  <2>1. held[p] \in Snapshot
    BY <1>22 DEF RestoreSlot, Step
  <2>2. files'["passport"] \in {held[p].files["passport"], files["passport"]}
    BY <1>22 DEF RestoreSlot, Files, Slot
  <2> QED
    BY <1>22, <2>1, <2>2 DEF RestoreSlot, Step, Goto
<1>23. ASSUME NEW p \in Procs, RevertStart(p) PROVE PassportInv'
  BY <1>23 DEF RevertStart, Step, Goto
<1>24. ASSUME NEW p \in Procs, RevertDone(p) PROVE PassportInv'
  BY <1>24 DEF RevertDone, Exit, Goto
<1>25. ASSUME NEW p \in Procs, RevertFail(p) PROVE PassportInv'
  BY <1>25, SwapKeeps DEF RevertFail, Exit, Goto
<1>26. ASSUME NEW p \in Procs, ChildMove(p) PROVE PassportInv'
  BY <1>26 DEF ChildMove
<1>27. ASSUME NEW p \in Procs, Die(p) PROVE PassportInv'
  BY <1>27, SwapKeeps DEF Die, Goto, Lock!Enter, Lock!Leave
<1>28. ASSUME NEW c \in orphans, OrphanMove(c) PROVE PassportInv'
  BY <1>28 DEF OrphanMove
<1>29. ASSUME NEW c \in orphans, OrphanExit(c) PROVE PassportInv'
  BY <1>29 DEF OrphanExit
<1>30. CASE InstallerWrites
  BY <1>30 DEF InstallerWrites, Files
<1>31. CASE UNCHANGED vars
  BY <1>31 DEF vars
<1> QED
  BY <1>1, <1>2, <1>3, <1>4, <1>5, <1>6, <1>7, <1>8, <1>9, <1>10, <1>11,
     <1>12, <1>13, <1>14, <1>15, <1>16, <1>17, <1>18, <1>19, <1>20, <1>21,
     <1>22, <1>23, <1>24, <1>25, <1>26, <1>27, <1>28, <1>29, <1>30, <1>31
  DEF Next, Working

(* A host starts with a passport of an apply that ended well, or none.     *)
LEMMA PassportInit == Init => PassportInv
<1> SUFFICES ASSUME Init PROVE PassportInv
  OBVIOUS
<1>1. files["passport"] \in verified \cup {Absent}
  BY DEF Init, Slot
<1> QED
  BY <1>1, EngineNoSnap DEF Init, PassportInv, PassportVerified

(* A passport, in the install or in a snapshot, names a deployment that    *)
(* passed the health wait, whatever dies and is orphaned on the way.       *)
THEOREM PassportVerifiedHolds == Spec => []PassportVerified
<1>1. PassportInv => PassportVerified
  BY DEF PassportInv
<1> QED
  BY <1>1, PassportInit, PassportStep, ShapeInvariant, PTL DEF Spec

-------------------------------------------------------------------------------
(* Where an apply is before it has replaced the compose file.              *)
Unwritten == {"checking", "saving", "copying", "pruning", "writing"}

(* The store holds what p would roll back to.                              *)
Saved(p) ==
  /\ held[p] \in store
  /\ held[p].files["compose"] = before[p].compose
  /\ held[p].files["passport"] = before[p].passport

(* Until an apply overwrites the compose file the install is as it found   *)
(* it; the copy under way agrees with it as far as it got; the snapshot    *)
(* just taken is the newest of the store, so that the prune keeps it.      *)
RollbackInv ==
  /\ \A sn \in store : sn.id < nextId
  /\ \A p \in Procs :
       /\ pc[p] = "choosing" => req[p].kind = "rollback"
       /\ pc[p] \in Unwritten => req[p].kind # "rollback"
  /\ \A p \in Procs : p \in inside /\ req[p].kind # "rollback" =>
       /\ pc[p] \in Unwritten =>
            /\ files["compose"] = before[p].compose
            /\ files["passport"] = before[p].passport
       /\ pc[p] = "copying" =>
            /\ held[p].id < nextId
            /\ \A sn \in store : sn.id < held[p].id
            /\ at[p] > 1 => held[p].files["compose"] = before[p].compose
            /\ at[p] > 5 => held[p].files["passport"] = before[p].passport
       /\ pc[p] = "pruning" => Saved(p) /\ \A sn \in store : sn.id <= held[p].id
       /\ pc[p] \in {"writing"} \cup AfterWrite /\ before[p].compose # Absent => Saved(p)

(* A prune keeps the snapshot that no other is newer than.                 *)
LEMMA NewestKept ==
  ASSUME ShapeOK, NEW sn \in store, \A o \in store : o.id <= sn.id
  PROVE  sn \in Newest
<1>1. Newer(sn) = {}
  BY DEF Newer, ShapeOK, TypeOK, Snapshot
<1>2. Cardinality(Newer(sn)) = 0
  BY <1>1, FS_EmptySet
<1> QED
  BY <1>2, EngineConstants DEF Newest

(* Every step keeps the rollback point.                                    *)
LEMMA RollbackStep == ShapeOK /\ RollbackInv /\ [Next]_vars => RollbackInv'
<1> SUFFICES ASSUME ShapeOK /\ RollbackInv, [Next]_vars PROVE RollbackInv'
  OBVIOUS
<1> USE EngineNoSnap DEF ShapeOK, Shape, TypeOK, RollbackInv, Saved, Unwritten,
         AfterWrite, storeVars, composeVars, budgets, opVars
<1>1. ASSUME NEW p \in Procs, Begin(p) PROVE RollbackInv'
  BY <1>1 DEF Begin, Admit, Goto, Lock!Enter
<1>2. ASSUME NEW p \in Procs, ReadBaseline(p) PROVE RollbackInv'
  BY <1>2 DEF ReadBaseline, Step, Goto
<1>3. ASSUME NEW p \in Procs, BeginUpgrade(p) PROVE RollbackInv'
  BY <1>3 DEF BeginUpgrade, Admit, Goto, Lock!Enter
<1>4. ASSUME NEW p \in Procs, TurnedAway(p) PROVE RollbackInv'
  BY <1>4 DEF TurnedAway, Step, Goto
<1>5. ASSUME NEW p \in Procs, Return(p) PROVE RollbackInv'
  BY <1>5 DEF Return, Goto, Lock!Enter, Lock!Leave
<1>6. ASSUME NEW p \in Procs, Proceed(p) PROVE RollbackInv'
  BY <1>6 DEF Proceed, Step, Goto
<1>7. ASSUME NEW p \in Procs, Refuse(p) PROVE RollbackInv'
  BY <1>7 DEF Refuse, Exit, Goto
<1>8. ASSUME NEW p \in Procs, SnapOpen(p) PROVE RollbackInv'
  <2>1. p \in inside /\ \A q \in Procs \ {p} : q \notin inside'
    BY <1>8 DEF SnapOpen, Step
  <2>2. held'[p].id = nextId /\ at'[p] = 1 /\ nextId' = nextId + 1 /\ store' = store
    BY <1>8 DEF SnapOpen
  <2>3. \A sn \in store : sn.id \in Nat
    BY DEF Snapshot
  <2> QED
    BY <1>8, <2>1, <2>2, <2>3 DEF SnapOpen, Step, Goto
<1>9. ASSUME NEW p \in Procs, SnapCopy(p) PROVE RollbackInv'
  <2>1. held[p] \in Snapshot /\ p \in inside /\ \A q \in Procs \ {p} : q \notin inside'
    BY <1>9 DEF SnapCopy, Step
  <2>2. at[p] \in 1 .. 5 /\ at'[p] = at[p] + 1
    BY <1>9, SaveOrderType DEF SnapCopy
  <2>3. /\ held'[p].id = held[p].id
        /\ held'[p].files = [held[p].files EXCEPT ![SaveOrder[at[p]]] = files[SaveOrder[at[p]]]]
    BY <1>9, <2>1 DEF SnapCopy, Snapshot
  <2>4. at[p] = 1 => held'[p].files["compose"] = files["compose"]
    BY <2>1, <2>3, SnapshotRead DEF SaveOrder, Files, Slot
  <2>5. at[p] > 1 => held'[p].files["compose"] = held[p].files["compose"]
    BY <2>1, <2>2, <2>3, SnapshotRead DEF SaveOrder, Files, Slot
  <2>6. at[p] = 5 => held'[p].files["passport"] = files["passport"]
    BY <2>1, <2>3, SnapshotRead DEF SaveOrder, Files, Slot
  <2> QED
    BY <1>9, <2>1, <2>2, <2>3, <2>4, <2>5, <2>6 DEF SnapCopy, Step, Goto
<1>10. ASSUME NEW p \in Procs, SnapSeal(p) PROVE RollbackInv'
  <2>1. held[p] \in Snapshot /\ at[p] > 5 /\ \A sn \in store : sn.id \in Nat
    BY <1>10, SaveOrderType DEF SnapSeal, Step, Snapshot
  <2>2. held[p].id \in Nat /\ \A q \in Procs \ {p} : q \notin inside'
    BY <1>10, <2>1, SnapshotRead DEF SnapSeal, Step
  <2> QED
    BY <1>10, <2>1, <2>2 DEF SnapSeal, Step, Goto
<1>11. ASSUME NEW p \in Procs, Prune(p) PROVE RollbackInv'
  <2>1. \A sn \in store' : \E o \in store : sn.id = o.id
    BY <1>11, PruneKeeps
  <2>2. Newest \subseteq store'
    BY <1>11 DEF Prune
  <2>3. p \in inside /\ \A q \in Procs \ {p} : q \notin inside'
    BY <1>11 DEF Prune, Step
  <2>4. req[p].kind # "rollback" => held[p] \in store'
    BY <1>11, <2>2, <2>3, NewestKept DEF Prune, Step
  <2>5. /\ files' = files /\ before' = before /\ held' = held /\ at' = at /\ req' = req
        /\ nextId' = nextId /\ inside' = inside /\ pc[p] = "pruning" /\ pc'[p] = "writing"
        /\ \A q \in Procs \ {p} : pc'[q] = pc[q]
    BY <1>11 DEF Prune, Step, Goto
  <2>6. \A sn \in store' : sn.id < nextId'
    BY <2>1, <2>5
  <2> QED
    BY <2>3, <2>4, <2>5, <2>6
<1>12. ASSUME NEW p \in Procs, SnapFail(p) PROVE RollbackInv'
  BY <1>12 DEF SnapFail, Exit, Goto
<1>13. ASSUME NEW p \in Procs, WriteCompose(p) PROVE RollbackInv'
  BY <1>13 DEF WriteCompose, Step, Goto
<1>14. ASSUME NEW p \in Procs, PullImages(p) PROVE RollbackInv'
  BY <1>14 DEF PullImages, Step, Goto
<1>15. ASSUME NEW p \in Procs, UpStart(p) PROVE RollbackInv'
  BY <1>15 DEF UpStart, Step, Goto
<1>16. ASSUME NEW p \in Procs, UpDone(p) PROVE RollbackInv'
  BY <1>16 DEF UpDone, Step, Goto
<1>17. ASSUME NEW p \in Procs, HealthPass(p) PROVE RollbackInv'
  BY <1>17 DEF HealthPass, Step, Goto
<1>18. ASSUME NEW p \in Procs, StepFail(p) PROVE RollbackInv'
  BY <1>18 DEF StepFail, Fail, Exit, Goto
<1>19. ASSUME NEW p \in Procs, Record(p) PROVE RollbackInv'
  <2>1. pc'[p] = "exit" /\ \A q \in Procs \ {p} : pc'[q] = pc[q] /\ q \notin inside
    BY <1>19 DEF Record, Exit, Goto
  <2>2. /\ before' = before /\ held' = held /\ at' = at /\ req' = req
        /\ nextId' = nextId /\ inside' = inside /\ store' = store
    BY <1>19 DEF Record
  <2> QED
    BY <2>1, <2>2
<1>20. ASSUME NEW p \in Procs, Choose(p) PROVE RollbackInv'
  BY <1>20 DEF Choose, Step, Goto
<1>21. ASSUME NEW p \in Procs, ChooseNone(p) PROVE RollbackInv'
  BY <1>21 DEF ChooseNone, Exit, Goto
<1>22. ASSUME NEW p \in Procs, RestoreSlot(p) PROVE RollbackInv'
  BY <1>22 DEF RestoreSlot, Step, Goto
<1>23. ASSUME NEW p \in Procs, RevertStart(p) PROVE RollbackInv'
  BY <1>23 DEF RevertStart, Step, Goto
<1>24. ASSUME NEW p \in Procs, RevertDone(p) PROVE RollbackInv'
  BY <1>24 DEF RevertDone, Exit, Goto
<1>25. ASSUME NEW p \in Procs, RevertFail(p) PROVE RollbackInv'
  BY <1>25, SwapKeeps DEF RevertFail, Exit, Goto
<1>26. ASSUME NEW p \in Procs, ChildMove(p) PROVE RollbackInv'
  BY <1>26 DEF ChildMove
<1>27. ASSUME NEW p \in Procs, Die(p) PROVE RollbackInv'
  BY <1>27, SwapKeeps DEF Die, Goto, Lock!Enter, Lock!Leave
<1>28. ASSUME NEW c \in orphans, OrphanMove(c) PROVE RollbackInv'
  BY <1>28 DEF OrphanMove
<1>29. ASSUME NEW c \in orphans, OrphanExit(c) PROVE RollbackInv'
  BY <1>29 DEF OrphanExit
<1>30. CASE InstallerWrites
  BY <1>30 DEF InstallerWrites
<1>31. CASE UNCHANGED vars
  BY <1>31 DEF vars
<1> QED
  BY <1>1, <1>2, <1>3, <1>4, <1>5, <1>6, <1>7, <1>8, <1>9, <1>10, <1>11,
     <1>12, <1>13, <1>14, <1>15, <1>16, <1>17, <1>18, <1>19, <1>20, <1>21,
     <1>22, <1>23, <1>24, <1>25, <1>26, <1>27, <1>28, <1>29, <1>30, <1>31
  DEF Next, Working

(* No operation is in progress at the start and the store is empty.        *)
LEMMA RollbackInit == Init => RollbackInv
BY DEF Init, Lock!Init, RollbackInv, Unwritten

(* From the write of the compose file to its end, an apply can go back to  *)
(* what it found, whatever other operations save, prune, orphan and lose.  *)
THEOREM RollbackPointHolds == Spec => []RollbackPoint
<1>1. ShapeOK /\ RollbackInv => RollbackPoint
  BY DEF ShapeOK, Shape, RollbackInv, RollbackPoint, Saved, AfterWrite
<1> QED
  BY <1>1, RollbackInit, RollbackStep, ShapeInvariant, PTL DEF Spec

-------------------------------------------------------------------------------
(* Where an apply is between its guards and its end, on the way forward.   *)
PastGuards == {"saving", "copying", "pruning", "writing", "pulling",
               "starting", "upping", "waiting", "recording"}

(* Past the guards the new selection has every recorded service; once      *)
(* healthy, each has a container.                                          *)
KeptAt(p) ==
  /\ verdict[p] # "none" => pc[p] = "exit"
  /\ p \in inside /\ ~req[p].allowRemoval =>
       /\ pc[p] \in PastGuards => Named(before[p].passport) \subseteq Services(req[p].target)
       /\ pc[p] = "recording" \/ verdict[p] = "deployed" =>
            \A s \in Named(before[p].passport) : running[s] # Off

KeptInv == \A p \in Procs : KeptAt(p)

(* Every step keeps the recorded services.                                 *)
LEMMA KeptStep == ShapeOK /\ RollbackInv /\ NoOrphans /\ KeptInv /\ [Next]_vars => KeptInv'
<1> SUFFICES ASSUME ShapeOK /\ RollbackInv /\ NoOrphans /\ KeptInv, [Next]_vars PROVE KeptInv'
  OBVIOUS
<1> USE EngineNoSnap DEF ShapeOK, Shape, TypeOK, NoOrphans, KeptInv, KeptAt, PastGuards,
         storeVars, composeVars, budgets, opVars
<1>1. ASSUME NEW p \in Procs, Begin(p) PROVE KeptInv'
  BY <1>1 DEF Begin, Admit, Goto, Lock!Enter
<1>2. ASSUME NEW p \in Procs, ReadBaseline(p) PROVE KeptInv'
  BY <1>2 DEF ReadBaseline, Step, Goto
<1>3. ASSUME NEW p \in Procs, BeginUpgrade(p) PROVE KeptInv'
  BY <1>3 DEF BeginUpgrade, Admit, Goto, Lock!Enter
<1>4. ASSUME NEW p \in Procs, TurnedAway(p) PROVE KeptInv'
  BY <1>4 DEF TurnedAway, Step, Goto
<1>5. ASSUME NEW p \in Procs, Return(p) PROVE KeptInv'
  BY <1>5 DEF Return, Goto, Lock!Enter, Lock!Leave
<1>6. ASSUME NEW p \in Procs, Proceed(p) PROVE KeptInv'
  <2>1. p \in inside /\ \A q \in Procs \ {p} : q \notin inside'
    BY <1>6 DEF Proceed, Step
  <2>2. files["passport"] = before[p].passport
    BY <1>6, <2>1 DEF Proceed, Step, RollbackInv, Unwritten
  <2>3. req[p].allowRemoval \/ Named(before[p].passport) \subseteq Services(req[p].target)
    BY <1>6, <2>2 DEF Proceed, MayProceed, NotNarrowed
  <2>4. before'[p].passport = before[p].passport
    BY <1>6, <2>1 DEF Proceed, Found
  <2>5. verdict' = verdict /\ req' = req /\ inside' = inside /\ pc'[p] \in {"writing", "saving"}
    BY <1>6 DEF Proceed, Step, Goto
  <2>6. verdict[p] = "none" /\ \A q \in Procs \ {p} : pc'[q] = pc[q]
    BY <1>6 DEF Proceed, Step, Goto
  <2> QED
    BY <2>1, <2>3, <2>4, <2>5, <2>6
<1>7. ASSUME NEW p \in Procs, Refuse(p) PROVE KeptInv'
  BY <1>7 DEF Refuse, Exit, Goto
<1>8. ASSUME NEW p \in Procs, SnapOpen(p) PROVE KeptInv'
  BY <1>8 DEF SnapOpen, Step, Goto
<1>9. ASSUME NEW p \in Procs, SnapCopy(p) PROVE KeptInv'
  BY <1>9 DEF SnapCopy, Step, Goto
<1>10. ASSUME NEW p \in Procs, SnapSeal(p) PROVE KeptInv'
  BY <1>10 DEF SnapSeal, Step, Goto
<1>11. ASSUME NEW p \in Procs, Prune(p) PROVE KeptInv'
  BY <1>11 DEF Prune, Step, Goto
<1>12. ASSUME NEW p \in Procs, SnapFail(p) PROVE KeptInv'
  BY <1>12 DEF SnapFail, Exit, Goto
<1>13. ASSUME NEW p \in Procs, WriteCompose(p) PROVE KeptInv'
  BY <1>13 DEF WriteCompose, Step, Goto
<1>14. ASSUME NEW p \in Procs, PullImages(p) PROVE KeptInv'
  BY <1>14 DEF PullImages, Step, Goto
<1>15. ASSUME NEW p \in Procs, UpStart(p) PROVE KeptInv'
  BY <1>15 DEF UpStart, Step, Goto
<1>16. ASSUME NEW p \in Procs, UpDone(p) PROVE KeptInv'
  BY <1>16 DEF UpDone, Step, Goto
<1>17. ASSUME NEW p \in Procs, HealthPass(p) PROVE KeptInv'
  BY <1>17 DEF HealthPass, Step, Goto
<1>18. ASSUME NEW p \in Procs, StepFail(p) PROVE KeptInv'
  <2>1. /\ pc'[p] \in {"exit", "restoring"} /\ verdict'[p] \in {"torn", verdict[p]}
        /\ verdict'[p] # verdict[p] => pc'[p] = "exit"
        /\ \A q \in Procs \ {p} : pc'[q] = pc[q] /\ verdict'[q] = verdict[q]
    BY <1>18 DEF StepFail, Fail, Exit, Goto
  <2>2. before' = before /\ req' = req /\ inside' = inside /\ running' = running
    BY <1>18 DEF StepFail
  <2>3. verdict[p] = "none"
    BY <1>18 DEF StepFail
  <2>4. KeptAt(p)'
    BY <2>1, <2>2, <2>3
  <2>5. ASSUME NEW q \in Procs \ {p} PROVE KeptAt(q)'
    <3>1. KeptAt(q)
      OBVIOUS
    <3> HIDE DEF ShapeOK, Shape, TypeOK, NoOrphans, KeptInv, PastGuards
    <3> QED
      BY <2>1, <2>2, <3>1
  <2> QED
    BY <2>4, <2>5
<1>19. ASSUME NEW p \in Procs, Record(p) PROVE KeptInv'
  BY <1>19 DEF Record, Exit, Goto
<1>20. ASSUME NEW p \in Procs, Choose(p) PROVE KeptInv'
  BY <1>20 DEF Choose, Step, Goto
<1>21. ASSUME NEW p \in Procs, ChooseNone(p) PROVE KeptInv'
  BY <1>21 DEF ChooseNone, Exit, Goto
<1>22. ASSUME NEW p \in Procs, RestoreSlot(p) PROVE KeptInv'
  BY <1>22 DEF RestoreSlot, Step, Goto
<1>23. ASSUME NEW p \in Procs, RevertStart(p) PROVE KeptInv'
  BY <1>23 DEF RevertStart, Step, Goto
<1>24. ASSUME NEW p \in Procs, RevertDone(p) PROVE KeptInv'
  BY <1>24 DEF RevertDone, Exit, Goto
<1>25. ASSUME NEW p \in Procs, RevertFail(p) PROVE KeptInv'
  BY <1>25, SwapKeeps DEF RevertFail, Exit, Goto
<1>26. ASSUME NEW p \in Procs, ChildMove(p) PROVE KeptInv'
  BY <1>26 DEF ChildMove
<1>27. ASSUME NEW p \in Procs, Die(p) PROVE KeptInv'
  BY <1>27, SwapKeeps DEF Die, Goto, Lock!Enter, Lock!Leave
<1>28. ASSUME NEW c \in orphans, OrphanMove(c) PROVE KeptInv'
  BY <1>28 DEF OrphanMove
<1>29. ASSUME NEW c \in orphans, OrphanExit(c) PROVE KeptInv'
  BY <1>29 DEF OrphanExit
<1>30. CASE InstallerWrites
  BY <1>30 DEF InstallerWrites
<1>31. CASE UNCHANGED vars
  BY <1>31 DEF vars
<1> QED
  BY <1>1, <1>2, <1>3, <1>4, <1>5, <1>6, <1>7, <1>8, <1>9, <1>10, <1>11,
     <1>12, <1>13, <1>14, <1>15, <1>16, <1>17, <1>18, <1>19, <1>20, <1>21,
     <1>22, <1>23, <1>24, <1>25, <1>26, <1>27, <1>28, <1>29, <1>30, <1>31
  DEF Next, Working

(* An apply without --allow-removal that succeeds leaves a container for    *)
(* every recorded service, where no orphaned compose child interferes.     *)
THEOREM RecordedServicesKeptHolds ==
  ASSUME ~OrphansSurvive
  PROVE  Spec => []RecordedServicesKept
<1>1. Init => NoOrphans /\ KeptInv
  BY DEF Init, NoOrphans, KeptInv, KeptAt, PastGuards, Lock!Init
<1>2. ShapeOK /\ KeptInv => RecordedServicesKept
  BY DEF ShapeOK, Shape, KeptInv, KeptAt, RecordedServicesKept
<1> QED
  BY <1>1, <1>2, NoOrphansStep, KeptStep, RollbackInit, RollbackStep, ShapeInvariant, PTL
  DEF Spec
===============================================================================
