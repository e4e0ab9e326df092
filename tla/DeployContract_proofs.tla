------------------------ MODULE DeployContract_proofs ------------------------
(***************************************************************************)
(* The deploy engine implements DeployContract, for any processes, images, *)
(* compose files, requests, retention and bounds, where a compose child    *)
(* dies with its parent and a removal that fails leaves a snapshot whole.   *)
(* ContractInv relates what an operation found (`before`) to the install   *)
(* at each point of the operation; Mapping says what the contract's        *)
(* variables are by who holds the lock; RefineStep maps every step of the  *)
(* engine to a step of the contract or to none.                            *)
(***************************************************************************)
EXTENDS DeployEngine_proofs

(* Where an apply runs with the new compose file in place.                 *)
Written == {"pulling", "starting", "upping", "waiting", "recording"}

(* Before p has changed anything the install is as p found it.             *)
Untouched(p) ==
  pc[p] \in Unwritten \cup {"choosing"} =>
    /\ files["compose"] = before[p].compose
    /\ files["passport"] = before[p].passport
    /\ running = before[p].running

(* On the way forward only the compose file and the containers change.     *)
Forward(p) ==
  /\ pc[p] \in Written =>
       /\ req[p].kind # "rollback"
       /\ files["compose"] = req[p].target
       /\ files["passport"] = before[p].passport
  /\ pc[p] = "upping" => child[p] = req[p].target
  /\ pc[p] \in {"waiting", "recording"} => running = req[p].target

(* An apply holds a snapshot only if it found a compose file.              *)
SnapshotHeld(p) ==
  req[p].kind # "rollback" =>
    /\ pc[p] = "checking" => held[p] = NoSnap
    /\ pc[p] \in {"saving", "copying", "pruning", "restoring", "reverting"} =>
         before[p].compose # Absent
    /\ pc[p] \in {"writing"} \cup Written /\ held[p] # NoSnap => before[p].compose # Absent

(* On the way back the files come from the snapshot, as far as it got.     *)
Backward(p) ==
  pc[p] \in {"restoring", "reverting"} =>
    /\ held[p] \in store
    /\ at[p] > 1 \/ pc[p] = "reverting" => files["compose"] = held[p].files["compose"]
    /\ at[p] > 4 \/ pc[p] = "reverting" => files["passport"] = held[p].files["passport"]
    /\ pc[p] = "reverting" => child[p] = files["compose"]

(* A process outside the lock has found nothing and holds nothing; one that *)
(* is inside has a verdict exactly when it is done.                        *)
ContractInv ==
  /\ \A sn \in store : sn.files["compose"] # Absent
  /\ \A p \in Procs :
       /\ p \notin inside => before[p] = NoReq /\ held[p] = NoSnap
       /\ verdict[p] # "none" <=> pc[p] = "exit"
       /\ p \in inside => Untouched(p) /\ Forward(p) /\ SnapshotHeld(p) /\ Backward(p)

(* Every step keeps the relation of what was found to what there is.       *)
LEMMA ContractInvStep ==
  ASSUME ~PruneTears
  PROVE  ShapeOK /\ RollbackInv /\ NoOrphans /\ ContractInv /\ [Next]_vars => ContractInv'
<1> SUFFICES ASSUME ShapeOK, RollbackInv, NoOrphans, ContractInv, [Next]_vars PROVE ContractInv'
  OBVIOUS
<1> USE EngineNoSnap, EngineNoReq DEF ShapeOK, Shape, TypeOK, NoOrphans, ContractInv,
         Untouched, Forward, SnapshotHeld, Backward, Unwritten, Written,
         storeVars, composeVars, budgets, opVars
<1>1. ASSUME NEW p \in Procs, Begin(p) PROVE ContractInv'
  <2>1. inside = {} /\ inside' = {p}
    BY <1>1 DEF Begin, Admit, Lock!Enter
  <2>2. /\ before'[p].compose = files["compose"] /\ before'[p].passport = files["passport"]
        /\ before'[p].running = running
        /\ \A q \in Procs \ {p} : before'[q] = before[q]
    BY <1>1 DEF Begin, Admit
  <2>3. /\ pc'[p] = IF req'[p].kind = "rollback" THEN "choosing" ELSE "checking"
        /\ pc[p] \in {"idle", "locking"}
        /\ \A q \in Procs \ {p} : pc'[q] = pc[q]
    BY <1>1 DEF Begin, Admit, Goto
  <2>4. /\ files' = files /\ running' = running /\ store' = store /\ held' = held
        /\ verdict' = verdict /\ child' = child
    BY <1>1 DEF Begin, Admit
  <2> QED
    BY <2>1, <2>2, <2>3, <2>4
<1>2. ASSUME NEW p \in Procs, ReadBaseline(p) PROVE ContractInv'
  BY <1>2 DEF ReadBaseline, Step, Goto
<1>3. ASSUME NEW p \in Procs, BeginUpgrade(p) PROVE ContractInv'
  <2>1. inside = {} /\ inside' = {p}
    BY <1>3 DEF BeginUpgrade, Admit, Lock!Enter
  <2>2. /\ before'[p].compose = files["compose"] /\ before'[p].passport = files["passport"]
        /\ before'[p].running = running
        /\ \A q \in Procs \ {p} : before'[q] = before[q]
    BY <1>3 DEF BeginUpgrade, Admit
  <2>3. /\ pc'[p] = IF req'[p].kind = "rollback" THEN "choosing" ELSE "checking"
        /\ pc[p] \in {"idle", "locking"}
        /\ \A q \in Procs \ {p} : pc'[q] = pc[q]
    BY <1>3 DEF BeginUpgrade, Admit, Goto
  <2>4. /\ files' = files /\ running' = running /\ store' = store /\ held' = held
        /\ verdict' = verdict /\ child' = child
    BY <1>3 DEF BeginUpgrade, Admit
  <2> QED
    BY <2>1, <2>2, <2>3, <2>4
<1>4. ASSUME NEW p \in Procs, TurnedAway(p) PROVE ContractInv'
  BY <1>4 DEF TurnedAway, Step, Goto
<1>5. ASSUME NEW p \in Procs, Return(p) PROVE ContractInv'
  BY <1>5 DEF Return, Goto, Lock!Enter, Lock!Leave
<1>6. ASSUME NEW p \in Procs, Proceed(p) PROVE ContractInv'
  <2>1. PICK e \in BOOLEAN : before' = [before EXCEPT ![p].evidence = e]
    BY <1>6 DEF Proceed, FreshMarker
  <2>2. p \in inside /\ before[p] \in Found /\ req[p].kind # "rollback"
    BY <1>6 DEF Proceed, Step, RollbackInv
  <2>3. /\ before'[p].compose = before[p].compose /\ before'[p].passport = before[p].passport
        /\ before'[p].running = before[p].running
        /\ \A q \in Procs \ {p} : before'[q] = before[q]
    BY <2>1, <2>2 DEF Found
  <2>4. files["compose"] = before[p].compose /\ held[p] = NoSnap
    BY <1>6, <2>2 DEF Proceed, Step
  <2>5. /\ pc[p] = "checking"
        /\ pc'[p] = IF files["compose"] = Absent THEN "writing" ELSE "saving"
        /\ \A q \in Procs \ {p} : pc'[q] = pc[q]
    BY <1>6 DEF Proceed, Step, Goto
  <2>6. /\ files' = files /\ running' = running /\ store' = store /\ held' = held
        /\ verdict' = verdict /\ child' = child /\ req' = req /\ inside' = inside
    BY <1>6 DEF Proceed, Step
  <2> QED
    BY <2>2, <2>3, <2>4, <2>5, <2>6
<1>7. ASSUME NEW p \in Procs, Refuse(p) PROVE ContractInv'
  BY <1>7 DEF Refuse, Exit, Goto
<1>8. ASSUME NEW p \in Procs, SnapOpen(p) PROVE ContractInv'
  <2>1. p \in inside /\ \A q \in Procs \ {p} : q \notin inside
    BY <1>8 DEF SnapOpen, Step
  <2> QED
    BY <1>8, <2>1 DEF SnapOpen, Step, Goto
<1>9. ASSUME NEW p \in Procs, SnapCopy(p) PROVE ContractInv'
  BY <1>9 DEF SnapCopy, Step, Goto
<1>10. ASSUME NEW p \in Procs, SnapSeal(p) PROVE ContractInv'
  <2>1. p \in inside /\ at[p] > 5 /\ req[p].kind # "rollback"
    BY <1>10, SaveOrderType DEF SnapSeal, Step, RollbackInv
  <2>2. at[p] > 1 /\ before[p].compose # Absent
    BY <1>10, <2>1 DEF SnapSeal, Step
  <2>3. held[p].files["compose"] = before[p].compose
    BY <1>10, <2>1, <2>2 DEF SnapSeal, Step, RollbackInv
  <2> QED
    BY <1>10, <2>1, <2>2, <2>3 DEF SnapSeal, Step, Goto
<1>11. ASSUME NEW p \in Procs, Prune(p) PROVE ContractInv'
  <2>1. store' \subseteq store
    BY <1>11 DEF Prune, Newest, Remains
  <2>2. p \in inside /\ \A q \in Procs \ {p} : q \notin inside
    BY <1>11 DEF Prune, Step
  <2> QED
    BY <1>11, <2>1, <2>2 DEF Prune, Step, Goto
<1>12. ASSUME NEW p \in Procs, SnapFail(p) PROVE ContractInv'
  BY <1>12 DEF SnapFail, Exit, Goto
<1>13. ASSUME NEW p \in Procs, WriteCompose(p) PROVE ContractInv'
  <2>1. files'["compose"] = req[p].target /\ files'["passport"] = files["passport"]
    BY <1>13 DEF WriteCompose, Files, Slot
  <2>2. p \in inside /\ req[p].kind # "rollback" /\ \A q \in Procs \ {p} : q \notin inside
    BY <1>13 DEF WriteCompose, Step, RollbackInv
  <2> QED
    BY <1>13, <2>1, <2>2 DEF WriteCompose, Step, Goto
<1>14. ASSUME NEW p \in Procs, PullImages(p) PROVE ContractInv'
  BY <1>14 DEF PullImages, Step, Goto
<1>15. ASSUME NEW p \in Procs, UpStart(p) PROVE ContractInv'
  BY <1>15 DEF UpStart, Step, Goto
<1>16. ASSUME NEW p \in Procs, UpDone(p) PROVE ContractInv'
  BY <1>16 DEF UpDone, Step, Goto
<1>17. ASSUME NEW p \in Procs, HealthPass(p) PROVE ContractInv'
  BY <1>17 DEF HealthPass, Step, Goto
<1>18. ASSUME NEW p \in Procs, StepFail(p) PROVE ContractInv'
  <2>1. /\ p \in inside /\ \A q \in Procs \ {p} : q \notin inside
        /\ req[p].kind # "rollback" /\ pc[p] \in {"writing"} \cup Written
    BY <1>18 DEF StepFail, RollbackInv
  <2>2. held[p] # NoSnap => before[p].compose # Absent /\ held[p] \in store
    BY <2>1 DEF RollbackInv, Saved, AfterWrite
  <2>3. CASE held[p] = NoSnap
    BY <1>18, <2>1, <2>3 DEF StepFail, Fail, Exit, Goto
  <2>4. CASE held[p] # NoSnap
    <3>1. pc'[p] = "restoring" /\ at'[p] = 1 /\ verdict' = verdict
          /\ \A q \in Procs \ {p} : pc'[q] = pc[q]
      BY <1>18, <2>4 DEF StepFail, Fail, Goto
    <3> QED
      BY <1>18, <2>1, <2>2, <2>4, <3>1 DEF StepFail
  <2> QED
    BY <2>3, <2>4
<1>19. ASSUME NEW p \in Procs, Record(p) PROVE ContractInv'
  BY <1>19 DEF Record, Exit, Goto
<1>20. ASSUME NEW p \in Procs, Choose(p) PROVE ContractInv'
  <2>1. p \in inside /\ req[p].kind = "rollback" /\ \A q \in Procs \ {p} : q \notin inside
    BY <1>20 DEF Choose, Step, RollbackInv
  <2> QED
    BY <1>20, <2>1 DEF Choose, Step, Goto
<1>21. ASSUME NEW p \in Procs, ChooseNone(p) PROVE ContractInv'
  BY <1>21 DEF ChooseNone, Exit, Goto
<1>22. ASSUME NEW p \in Procs, RestoreSlot(p) PROVE ContractInv'
  <2>1. /\ p \in inside /\ \A q \in Procs \ {p} : q \notin inside
        /\ held[p] \in store /\ at[p] \in 1 .. 5
    BY <1>22, RestoreOrderType, SaveOrderType DEF RestoreSlot, Step
  <2>2. held[p].files["compose"] # Absent
    BY <2>1
  <2>3. IF at[p] = 1 THEN files'["compose"] = held[p].files["compose"]
                     ELSE files'["compose"] = files["compose"]
    BY <1>22, <2>1, <2>2 DEF RestoreSlot, RestoreOrder, DropWhenMissing, Files, Slot
  <2>4. IF at[p] = 4 THEN files'["passport"] = held[p].files["passport"]
                     ELSE files'["passport"] = files["passport"]
    BY <1>22, <2>1 DEF RestoreSlot, RestoreOrder, DropWhenMissing, Files, Slot
  <2>5. /\ at'[p] = at[p] + 1 /\ pc' = pc
        /\ UNCHANGED <<inside, store, running, child, req, before, held, verdict>>
    BY <1>22 DEF RestoreSlot, Step, Goto
  <2>6. /\ \A sn \in store' : sn.files["compose"] # Absent
        /\ \A q \in Procs : /\ q \notin inside' => before'[q] = NoReq /\ held'[q] = NoSnap
                            /\ verdict'[q] # "none" <=> pc'[q] = "exit"
    BY <2>5
  <2>7. pc[p] = "restoring" /\ pc'[p] = "restoring"
    BY <1>22, <2>5 DEF RestoreSlot, Step
  <2>8. Untouched(p)' /\ Forward(p)' /\ SnapshotHeld(p)'
    BY <2>1, <2>5, <2>7
  <2>9. Backward(p)'
    BY <2>1, <2>3, <2>4, <2>5, <2>7
  <2>10. \A q \in Procs : q \in inside' => q = p
    BY <2>1, <2>5
  <2> QED
    BY ONLY <2>6, <2>8, <2>9, <2>10
         DEF ContractInv, Untouched, Forward, SnapshotHeld, Backward
<1>23. ASSUME NEW p \in Procs, RevertStart(p) PROVE ContractInv'
  <2>1. p \in inside /\ \A q \in Procs \ {p} : q \notin inside
    BY <1>23 DEF RevertStart, Step
  <2>2. at[p] \in 1 .. 6 /\ ~(at[p] <= 5)
    BY <1>23, SaveOrderType, RestoreOrderType DEF RevertStart
  <2>3. at[p] > 4 /\ at[p] > 1
    BY ONLY <2>2
  <2> QED
    BY <1>23, <2>1, <2>3 DEF RevertStart, Step, Goto
<1>24. ASSUME NEW p \in Procs, RevertDone(p) PROVE ContractInv'
  BY <1>24 DEF RevertDone, Exit, Goto
<1>25. ASSUME NEW p \in Procs, RevertFail(p) PROVE ContractInv'
  <2>1. /\ p \in inside /\ \A q \in Procs \ {p} : q \notin inside
    BY <1>25 DEF RevertFail
  <2> QED
    BY <1>25, <2>1, SwapKeeps DEF RevertFail, Exit, Goto
<1>26. ASSUME NEW p \in Procs, ChildMove(p) PROVE ContractInv'
  BY <1>26 DEF ChildMove
<1>27. ASSUME NEW p \in Procs, Die(p) PROVE ContractInv'
  BY <1>27 DEF Die, Goto, Lock!Enter, Lock!Leave
<1>28. ASSUME NEW c \in orphans, OrphanMove(c) \/ OrphanExit(c) PROVE ContractInv'
  OBVIOUS
<1>29. CASE InstallerWrites
  BY <1>29 DEF InstallerWrites
<1>30. CASE UNCHANGED vars
  BY <1>30 DEF vars
<1> QED
  BY <1>1, <1>2, <1>3, <1>4, <1>5, <1>6, <1>7, <1>8, <1>9, <1>10, <1>11,
     <1>12, <1>13, <1>14, <1>15, <1>16, <1>17, <1>18, <1>19, <1>20, <1>21,
     <1>22, <1>23, <1>24, <1>25, <1>26, <1>27, <1>28, <1>29, <1>30
  DEF Next, Working

(* No operation is in progress at the start.                               *)
LEMMA ContractInvInit == Init => ContractInv
BY EngineConstants DEF Init, Lock!Init, ContractInv

(* What the contract's variables are, by who holds the lock.               *)
Mapped ==
  /\ Inside = inside
  /\ inside = {} => Holder = NoReq /\ Ending = "none" /\ Deployment = Now
  /\ \A p \in inside :
       /\ inside = {p} /\ Holder = p /\ Ending = verdict[p]
       /\ Deployment = IF verdict[p] = "none" THEN FoundBy(p) ELSE Now

(* The contract's owner is the process in the lock; while its operation is *)
(* in progress the contract sees the install as that operation found it.   *)
LEMMA Mapping == ShapeOK /\ ContractInv => Mapped
<1> SUFFICES ASSUME ShapeOK, ContractInv PROVE Mapped
  OBVIOUS
<1>1. Inside = inside
  BY EngineNoReq DEF Inside, ShapeOK, Shape, TypeOK, ContractInv
<1>2. CASE inside = {}
  BY <1>1, <1>2 DEF Mapped, Holder, Ending, Deployment, InFlight
<1>3. ASSUME NEW p \in Procs, inside = {p} PROVE Mapped
  <2>1. Owner = p
    BY <1>1, <1>3 DEF Owner
  <2> QED
    BY <1>1, <1>3, <2>1 DEF Mapped, Holder, Ending, Deployment, InFlight
<1> QED
  BY <1>2, <1>3 DEF ShapeOK, Shape

(* The install between operations is one the contract knows.               *)
LEMMA NowType == ShapeOK => Now \in Contract!Install
BY FilesRead DEF ShapeOK, TypeOK, Now, Contract!Install, Stack

(* Every step of the engine is one of the contract, or changes nothing it   *)
(* speaks of.                                                              *)
LEMMA RefineStep ==
  ASSUME ~PruneTears
  PROVE  /\ ShapeOK /\ RollbackInv /\ NoOrphans /\ ContractInv /\ [Next]_vars
         /\ (ShapeOK /\ ContractInv)'
         => [Contract!Next]_(Contract!cvars)
<1> SUFFICES ASSUME ShapeOK, RollbackInv, NoOrphans, ContractInv, [Next]_vars,
                    (ShapeOK /\ ContractInv)'
             PROVE  [Contract!Next]_(Contract!cvars)
  OBVIOUS
<1>a. Mapped
  BY Mapping
<1>b. Mapped'
  <2>1. (ShapeOK /\ ContractInv => Mapped)'
    BY Mapping, PTL
  <2> QED
    BY <2>1
<1>c. Now' \in Contract!Install
  <2>1. (ShapeOK => Now \in Contract!Install)'
    BY NowType, PTL
  <2> QED
    BY <2>1 DEF Contract!Install
<1> DEFINE Quiet == UNCHANGED <<Holder, Ending, Deployment, Points>>
           Goal == [Contract!Next]_(Contract!cvars)
<1>d. Quiet => Goal
  BY DEF Contract!cvars
<1>e. ASSUME NEW p \in Procs, p \in inside, inside' = inside, store' = store,
             verdict[p] = "none", verdict'[p] = "none", FoundBy(p)' = FoundBy(p)
      PROVE  Goal
  BY <1>a, <1>b, <1>d, <1>e DEF Mapped, Points
<1>f. ASSUME NEW p \in Procs, p \in inside, inside' = inside, store' = store,
             verdict[p] = "none", verdict'[p] # "none"
      PROVE  /\ Holder = p /\ Holder' = p /\ Ending = "none" /\ Ending' = verdict'[p]
             /\ Deployment = FoundBy(p) /\ Deployment' = Now' /\ Points' = Points
  BY <1>a, <1>b, <1>f DEF Mapped, Points
<1>g. ASSUME NEW p \in Procs, NEW r, Admit(p, r) PROVE Goal
  <2>1. /\ inside = {} /\ inside' = {p} /\ store' = store /\ verdict' = verdict
        /\ files' = files /\ running' = running
    BY <1>g DEF Admit, Lock!Enter, storeVars, composeVars
  <2>2. FoundBy(p)' = Now
    BY <1>g DEF Admit, FoundBy, Now, ShapeOK, TypeOK
  <2>3. verdict[p] = "none"
    BY <2>1 DEF ContractInv, ShapeOK, Shape
  <2>4. Contract!Begin(p)
    BY <1>a, <1>b, <2>1, <2>2, <2>3 DEF Mapped, Contract!Begin, Points
  <2> QED
    BY <2>4 DEF Contract!Next
<1>h. ASSUME NEW p \in Procs, Lock!Leave(p),
             /\ UNCHANGED <<store, running>>
             /\ files'["compose"] = files["compose"] /\ files'["passport"] = files["passport"]
      PROVE  /\ Holder = p /\ Holder' = NoReq /\ Ending = verdict[p] /\ Ending' = "none"
             /\ Deployment' = Now /\ Points' = Points
             /\ verdict[p] # "none" => Deployment = Now
  BY <1>a, <1>b, <1>h DEF Mapped, Lock!Leave, Points, Now
<1>i. ASSUME UNCHANGED <<inside, store, running, before, verdict>>,
             files'["compose"] = files["compose"], files'["passport"] = files["passport"]
      PROVE  Goal
  <2>1. Now' = Now /\ \A p \in Procs : FoundBy(p)' = FoundBy(p)
    BY <1>i DEF Now, FoundBy
  <2>2. inside = {} \/ \E p \in Procs : inside = {p}
    BY DEF ShapeOK, Shape
  <2> QED
    BY <1>a, <1>b, <1>d, <1>i, <2>1, <2>2 DEF Mapped, Points
<1>j. \A p \in Procs : pc[p] \notin {"idle", "locking"} =>
        p \in inside /\ (verdict[p] = "none" <=> pc[p] # "exit")
  BY DEF ShapeOK, Shape, ContractInv
<1> USE DEF storeVars, composeVars, budgets, opVars
<1>1. ASSUME NEW p \in Procs, Begin(p) PROVE Goal
  BY <1>1, <1>g DEF Begin
<1>2. ASSUME NEW p \in Procs, ReadBaseline(p) PROVE Goal
  BY <1>2, <1>i DEF ReadBaseline, Step
<1>3. ASSUME NEW p \in Procs, BeginUpgrade(p) PROVE Goal
  BY <1>3, <1>g DEF BeginUpgrade
<1>4. ASSUME NEW p \in Procs, TurnedAway(p) PROVE Goal
  BY <1>4, <1>i DEF TurnedAway, Step
<1>5. ASSUME NEW p \in Procs, Return(p) PROVE Goal
  <2>1. verdict[p] # "none"
    BY <1>5, <1>j DEF Return
  <2>2. Contract!Return(p)
    BY <1>5, <1>h, <2>1 DEF Return, Contract!Return
  <2> QED
    BY <2>2 DEF Contract!Next
<1>6. ASSUME NEW p \in Procs, Proceed(p) PROVE Goal
  <2>1. PICK e \in BOOLEAN : before' = [before EXCEPT ![p].evidence = e]
    BY <1>6 DEF Proceed, FreshMarker
  <2>2. p \in inside /\ before[p] \in Found
    BY <1>6, <1>j DEF Proceed, Step, ShapeOK, Shape
  <2>3. FoundBy(p)' = FoundBy(p)
    BY <2>1, <2>2 DEF Found, FoundBy, ShapeOK, TypeOK
  <2> QED
    BY <1>6, <1>e, <1>j, <2>2, <2>3 DEF Proceed, Step
<1>7. ASSUME NEW p \in Procs, Refuse(p) PROVE Goal
  <2>1. /\ pc[p] \in Unwritten \cup {"choosing"} /\ verdict'[p] = "unchanged"
        /\ UNCHANGED <<inside, store, files, running>>
    BY <1>7 DEF Refuse, Exit, Unwritten, ShapeOK, TypeOK
  <2>2. p \in inside /\ verdict[p] = "none"
    BY <1>j, <2>1 DEF Unwritten
  <2>3. Now' = FoundBy(p)
    BY <2>1, <2>2 DEF Now, FoundBy, ContractInv, Untouched
  <2>4. Contract!Unchanged(p)
    BY <1>f, <2>1, <2>2, <2>3 DEF Contract!Unchanged, Contract!Ends
  <2> QED
    BY <2>4 DEF Contract!Next
<1>8. ASSUME NEW p \in Procs, SnapOpen(p) PROVE Goal
  <2>1. pc[p] \notin {"idle", "locking", "exit"}
    BY <1>8 DEF SnapOpen, Step
  <2>2. UNCHANGED <<inside, store, before, verdict>>
    BY <1>8 DEF SnapOpen, Step
  <2> QED
    BY <1>e, <1>j, <2>1, <2>2 DEF FoundBy
<1>9. ASSUME NEW p \in Procs, SnapCopy(p) PROVE Goal
  <2>1. pc[p] \notin {"idle", "locking", "exit"}
    BY <1>9 DEF SnapCopy, Step
  <2>2. UNCHANGED <<inside, store, before, verdict>>
    BY <1>9 DEF SnapCopy, Step
  <2> QED
    BY <1>e, <1>j, <2>1, <2>2 DEF FoundBy
<1>10. ASSUME NEW p \in Procs, SnapSeal(p) PROVE Goal
  <2>1. /\ pc[p] = "copying" /\ at[p] > 5
        /\ UNCHANGED <<inside, before, verdict>> /\ store' = store \cup {held[p]}
    BY <1>10, SaveOrderType DEF SnapSeal, Step
  <2>2. p \in inside /\ verdict[p] = "none" /\ req[p].kind # "rollback"
    BY <1>j, <2>1 DEF RollbackInv, Unwritten
  <2>3. /\ held[p].files["compose"] = before[p].compose
        /\ held[p].files["passport"] = before[p].passport
    <3>1. at[p] \in 1 .. 6
      BY SaveOrderType DEF ShapeOK, TypeOK
    <3>2. at[p] > 1
      BY ONLY <2>1, <3>1
    <3> QED
      BY <2>1, <2>2, <3>2 DEF RollbackInv
  <2>4. Points' = Points \cup {<<FoundBy(p).compose, FoundBy(p).passport>>}
    BY <2>1, <2>3 DEF Points, FoundBy
  <2>5. /\ Holder = p /\ Holder' = p /\ Ending = "none" /\ Ending' = "none"
        /\ Deployment = FoundBy(p) /\ Deployment' = FoundBy(p)
    BY <1>a, <1>b, <2>1, <2>2 DEF Mapped, FoundBy
  <2>6. Contract!Remember(p)
    BY <2>4, <2>5 DEF Contract!Remember
  <2> QED
    BY <2>6 DEF Contract!Next
<1>11. ASSUME NEW p \in Procs, Prune(p) PROVE Goal
  <2>1. pc[p] = "pruning" /\ UNCHANGED <<inside, before, verdict>> /\ store' \subseteq store
    BY <1>11 DEF Prune, Step, Newest, Remains
  <2>2. p \in inside /\ verdict[p] = "none"
    BY <1>j, <2>1
  <2>3. Points' \subseteq Points
    BY <2>1 DEF Points
  <2>4. /\ Holder = p /\ Holder' = p /\ Ending = "none" /\ Ending' = "none"
        /\ Deployment = FoundBy(p) /\ Deployment' = FoundBy(p)
    BY <1>a, <1>b, <2>1, <2>2 DEF Mapped, FoundBy
  <2>5. Contract!Remember(p)
    BY <2>3, <2>4 DEF Contract!Remember
  <2> QED
    BY <2>5 DEF Contract!Next
<1>12. ASSUME NEW p \in Procs, SnapFail(p) PROVE Goal
  <2>1. /\ pc[p] \in Unwritten \cup {"choosing"} /\ verdict'[p] = "unchanged"
        /\ UNCHANGED <<inside, store, files, running>>
    BY <1>12 DEF SnapFail, Exit, Unwritten, ShapeOK, TypeOK
  <2>2. p \in inside /\ verdict[p] = "none"
    BY <1>j, <2>1 DEF Unwritten
  <2>3. Now' = FoundBy(p)
    BY <2>1, <2>2 DEF Now, FoundBy, ContractInv, Untouched
  <2>4. Contract!Unchanged(p)
    BY <1>f, <2>1, <2>2, <2>3 DEF Contract!Unchanged, Contract!Ends
  <2> QED
    BY <2>4 DEF Contract!Next
<1>13. ASSUME NEW p \in Procs, WriteCompose(p) PROVE Goal
  <2>1. pc[p] \notin {"idle", "locking", "exit"}
    BY <1>13 DEF WriteCompose, Step
  <2>2. UNCHANGED <<inside, store, before, verdict>>
    BY <1>13 DEF WriteCompose, Step
  <2> QED
    BY <1>e, <1>j, <2>1, <2>2 DEF FoundBy
<1>14. ASSUME NEW p \in Procs, PullImages(p) PROVE Goal
  <2>1. pc[p] \notin {"idle", "locking", "exit"}
    BY <1>14 DEF PullImages, Step
  <2>2. UNCHANGED <<inside, store, before, verdict>>
    BY <1>14 DEF PullImages, Step
  <2> QED
    BY <1>e, <1>j, <2>1, <2>2 DEF FoundBy
<1>15. ASSUME NEW p \in Procs, UpStart(p) PROVE Goal
  <2>1. pc[p] \notin {"idle", "locking", "exit"}
    BY <1>15 DEF UpStart, Step
  <2>2. UNCHANGED <<inside, store, before, verdict>>
    BY <1>15 DEF UpStart, Step
  <2> QED
    BY <1>e, <1>j, <2>1, <2>2 DEF FoundBy
<1>16. ASSUME NEW p \in Procs, UpDone(p) PROVE Goal
  <2>1. pc[p] \notin {"idle", "locking", "exit"}
    BY <1>16 DEF UpDone, Step
  <2>2. UNCHANGED <<inside, store, before, verdict>>
    BY <1>16 DEF UpDone, Step
  <2> QED
    BY <1>e, <1>j, <2>1, <2>2 DEF FoundBy
<1>17. ASSUME NEW p \in Procs, HealthPass(p) PROVE Goal
  <2>1. pc[p] \notin {"idle", "locking", "exit"}
    BY <1>17 DEF HealthPass, Step
  <2>2. UNCHANGED <<inside, store, before, verdict>>
    BY <1>17 DEF HealthPass, Step
  <2> QED
    BY <1>e, <1>j, <2>1, <2>2 DEF FoundBy
<1>18. ASSUME NEW p \in Procs, StepFail(p) PROVE Goal
  <2>1. pc[p] \notin {"idle", "locking", "exit"} /\ UNCHANGED <<inside, store, before>>
    BY <1>18 DEF StepFail
  <2>2. verdict'[p] \in {"torn", verdict[p]}
    BY <1>18 DEF StepFail, Fail, Exit, ShapeOK, TypeOK
  <2>3. p \in inside /\ verdict[p] = "none"
    BY <1>j, <2>1
  <2>4. CASE verdict'[p] = verdict[p]
    BY <1>e, <2>1, <2>3, <2>4 DEF FoundBy
  <2>5. CASE verdict'[p] = "torn"
    <3>1. Contract!Torn(p)
      BY <1>c, <1>f, <2>1, <2>3, <2>5 DEF Contract!Torn, Contract!Ends
    <3> QED
      BY <3>1 DEF Contract!Next
  <2> QED
    BY <2>2, <2>4, <2>5
<1>19. ASSUME NEW p \in Procs, Record(p) PROVE Goal
  <2>1. /\ pc[p] = "recording" /\ verdict'[p] = "deployed"
        /\ UNCHANGED <<inside, store, running>>
    BY <1>19 DEF Record, Exit, ShapeOK, TypeOK
  <2>2. p \in inside /\ verdict[p] = "none" /\ req[p].target \in Config
    BY <1>j, <2>1, RequestRead DEF ShapeOK, Shape
  <2>3. /\ files'["compose"] = req[p].target
        /\ files'["passport"] \in {req[p].target, before[p].passport}
        /\ running' = req[p].target
    BY <1>19, <2>1, <2>2
    DEF Record, ContractInv, Forward, Written, ShapeOK, TypeOK, Files, Slot
  <2>4. FoundBy(p).passport \in Config \cup {Absent}
    BY <2>2 DEF FoundBy, ShapeOK, Shape, Found
  <2>5. Now' = [compose |-> req[p].target, passport |-> files'["passport"],
                running |-> req[p].target]
    BY <2>3 DEF Now
  <2>6. Contract!Deployed(p)
    BY <1>f, <2>1, <2>2, <2>3, <2>4, <2>5 DEF Contract!Deployed, Contract!Ends, FoundBy
  <2> QED
    BY <2>6 DEF Contract!Next
<1>20. ASSUME NEW p \in Procs, Choose(p) PROVE Goal
  <2>1. pc[p] \notin {"idle", "locking", "exit"}
    BY <1>20 DEF Choose, Step
  <2>2. UNCHANGED <<inside, store, before, verdict>>
    BY <1>20 DEF Choose, Step
  <2> QED
    BY <1>e, <1>j, <2>1, <2>2 DEF FoundBy
<1>21. ASSUME NEW p \in Procs, ChooseNone(p) PROVE Goal
  <2>1. /\ pc[p] \in Unwritten \cup {"choosing"} /\ verdict'[p] = "unchanged"
        /\ UNCHANGED <<inside, store, files, running>>
    BY <1>21 DEF ChooseNone, Exit, Unwritten, ShapeOK, TypeOK
  <2>2. p \in inside /\ verdict[p] = "none"
    BY <1>j, <2>1 DEF Unwritten
  <2>3. Now' = FoundBy(p)
    BY <2>1, <2>2 DEF Now, FoundBy, ContractInv, Untouched
  <2>4. Contract!Unchanged(p)
    BY <1>f, <2>1, <2>2, <2>3 DEF Contract!Unchanged, Contract!Ends
  <2> QED
    BY <2>4 DEF Contract!Next
<1>22. ASSUME NEW p \in Procs, RestoreSlot(p) PROVE Goal
  <2>1. pc[p] \notin {"idle", "locking", "exit"}
    BY <1>22 DEF RestoreSlot, Step
  <2>2. UNCHANGED <<inside, store, before, verdict>>
    BY <1>22 DEF RestoreSlot, Step
  <2> QED
    BY <1>e, <1>j, <2>1, <2>2 DEF FoundBy
<1>23. ASSUME NEW p \in Procs, RevertStart(p) PROVE Goal
  <2>1. pc[p] \notin {"idle", "locking", "exit"}
    BY <1>23 DEF RevertStart, Step
  <2>2. UNCHANGED <<inside, store, before, verdict>>
    BY <1>23 DEF RevertStart, Step
  <2> QED
    BY <1>e, <1>j, <2>1, <2>2 DEF FoundBy
<1>24. ASSUME NEW p \in Procs, RevertDone(p) PROVE Goal
  <2>1. /\ pc[p] = "reverting" /\ running = child[p]
        /\ verdict'[p] = IF req[p].kind = "rollback" THEN "restored" ELSE "undone"
        /\ UNCHANGED <<inside, store, files, running>>
    BY <1>24 DEF RevertDone, Exit, ShapeOK, TypeOK
  <2>2. p \in inside /\ verdict[p] = "none"
    BY <1>j, <2>1
  <2>3. /\ held[p] \in store /\ running = files["compose"]
        /\ files["compose"] = held[p].files["compose"]
        /\ files["passport"] = held[p].files["passport"]
    BY <2>1, <2>2 DEF ContractInv, Backward
  <2>4. files["compose"] \in Config /\ files["passport"] \in Config \cup {Absent}
    BY <2>1, FilesRead DEF ShapeOK, Shape, TypeOK
  <2>5. Now' = [compose |-> files["compose"], passport |-> files["passport"],
                running |-> files["compose"]]
    BY <2>1, <2>3 DEF Now
  <2>6. CASE req[p].kind = "rollback"
    <3>1. <<files["compose"], files["passport"]>> \in Points
      BY <2>3 DEF Points
    <3>2. \E c \in Config, pass \in Config \cup {Absent} :
            /\ <<c, pass>> \in Points
            /\ Now' = [compose |-> c, passport |-> pass, running |-> c]
      BY ONLY <2>4, <2>5, <3>1, Zenon
    <3>3. verdict'[p] = "restored"
      BY <2>1, <2>6
    <3>4. Contract!Ends(p, "restored") /\ Deployment' = Now'
      BY <1>f, <2>1, <2>2, <3>3 DEF Contract!Ends
    <3>5. Contract!Restored(p)
      BY ONLY <3>2, <3>4, Zenon DEF Contract!Restored
    <3> QED
      BY <3>5 DEF Contract!Next
  <2>7. CASE req[p].kind # "rollback"
    <3>1. before[p].compose # Absent
      BY <2>1, <2>2, <2>7 DEF ContractInv, SnapshotHeld
    <3>2. files["compose"] = before[p].compose /\ files["passport"] = before[p].passport
      BY <2>1, <2>2, <2>3, <2>7, <3>1 DEF RollbackInv, Saved, AfterWrite
    <3>3. Now' = [FoundBy(p) EXCEPT !.running = FoundBy(p).compose]
      BY <2>5, <3>2 DEF FoundBy
    <3>4. Contract!Undone(p)
      BY <1>f, <2>1, <2>2, <2>7, <3>1, <3>3 DEF Contract!Undone, Contract!Ends, FoundBy
    <3> QED
      BY <3>4 DEF Contract!Next
  <2> QED
    BY <2>6, <2>7
<1>25. ASSUME NEW p \in Procs, RevertFail(p) PROVE Goal
  <2>1. /\ pc[p] \in {"restoring", "reverting"} /\ verdict'[p] = "torn"
        /\ UNCHANGED <<inside, store>>
    BY <1>25 DEF RevertFail, Exit, ShapeOK, TypeOK
  <2>2. p \in inside /\ verdict[p] = "none"
    BY <1>j, <2>1
  <2>3. Contract!Torn(p)
    BY <1>c, <1>f, <2>1, <2>2 DEF Contract!Torn, Contract!Ends
  <2> QED
    BY <2>3 DEF Contract!Next
<1>26. ASSUME NEW p \in Procs, ChildMove(p) PROVE Goal
  <2>1. pc[p] \in {"upping", "reverting"}
    BY <1>26 DEF ChildMove, ShapeOK, Shape
  <2>2. UNCHANGED <<inside, store, before, verdict>>
    BY <1>26 DEF ChildMove
  <2> QED
    BY <1>e, <1>j, <2>1, <2>2 DEF FoundBy
<1>27. ASSUME NEW p \in Procs, Die(p) PROVE Goal
  <2>1. Lock!Leave(p) /\ UNCHANGED <<store, running>>
    BY <1>27 DEF Die
  <2>2. files'["compose"] = files["compose"] /\ files'["passport"] = files["passport"]
    BY <1>27, SwapKeeps DEF Die, ShapeOK, TypeOK
  <2>3. Now' = Now
    BY <2>1, <2>2 DEF Now
  <2>4. Contract!Die(p)
    BY <1>c, <1>h, <2>1, <2>2, <2>3 DEF Contract!Die
  <2> QED
    BY <2>4 DEF Contract!Next
<1>28. ASSUME NEW c \in orphans, OrphanMove(c) \/ OrphanExit(c) PROVE Goal
  BY DEF NoOrphans
<1>29. CASE InstallerWrites
  <2>1. PICK sl \in {"env", "version", "descr"}, t \in Text :
          files' = [files EXCEPT ![sl] = t]
    BY <1>29 DEF InstallerWrites
  <2>2. files'["compose"] = files["compose"] /\ files'["passport"] = files["passport"]
    BY <2>1 DEF ShapeOK, TypeOK, Files, Slot
  <2> QED
    BY <1>29, <1>i, <2>2 DEF InstallerWrites
<1>30. CASE UNCHANGED vars
  BY <1>30, <1>i DEF vars
<1> QED
  BY <1>1, <1>2, <1>3, <1>4, <1>5, <1>6, <1>7, <1>8, <1>9, <1>10, <1>11, <1>12,
     <1>13, <1>14, <1>15, <1>16, <1>17, <1>18, <1>19, <1>20, <1>21, <1>22,
     <1>23, <1>24, <1>25, <1>26, <1>27, <1>28, <1>29, <1>30
  DEF Next, Working

(* Operations on an install take effect one after another, and each ends   *)
(* unchanged, deployed, undone, restored or torn as its result says.        *)
THEOREM EngineImplementsContract ==
  ASSUME ~PruneTears, ~OrphansSurvive
  PROVE  Spec => ImplementsContract
<1>1. Init => Contract!Init
  <2> SUFFICES ASSUME Init PROVE Contract!Init
    OBVIOUS
  <2>1. Mapped /\ inside = {}
    BY InitShape, ContractInvInit, Mapping DEF Init, Lock!Init
  <2>2. Now \in Contract!Install /\ Now.compose = Now.passport
    BY InitShape, NowType DEF Init, Now, Slot
  <2>3. Points = {}
    BY DEF Points, Init
  <2> QED
    BY <2>1, <2>2, <2>3 DEF Mapped, Contract!Init
<1>2. Init => NoOrphans
  BY DEF Init, NoOrphans
<1> QED
  BY <1>1, <1>2, RefineStep, ContractInvInit, ContractInvStep, NoOrphansStep,
     RollbackInit, RollbackStep, ShapeInvariant, PTL
  DEF Spec, ImplementsContract, Contract!Spec
====
