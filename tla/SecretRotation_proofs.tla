------------------------ MODULE SecretRotation_proofs ------------------------
(***************************************************************************)
(* Proofs about SecretRotation, for any processes, services, requests and  *)
(* bounds.  RotationShape says what a process's place in the code tells    *)
(* about the lock and its operation.  With it these are inductive:         *)
(*   RecordInv   for ServerSecretOnRecord                                  *)
(*   HealInv     for RotationHeals                                         *)
(*   SkewInv     for SkewNeedsAccident (with RecordInv and HealInv)        *)
(* TypeInv is RotationTypeOK and the bound a rotation has passed.          *)
(***************************************************************************)
EXTENDS SecretRotation, ConfigValidation, TLAPS

(* Where a process that has .env as it found it is inside the lock.         *)
Untouched ==
  {"asking", "rewriting", "snapping", "starting", "upping", "restoring", "choosing"}

InLock ==
  Untouched \cup {"filing", "listing", "recreating", "unchanged", "rotated",
                  "rewritten", "unseen", "up"}

ShapeOK ==
  /\ runs \in [Holders -> Nat \cup {Off}]
  /\ env \in Nat /\ secret \in Nat /\ newest \in Nat
  /\ pc \in [Procs -> Locations]
  /\ op \in [Procs -> {"none", "rotate", "rotate-only", "install", "deploy", "rollback"}]
  /\ found \in [Procs -> Nat]
  /\ todo \in [Procs -> SUBSET Holders]
  /\ snaps \subseteq Nat
  /\ \A p, q \in inside : p = q
  /\ inside \subseteq Procs
  /\ \A p \in Procs :
       /\ pc[p] \in InLock => p \in inside
       /\ pc[p] \in {"asking", "rewriting", "filing", "listing", "recreating"} => Rotating(p)

(* The secret of .env is the newest, the process in the lock has seen it    *)
(* until it changes it, and no home holds one that is on no record.         *)
RecordInv ==
  accidents \cap {"rollback", "race"} = {} =>
    /\ env = newest
    /\ secret \in {env} \cup saved
    /\ \A s \in Holders : runs[s] \in {Off, env} \cup saved
    /\ \A p \in Procs : pc[p] \in Untouched => found[p] = env
    /\ \A p \in Procs : pc[p] = "rewriting" => env \in saved

(* A rotation that is about to write has found the bound not reached.       *)
TypeInv ==
  /\ RotationTypeOK
  /\ \A p \in Procs : pc[p] = "rewriting" => newest < MaxRotations

Agree(s) == runs[s] \in {Off, env}

(* A rotation past its files has them in step, and recreates every holder   *)
(* that is not.                                                             *)
HealInv ==
  "race" \notin accidents =>
    \A p \in Procs :
      /\ pc[p] = "filing" => env = newest
      /\ pc[p] \in {"listing", "recreating", "rotated"} /\ FileReaders # {} => secret = env
      /\ pc[p] = "recreating" => \A s \in Holders \ todo[p] : Agree(s)
      /\ pc[p] = "rotated" => \A s \in Holders : Agree(s)

(* Without an accident only a rotation at work leaves a difference.         *)
SkewInv ==
  accidents = {} =>
    \/ /\ FileReaders # {} => secret = env
       /\ \A s \in Holders : Agree(s)
    \/ \E p \in inside : pc[p] \in {"filing", "listing", "recreating"}

-------------------------------------------------------------------------------
(* The shape holds at first.                                                *)
LEMMA ShapeInit == Init => ShapeOK
BY RotationConstants DEF Init, ShapeOK, Lock!Init, Locations, InLock, Untouched, Holders

(* Every step keeps the shape.                                              *)
LEMMA ShapeStep == ShapeOK /\ [Next]_vars => ShapeOK'
<1> SUFFICES ASSUME ShapeOK, [Next]_vars PROVE ShapeOK'
  OBVIOUS
<1> USE RotationConstants DEF ShapeOK, Locations, InLock, Untouched, Rotating, Step,
         Note, homes, records, locals, history, Holders
<1>1. ASSUME NEW p \in Procs, NEW r \in Requests \ {"install"}, Begin(p, r) PROVE ShapeOK'
  BY <1>1 DEF Begin, Opening, Lock!Enter
<1>2. ASSUME NEW p \in Procs, Return(p) PROVE ShapeOK'
  BY <1>2 DEF Return, Close
<1>3. ASSUME NEW p \in Procs, Refuse(p) PROVE ShapeOK'
  BY <1>3 DEF Refuse
<1>4. ASSUME NEW p \in Procs, Die(p) PROVE ShapeOK'
  BY <1>4 DEF Die, Close
<1>5. ASSUME NEW p \in Procs, KeepOld(p) PROVE ShapeOK'
  BY <1>5 DEF KeepOld
<1>6. ASSUME NEW p \in Procs, RewriteEnv(p) PROVE ShapeOK'
  BY <1>6 DEF RewriteEnv
<1>7. ASSUME NEW p \in Procs, RewriteFile(p) PROVE ShapeOK'
  <2>1. secret' \in Nat
    BY <1>7 DEF RewriteFile
  <2>2. CASE op[p] = "rotate"
    BY <1>7, <2>1, <2>2 DEF RewriteFile
  <2>3. CASE op[p] # "rotate"
    <3>1. pc[p] = "filing" /\ pc' = [pc EXCEPT ![p] = "rewritten"]
      BY <1>7, <2>3 DEF RewriteFile
    <3>2. /\ inside' = inside /\ env' = env /\ runs' = runs /\ newest' = newest
          /\ snaps' = snaps /\ op' = op /\ found' = found /\ todo' = todo
      BY <1>7 DEF RewriteFile
    <3> QED
      BY <2>1, <3>1, <3>2
  <2> QED
    BY <2>2, <2>3
<1>8. ASSUME NEW p \in Procs, ListHolders(p) \/ ListNothing(p) PROVE ShapeOK'
  <2>1. CASE ListHolders(p)
    BY <2>1 DEF ListHolders, Running
  <2>2. CASE ListNothing(p)
    BY <2>2 DEF ListNothing
  <2> QED
    BY <1>8, <2>1, <2>2
<1>9. ASSUME NEW p \in Procs, Recreate(p) PROVE ShapeOK'
  BY <1>9 DEF Recreate, Value
<1>10. ASSUME NEW p \in Procs, Recreated(p) PROVE ShapeOK'
  BY <1>10 DEF Recreated
<1>11. ASSUME NEW p \in Procs, RecreateFails(p) PROVE ShapeOK'
  BY <1>11 DEF RecreateFails
<1>12. ASSUME NEW p \in Procs, Snap(p) PROVE ShapeOK'
  BY <1>12 DEF Snap
<1>13. ASSUME NEW p \in Procs, Up(p) PROVE ShapeOK'
  BY <1>13 DEF Up
<1>14. ASSUME NEW p \in Procs, Restore(p) PROVE ShapeOK'
  BY <1>14 DEF Restore
<1>15. ASSUME NEW p \in Procs, Choose(p) PROVE ShapeOK'
  BY <1>15 DEF Choose
<1>16. ASSUME NEW p \in Procs, StartInstall(p) PROVE ShapeOK'
  BY <1>16 DEF StartInstall
<1>17. ASSUME NEW p \in Procs, InstallFile(p) \/ InstallEnv(p) PROVE ShapeOK'
  <2>1. CASE InstallFile(p)
    BY <2>1 DEF InstallFile
  <2>2. CASE InstallEnv(p)
    BY <2>2 DEF InstallEnv
  <2> QED
    BY <1>17, <2>1, <2>2
<1>18. ASSUME NEW p \in Procs, InstallDeploys(p) PROVE ShapeOK'
  BY <1>18 DEF InstallDeploys, Lock!Enter
<1>19. ASSUME NEW p \in Procs, InstallFails(p) PROVE ShapeOK'
  BY <1>19 DEF InstallFails
<1>20. ASSUME NEW s \in Holders, Restart(s) PROVE ShapeOK'
  BY <1>20 DEF Restart
<1>21. CASE UNCHANGED vars
  BY <1>21 DEF vars
<1> QED
  BY <1>1, <1>2, <1>3, <1>4, <1>5, <1>6, <1>7, <1>8, <1>9, <1>10, <1>11, <1>12, <1>13,
     <1>14, <1>15, <1>16, <1>17, <1>18, <1>19, <1>20, <1>21 DEF Next

(* At every moment the lock holds at most one process and a process's place *)
(* in the code tells whether it is inside and what it is doing.             *)
THEOREM RotationShape == Spec => []ShapeOK
BY ShapeInit, ShapeStep, PTL DEF Spec

(* Every step keeps the types.                                              *)
LEMMA TypeStep == ShapeOK /\ TypeInv /\ [Next]_vars => TypeInv'
<1> SUFFICES ASSUME ShapeOK, TypeInv, [Next]_vars PROVE TypeInv'
  OBVIOUS
<1> USE RotationConstants DEF ShapeOK, TypeInv, RotationTypeOK, Secrets, Locations, InLock,
         Untouched, Rotating, Step, Note, homes, records, locals, history, Holders
<1>1. ASSUME NEW p \in Procs, NEW r \in Requests \ {"install"}, Begin(p, r) PROVE TypeInv'
  BY <1>1 DEF Begin, Opening, Lock!Enter
<1>2. ASSUME NEW p \in Procs, Return(p) PROVE TypeInv'
  BY <1>2 DEF Return, Close
<1>3. ASSUME NEW p \in Procs, Refuse(p) PROVE TypeInv'
  BY <1>3 DEF Refuse
<1>4. ASSUME NEW p \in Procs, Die(p) PROVE TypeInv'
  BY <1>4 DEF Die, Close
<1>5. ASSUME NEW p \in Procs, KeepOld(p) PROVE TypeInv'
  <2>0. found[p] \in Secrets /\ saved \subseteq Secrets
    OBVIOUS
  <2>1. saved' = saved \cup {found[p]} /\ newest' = newest /\ newest < MaxRotations
    BY <1>5 DEF KeepOld
  <2>2. pc' = [pc EXCEPT ![p] = "rewriting"]
    BY <1>5 DEF KeepOld
  <2>3. UNCHANGED <<inside, env, secret, runs, snaps, op, found, todo, deaths, accidents>>
    BY <1>5 DEF KeepOld
  <2>4. saved' \subseteq Secrets
    BY ONLY <2>0, <2>1
  <2>5. pc' \in [Procs -> Locations] /\ \A q \in Procs : pc'[q] = "idle" => pc[q] = "idle"
    BY <2>2
  <2>6. \A q \in Procs : pc'[q] = "rewriting" => newest' < MaxRotations
    BY <2>1
  <2> QED
    BY <2>1, <2>3, <2>4, <2>5, <2>6
<1>6. ASSUME NEW p \in Procs, RewriteEnv(p) PROVE TypeInv'
  BY <1>6 DEF RewriteEnv
<1>7. ASSUME NEW p \in Procs, RewriteFile(p) PROVE TypeInv'
  <2>1. secret' \in Secrets /\ accidents' \subseteq {"incomplete", "rollback", "race"}
    BY <1>7 DEF RewriteFile
  <2>2. pc' \in [Procs -> Locations] /\ \A q \in Procs : pc'[q] = "rewriting" => pc[q] = "rewriting"
    BY <1>7 DEF RewriteFile
  <2>3. \A q \in Procs : pc'[q] = "idle" => pc[q] = "idle"
    BY <1>7 DEF RewriteFile
  <2>4. UNCHANGED <<inside, env, runs, saved, snaps, newest, op, found, todo, deaths>>
    BY <1>7 DEF RewriteFile
  <2> QED
    BY <2>1, <2>2, <2>3, <2>4
<1>8. ASSUME NEW p \in Procs, ListHolders(p) \/ ListNothing(p) PROVE TypeInv'
  <2>1. CASE ListHolders(p)
    BY <2>1 DEF ListHolders, Running
  <2>2. CASE ListNothing(p)
    BY <2>2 DEF ListNothing
  <2> QED
    BY <1>8, <2>1, <2>2
<1>9. ASSUME NEW p \in Procs, Recreate(p) PROVE TypeInv'
  BY <1>9 DEF Recreate, Value
<1>10. ASSUME NEW p \in Procs, Recreated(p) PROVE TypeInv'
  BY <1>10 DEF Recreated
<1>11. ASSUME NEW p \in Procs, RecreateFails(p) PROVE TypeInv'
  BY <1>11 DEF RecreateFails
<1>12. ASSUME NEW p \in Procs, Snap(p) PROVE TypeInv'
  BY <1>12 DEF Snap
<1>13. ASSUME NEW p \in Procs, Up(p) PROVE TypeInv'
  BY <1>13 DEF Up
<1>14. ASSUME NEW p \in Procs, Restore(p) PROVE TypeInv'
  BY <1>14 DEF Restore
<1>15. ASSUME NEW p \in Procs, Choose(p) PROVE TypeInv'
  BY <1>15 DEF Choose
<1>16. ASSUME NEW p \in Procs, "install" \in Requests, StartInstall(p) PROVE TypeInv'
  BY <1>16 DEF StartInstall
<1>17. ASSUME NEW p \in Procs, InstallFile(p) \/ InstallEnv(p) PROVE TypeInv'
  <2>1. CASE InstallFile(p)
    BY <2>1 DEF InstallFile, Races
  <2>2. CASE InstallEnv(p)
    BY <2>2 DEF InstallEnv, Races
  <2> QED
    BY <1>17, <2>1, <2>2
<1>18. ASSUME NEW p \in Procs, InstallDeploys(p) PROVE TypeInv'
  BY <1>18 DEF InstallDeploys, Lock!Enter
<1>19. ASSUME NEW p \in Procs, InstallFails(p) PROVE TypeInv'
  BY <1>19 DEF InstallFails
<1>20. ASSUME NEW s \in Holders, Restart(s) PROVE TypeInv'
  BY <1>20 DEF Restart
<1>21. CASE UNCHANGED vars
  BY <1>21 DEF vars
<1> QED
  BY <1>1, <1>2, <1>3, <1>4, <1>5, <1>6, <1>7, <1>8, <1>9, <1>10, <1>11, <1>12, <1>13,
     <1>14, <1>15, <1>16, <1>17, <1>18, <1>19, <1>20, <1>21 DEF Next

(* Types; a process at rest has no containers left to recreate.             *)
THEOREM RotationTypeCorrect == Spec => []RotationTypeOK
<1>1. Init => TypeInv
  BY RotationConstants DEF Init, TypeInv, RotationTypeOK, Secrets, Locations, Lock!Init, Holders
<1>2. TypeInv => RotationTypeOK
  BY DEF TypeInv
<1> QED
  BY <1>1, <1>2, TypeStep, RotationShape, PTL DEF Spec

-------------------------------------------------------------------------------
(* ServerSecretOnRecord                                                     *)

(* Every step keeps the secrets on record.                                  *)
LEMMA RecordStep == ShapeOK /\ RecordInv /\ [Next]_vars => RecordInv'
<1> SUFFICES ASSUME ShapeOK, RecordInv, [Next]_vars,
                    accidents' \cap {"rollback", "race"} = {}
             PROVE  RecordInv'
  BY DEF RecordInv
<1> USE DEF ShapeOK, RecordInv, Locations, InLock, Untouched, Rotating, Step, Note, homes,
         records, locals, history, Holders
<1>1. ASSUME NEW p \in Procs, NEW r \in Requests \ {"install"}, Begin(p, r) PROVE RecordInv'
  BY <1>1 DEF Begin, Opening, Lock!Enter
<1>2. ASSUME NEW p \in Procs, Return(p) PROVE RecordInv'
  BY <1>2 DEF Return, Close
<1>3. ASSUME NEW p \in Procs, Refuse(p) PROVE RecordInv'
  BY <1>3 DEF Refuse
<1>4. ASSUME NEW p \in Procs, Die(p) PROVE RecordInv'
  BY <1>4 DEF Die, Close
<1>5. ASSUME NEW p \in Procs, KeepOld(p) PROVE RecordInv'
  BY <1>5 DEF KeepOld
<1>6. ASSUME NEW p \in Procs, RewriteEnv(p) PROVE RecordInv'
  BY <1>6 DEF RewriteEnv
<1>7. ASSUME NEW p \in Procs, RewriteFile(p) PROVE RecordInv'
  BY <1>7 DEF RewriteFile
<1>8. ASSUME NEW p \in Procs, ListHolders(p) \/ ListNothing(p) PROVE RecordInv'
  <2>1. CASE ListHolders(p)
    BY <2>1 DEF ListHolders, Running
  <2>2. CASE ListNothing(p)
    BY <2>2 DEF ListNothing
  <2> QED
    BY <1>8, <2>1, <2>2
<1>9. ASSUME NEW p \in Procs, Recreate(p) PROVE RecordInv'
  BY <1>9 DEF Recreate, Value
<1>10. ASSUME NEW p \in Procs, Recreated(p) PROVE RecordInv'
  BY <1>10 DEF Recreated
<1>11. ASSUME NEW p \in Procs, RecreateFails(p) PROVE RecordInv'
  BY <1>11 DEF RecreateFails
<1>12. ASSUME NEW p \in Procs, Snap(p) PROVE RecordInv'
  BY <1>12 DEF Snap
<1>13. ASSUME NEW p \in Procs, Up(p) PROVE RecordInv'
  BY <1>13 DEF Up
<1>14. ASSUME NEW p \in Procs, Restore(p) PROVE RecordInv'
  BY <1>14 DEF Restore
<1>15. ASSUME NEW p \in Procs, Choose(p) PROVE RecordInv'
  BY <1>15 DEF Choose
<1>16. ASSUME NEW p \in Procs, StartInstall(p) PROVE RecordInv'
  BY <1>16 DEF StartInstall
<1>17. ASSUME NEW p \in Procs, InstallFile(p) \/ InstallEnv(p) PROVE RecordInv'
  BY <1>17 DEF InstallFile, InstallEnv, Races
<1>18. ASSUME NEW p \in Procs, InstallDeploys(p) PROVE RecordInv'
  BY <1>18 DEF InstallDeploys, Lock!Enter
<1>19. ASSUME NEW p \in Procs, InstallFails(p) PROVE RecordInv'
  BY <1>19 DEF InstallFails
<1>20. ASSUME NEW s \in Holders, Restart(s) PROVE RecordInv'
  BY <1>20 DEF Restart
<1>21. CASE UNCHANGED vars
  BY <1>21 DEF vars
<1> QED
  BY <1>1, <1>2, <1>3, <1>4, <1>5, <1>6, <1>7, <1>8, <1>9, <1>10, <1>11, <1>12, <1>13,
     <1>14, <1>15, <1>16, <1>17, <1>18, <1>19, <1>20, <1>21 DEF Next

(* Until a rollback across a rotation or a racing installer, every home of  *)
(* the secret holds one that .env or a .env.pre-rotation file records.      *)
THEOREM RecordInvariant == Spec => []RecordInv
<1>1. Init => RecordInv
  BY RotationConstants DEF Init, RecordInv, Untouched
<1> QED
  BY <1>1, RecordStep, RotationShape, PTL DEF Spec

(* The secret the server runs with is on disk, whatever dies or fails.      *)
THEOREM ServerSecretHolds == Spec => []ServerSecretOnRecord
<1>1. RecordInv => ServerSecretOnRecord
  BY RotationConstants DEF RecordInv, ServerSecretOnRecord, Holders
<1> QED
  BY <1>1, RecordInvariant, PTL

-------------------------------------------------------------------------------
(* RotationHeals                                                            *)

(* Every step keeps what a rotation has put in step.                        *)
LEMMA HealStep == ShapeOK /\ HealInv /\ [Next]_vars => HealInv'
<1> SUFFICES ASSUME ShapeOK, HealInv, [Next]_vars, "race" \notin accidents'
             PROVE  HealInv'
  BY DEF HealInv
<1> USE DEF ShapeOK, HealInv, Agree, Locations, InLock, Untouched, Rotating, Step, Note,
         homes, records, locals, history, Holders
<1>1. ASSUME NEW p \in Procs, NEW r \in Requests \ {"install"}, Begin(p, r) PROVE HealInv'
  BY <1>1 DEF Begin, Opening, Lock!Enter
<1>2. ASSUME NEW p \in Procs, Return(p) PROVE HealInv'
  BY <1>2 DEF Return, Close
<1>3. ASSUME NEW p \in Procs, Refuse(p) PROVE HealInv'
  BY <1>3 DEF Refuse
<1>4. ASSUME NEW p \in Procs, Die(p) PROVE HealInv'
  BY <1>4 DEF Die, Close
<1>5. ASSUME NEW p \in Procs, KeepOld(p) PROVE HealInv'
  BY <1>5 DEF KeepOld
<1>6. ASSUME NEW p \in Procs, RewriteEnv(p) PROVE HealInv'
  BY <1>6 DEF RewriteEnv
<1>7. ASSUME NEW p \in Procs, RewriteFile(p) PROVE HealInv'
  BY <1>7 DEF RewriteFile
<1>8. ASSUME NEW p \in Procs, ListHolders(p) \/ ListNothing(p) PROVE HealInv'
  <2>1. CASE ListHolders(p)
    BY <2>1 DEF ListHolders, Running
  <2>2. CASE ListNothing(p)
    BY <2>2 DEF ListNothing
  <2> QED
    BY <1>8, <2>1, <2>2
<1>9. ASSUME NEW p \in Procs, Recreate(p) PROVE HealInv'
  BY <1>9 DEF Recreate, Value
<1>10. ASSUME NEW p \in Procs, Recreated(p) PROVE HealInv'
  BY <1>10 DEF Recreated
<1>11. ASSUME NEW p \in Procs, RecreateFails(p) PROVE HealInv'
  BY <1>11 DEF RecreateFails
<1>12. ASSUME NEW p \in Procs, Snap(p) PROVE HealInv'
  BY <1>12 DEF Snap
<1>13. ASSUME NEW p \in Procs, Up(p) PROVE HealInv'
  BY <1>13 DEF Up
<1>14. ASSUME NEW p \in Procs, Restore(p) PROVE HealInv'
  BY <1>14 DEF Restore
<1>15. ASSUME NEW p \in Procs, Choose(p) PROVE HealInv'
  BY <1>15 DEF Choose
<1>16. ASSUME NEW p \in Procs, StartInstall(p) PROVE HealInv'
  BY <1>16 DEF StartInstall
<1>17. ASSUME NEW p \in Procs, InstallFile(p) \/ InstallEnv(p) PROVE HealInv'
  BY <1>17 DEF InstallFile, InstallEnv, Races
<1>18. ASSUME NEW p \in Procs, InstallDeploys(p) PROVE HealInv'
  BY <1>18 DEF InstallDeploys, Lock!Enter
<1>19. ASSUME NEW p \in Procs, InstallFails(p) PROVE HealInv'
  BY <1>19 DEF InstallFails
<1>20. ASSUME NEW s \in Holders, Restart(s) PROVE HealInv'
  BY <1>20 DEF Restart
<1>21. CASE UNCHANGED vars
  BY <1>21 DEF vars
<1> QED
  BY <1>1, <1>2, <1>3, <1>4, <1>5, <1>6, <1>7, <1>8, <1>9, <1>10, <1>11, <1>12, <1>13,
     <1>14, <1>15, <1>16, <1>17, <1>18, <1>19, <1>20, <1>21 DEF Next

(* A rotation that reports success leaves .env, the file and every running  *)
(* holder with one secret, unless an installer wrote under it.              *)
THEOREM RotationHealsHolds == Spec => []RotationHeals
<1>1. Init => HealInv
  BY DEF Init, HealInv
<1>2. HealInv => RotationHeals
  BY DEF HealInv, RotationHeals, Agree
<1> QED
  BY <1>1, <1>2, HealStep, RotationShape, PTL DEF Spec

-------------------------------------------------------------------------------
(* SkewNeedsAccident                                                        *)

(* Every step without an accident keeps the homes in step.                  *)
LEMMA SkewStep ==
  ShapeOK /\ RecordInv /\ HealInv /\ SkewInv /\ [Next]_vars => SkewInv'
<1> SUFFICES ASSUME ShapeOK, RecordInv, HealInv, SkewInv, [Next]_vars, accidents' = {}
             PROVE  SkewInv'
  BY DEF SkewInv
<1> USE DEF ShapeOK, SkewInv, Agree, Locations, InLock, Untouched, Rotating, Step, Note,
         homes, records, locals, history, Holders
<1>1. ASSUME NEW p \in Procs, NEW r \in Requests \ {"install"}, Begin(p, r) PROVE SkewInv'
  BY <1>1 DEF Begin, Opening, Lock!Enter
<1>2. ASSUME NEW p \in Procs, Return(p) PROVE SkewInv'
  BY <1>2 DEF Return, Close
<1>3. ASSUME NEW p \in Procs, Refuse(p) PROVE SkewInv'
  BY <1>3 DEF Refuse
<1>4. ASSUME NEW p \in Procs, Die(p) PROVE SkewInv'
  BY <1>4 DEF Die, Close
<1>5. ASSUME NEW p \in Procs, KeepOld(p) PROVE SkewInv'
  BY <1>5 DEF KeepOld
<1>6. ASSUME NEW p \in Procs, RewriteEnv(p) PROVE SkewInv'
  BY <1>6 DEF RewriteEnv
<1>7. ASSUME NEW p \in Procs, RewriteFile(p) PROVE SkewInv'
  BY <1>7 DEF RewriteFile
<1>8. ASSUME NEW p \in Procs, ListHolders(p) \/ ListNothing(p) PROVE SkewInv'
  <2>1. CASE ListHolders(p)
    BY <2>1 DEF ListHolders, Running
  <2>2. CASE ListNothing(p)
    BY <2>2 DEF ListNothing, Running, HealInv
  <2> QED
    BY <1>8, <2>1, <2>2
<1>9. ASSUME NEW p \in Procs, Recreate(p) PROVE SkewInv'
  BY <1>9 DEF Recreate, Value
<1>10. ASSUME NEW p \in Procs, Recreated(p) PROVE SkewInv'
  BY <1>10 DEF Recreated, HealInv
<1>11. ASSUME NEW p \in Procs, RecreateFails(p) PROVE SkewInv'
  BY <1>11 DEF RecreateFails
<1>12. ASSUME NEW p \in Procs, Snap(p) PROVE SkewInv'
  BY <1>12 DEF Snap
<1>13. ASSUME NEW p \in Procs, Up(p) PROVE SkewInv'
  BY <1>13 DEF Up
<1>14. ASSUME NEW p \in Procs, Restore(p) PROVE SkewInv'
  BY <1>14 DEF Restore, RecordInv
<1>15. ASSUME NEW p \in Procs, Choose(p) PROVE SkewInv'
  BY <1>15 DEF Choose
<1>16. ASSUME NEW p \in Procs, StartInstall(p) PROVE SkewInv'
  BY <1>16 DEF StartInstall
<1>17. ASSUME NEW p \in Procs, InstallFile(p) \/ InstallEnv(p) PROVE SkewInv'
  BY <1>17 DEF InstallFile, InstallEnv, Races
<1>18. ASSUME NEW p \in Procs, InstallDeploys(p) PROVE SkewInv'
  BY <1>18 DEF InstallDeploys, Lock!Enter
<1>19. ASSUME NEW p \in Procs, InstallFails(p) PROVE SkewInv'
  BY <1>19 DEF InstallFails
<1>20. ASSUME NEW s \in Holders, Restart(s) PROVE SkewInv'
  BY <1>20 DEF Restart, HealInv
<1>21. CASE UNCHANGED vars
  BY <1>21 DEF vars
<1> QED
  BY <1>1, <1>2, <1>3, <1>4, <1>5, <1>6, <1>7, <1>8, <1>9, <1>10, <1>11, <1>12, <1>13,
     <1>14, <1>15, <1>16, <1>17, <1>18, <1>19, <1>20, <1>21 DEF Next

(* While nothing went wrong with a rotation, a free lock means that .env,   *)
(* the secret file and every running holder have one secret.                *)
THEOREM SkewNeedsAccidentHolds == Spec => []SkewNeedsAccident
<1>1. Init => SkewInv
  BY DEF Init, SkewInv, Agree
<1>2. SkewInv => SkewNeedsAccident
  BY DEF SkewInv, SkewNeedsAccident, Agree
<1>3. Init => HealInv
  BY DEF Init, HealInv
<1> QED
  BY <1>1, <1>2, <1>3, SkewStep, HealStep, RecordInvariant, RotationShape, PTL DEF Spec

-----------------------------------------------------------------------------
(***************************************************************************)
(* ConfigValidation                                                         *)
(***************************************************************************)

(* Values a setting has, and what is deployed.                              *)
HostShape ==
  /\ settings # Nothing => DOMAIN settings = Setting
  /\ \A k \in Setting : SettingOf(k) \in {"", "good", "weak", "hole"}
  /\ stack # Nothing => stack \in Deployable
  /\ DOMAIN image = UNION Deployable
  /\ \A s \in UNION Deployable : image[s] \in Nat
  /\ release \in Nat

(* A validation that found no error speaks of the host as it is.            *)
ValidationInv == HostShape /\ OkMeansStarts

(* A host that has changed since is not validated.                          *)
LEMMA ChangedKeeps == Changed => OkMeansStarts'
<1>1. Changed => validated'.made = FALSE
  BY DEF Changed, Unvalidated
<1> QED
  BY <1>1 DEF OkMeansStarts

(* Neither .env nor a secret is there, and nothing is deployed.              *)
LEMMA ValidationInvInit == ValidationInit => ValidationInv
BY DEF ValidationInit, ValidationInv, HostShape, OkMeansStarts, SettingOf, Unvalidated

(* The shape is that of every step.                                         *)
LEMMA HostShapeStep ==
  ASSUME HostShape, ValidationNext
  PROVE  HostShape'
<1>1. ASSUME NEW services \in Deployable, InstallWrites(services)
      PROVE  HostShape'
  <2>1. DOMAIN settings' = Setting
        /\ \A k \in Setting : settings'[k] \in {"", "good", "weak", "hole"}
    BY <1>1 DEF InstallWrites, EnvStep, HostShape
  <2>2. UNCHANGED <<stack, image, release>>
    BY <1>1 DEF InstallWrites
  <2>3. QED
    BY <2>1, <2>2 DEF HostShape, SettingOf
<1>2. ASSUME NEW services \in Deployable, DeploySucceeds(services)
      PROVE  HostShape'
  <2>1. UNCHANGED <<settings, release>> /\ stack' = services /\ image' = Started(services)
    BY <1>2 DEF DeploySucceeds
  <2>2. QED
    BY <2>1 DEF HostShape, SettingOf, Started, Deployed
<1>3. ASSUME NEW services \in Deployable, DeployFailsHalfway(services)
      PROVE  HostShape'
  <2>1. UNCHANGED <<settings, release>> /\ stack' \in {stack, services}
    BY <1>3 DEF DeployFailsHalfway
  <2>2. image' = image \/ \E up \in SUBSET services : image' = Started({s \in up : CanStart(s)})
    BY <1>3 DEF DeployFailsHalfway
  <2>3. DOMAIN image' = UNION Deployable /\ \A s \in UNION Deployable : image'[s] \in Nat
    <3>1. CASE image' = image
      BY <3>1 DEF HostShape
    <3>2. ASSUME NEW up \in SUBSET services, image' = Started({s \in up : CanStart(s)})
          PROVE  DOMAIN image' = UNION Deployable
                 /\ \A s \in UNION Deployable : image'[s] \in Nat
      <4> DEFINE begun == {s \in up : CanStart(s)}
      <4> HIDE DEF begun
      <4>1. image' = Started(begun)
        BY <3>2 DEF begun
      <4>2. QED
        BY <4>1 DEF HostShape, Started, Deployed
    <3>3. QED
      BY <2>2, <3>1, <3>2
  <2>4. QED
    BY <2>1, <2>3 DEF HostShape, SettingOf
<1>4. ASSUME NEW k \in Setting, NEW v \in {"", "weak", "hole"}, EditEnv(k, v)
      PROVE  HostShape'
  <2>1. /\ settings # Nothing /\ settings' = [settings EXCEPT ![k] = v]
        /\ UNCHANGED <<stack, image, release>>
    BY <1>4 DEF EditEnv
  <2>2. DOMAIN settings' = Setting /\ \A j \in Setting : settings'[j] \in {v, settings[j]}
    BY <2>1 DEF HostShape
  <2>3. QED
    BY <2>1, <2>2 DEF HostShape, SettingOf
<1>5. ASSUME NEW f \in SecretPath, LoseFiles(f)
      PROVE  HostShape'
  BY <1>5 DEF LoseFiles, HostShape, SettingOf
<1>6. ASSUME NEW s \in Deployed, Crash(s)
      PROVE  HostShape'
  BY <1>6 DEF Crash, HostShape, SettingOf, Deployed
<1>7. CASE NewRelease
  <2>1. UNCHANGED <<settings, stack, image>> /\ release' = release + 1
    BY <1>7 DEF NewRelease
  <2>2. release \in Nat
    BY DEF HostShape
  <2>3. release' \in Nat
    BY <2>1, <2>2
  <2>4. QED
    BY <2>1, <2>3 DEF HostShape, SettingOf
<1>8. ASSUME NEW root \in BOOLEAN, NEW docker \in {"unasked", "silent", "blind", "answers"},
             Validate(root, docker)
      PROVE  HostShape'
  BY <1>8 DEF Validate, HostShape, SettingOf
<1> QED
  BY <1>1, <1>2, <1>3, <1>4, <1>5, <1>6, <1>7, <1>8 DEF ValidationNext

(* A validation vouches for what it has looked at, which is what a start     *)
(* needs but for what OkMeansStarts leaves out.                             *)
LEMMA ValidateVouches ==
  ASSUME HostShape, NEW root \in BOOLEAN,
         NEW docker \in {"unasked", "silent", "blind", "answers"}, Validate(root, docker)
  PROVE  OkMeansStarts'
<1> DEFINE drifts == docker # "unasked" /\ stack # Nothing
           seen == RunningDigests(docker)
           readEnv == settings # Nothing /\ (root \/ envMode # "0600")
<1>1. /\ UNCHANGED <<settings, secretAt, stack, image, release>>
      /\ validated'.errors = Preamble(root) \cup (IF readEnv THEN EnvHealth ELSE {})
                               \cup (IF stack = Nothing THEN {} ELSE SecretFiles(root))
                               \cup (IF drifts THEN DriftErrors(seen) ELSE {})
      /\ validated'.root = root
      /\ validated'.drift = (drifts /\ docker = "answers")
  BY DEF Validate
<1> SUFFICES ASSUME validated'.errors = {}, NEW s \in stack
    PROVE  /\ \A k \in Required[s] : SettingOf(k) \notin {"", "hole"}
           /\ \A k \in Secret[s] : SettingOf(k) = "good"
           /\ root => \A f \in DbFile[s] : secretAt[f] # "missing"
           /\ validated'.drift => image[s] \in {0, release}
  BY <1>1 DEF OkMeansStarts, SettingOf
<1>2. /\ Preamble(root) = {}
      /\ readEnv => EnvHealth = {}
      /\ stack # Nothing => SecretFiles(root) = {}
      /\ drifts => DriftErrors(seen) = {}
  BY <1>1
<1> HIDE DEF drifts, seen, readEnv
<1>3. stack # Nothing /\ settings # Nothing /\ (root \/ envMode # "0600")
  BY <1>2 DEF Preamble
<1>4. stack \in Deployable /\ s \in UNION Deployable
  BY <1>3 DEF HostShape
<1>5. EnvHealth = {}
  BY <1>2, <1>3 DEF readEnv
<1>6. RequiredMissing = {} /\ ~\E k \in Setting : SettingOf(k) = "hole"
  BY <1>3, <1>5 DEF EnvHealth
<1>7. ~\E k \in Secret[s] : Weak(s, k)
  BY <1>3, <1>5 DEF EnvHealth
<1>8. \A k \in Required[s] : k \in Setting /\ SettingOf(k) \notin {"", "hole"}
  <2>1. ASSUME NEW k \in Required[s] PROVE SettingOf(k) # ""
    BY <1>6 DEF RequiredMissing
  <2>2. QED
    BY <1>4, <1>6, <2>1, ValidationAssumption
<1>9. \A k \in Secret[s] : SettingOf(k) = "good"
  <2>1. ASSUME NEW k \in Secret[s] PROVE SettingOf(k) = "good"
    <3>1. k \in Setting /\ (k \in Required[s] \/ k \in Defaulted[s])
      BY <1>4, ValidationAssumption
    <3>2. SettingOf(k) \notin {"weak", "hole", ""}
      BY <1>6, <1>7, <1>8, <3>1 DEF Weak
    <3>3. QED
      BY <3>1, <3>2 DEF HostShape
  <2>2. QED
    BY <2>1
<1>10. ASSUME root
       PROVE  \A f \in DbFile[s] : secretAt[f] # "missing"
  <2>1. ASSUME NEW f \in DbFile[s] PROVE secretAt[f] # "missing"
    <3>1. SecretFileFinding(f, root) = {}
      BY <1>2, <1>3 DEF SecretFiles
    <3>2. QED
      BY <1>10, <3>1 DEF SecretFileFinding
  <2>2. QED
    BY <2>1
<1>11. ASSUME validated'.drift PROVE image[s] \in {0, release}
  <2>1. drifts /\ docker = "answers"
    BY <1>1, <1>11 DEF drifts
  <2>2. seen[s] = image[s] /\ image[s] \in Nat
    BY <1>4, <2>1 DEF seen, RunningDigests, Deployed, HostShape
  <2>3. seen[s] \in {0, Untold, release}
    BY <1>2, <2>1 DEF DriftErrors
  <2>4. QED
    BY <2>2, <2>3, ValidationAssumption
<1> QED
  BY <1>8, <1>9, <1>10, <1>11

(* `agmind config validate` without an error: what is selected has its        *)
(* settings, no weak secret, something in its database files' places if root  *)
(* looked, and no other release if images were compared, until a change.      *)
THEOREM ValidationMeansStart == ValidationSpec => []OkMeansStarts
<1>1. ASSUME ValidationInv, [ValidationNext]_validationVars
      PROVE  ValidationInv'
  <2>1. CASE UNCHANGED validationVars
    BY <1>1, <2>1 DEF validationVars, ValidationInv, HostShape, OkMeansStarts, SettingOf
  <2>2. CASE ValidationNext
    <3>1. HostShape'
      BY <1>1, <2>2, HostShapeStep DEF ValidationInv
    <3>2. \/ Changed
          \/ \E root \in BOOLEAN, docker \in {"unasked", "silent", "blind", "answers"} :
               Validate(root, docker)
      BY <2>2 DEF ValidationNext, InstallWrites, DeploySucceeds, DeployFailsHalfway, EditEnv,
                  LoseFiles, Crash, NewRelease, Upset
    <3>3. QED
      BY <1>1, <3>1, <3>2, ChangedKeeps, ValidateVouches DEF ValidationInv
  <2>3. QED
    BY <1>1, <2>1, <2>2
<1>2. ValidationInv => OkMeansStarts
  BY DEF ValidationInv
<1> QED
  BY <1>1, <1>2, ValidationInvInit, PTL DEF ValidationSpec
=============================================================================
