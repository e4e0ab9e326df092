----------------------------- MODULE DeployEngine -----------------------------
(***************************************************************************)
(* The deploy engine of agmind/deploy: `deploy --apply`, `upgrade --apply` *)
(* and `rollback` on one install directory, run by several processes       *)
(* behind AbstractLock (which DeployLock implements), with the snapshot    *)
(* store they save into and restore from.  A process may die at any step;  *)
(* `docker compose up` runs as a child that changes one container at a     *)
(* time; the installer's configuration steps write without the lock.       *)
(*                                                                         *)
(* Data is abstract: a rendered compose file is a Config, the image (or    *)
(* Off) of every service; the passport deploy-state.json is the Config it  *)
(* was written for; the other files of the install hold a Text.            *)
(***************************************************************************)
EXTENDS Naturals, Sequences, FiniteSets

CONSTANTS
  Procs,          \* the operators' processes
  Svc,            \* service names
  Stateful,       \* services with data sources to back up
  Image,          \* image references
  SickImage,      \* images whose containers never become healthy
  Off,            \* the service is not in the file / has no container
  Config,         \* the compose files that can be rendered
  Text,           \* contents of .env, version.env and the descriptors
  Absent,         \* the file does not exist
  NoSnap,         \* a process holds no snapshot
  NoChild,        \* a process has no compose child
  NoReq,          \* a process runs no operation
  Requests,       \* the requests users make
  Legacy,         \* the selections a setup state of the wizard may hold
  Retention,      \* complete snapshots kept by a prune
  MaxSnaps,       \* bound: no apply begins once so many were taken
  MaxEdits,       \* bound: file writes by the installer
  MaxDeaths,      \* bound: processes that die inside the lock
  PruneTears,     \* may a removal that fails leave part of a snapshot?
  OrphansSurvive  \* may a compose child outlive the process that started it?

ASSUME EngineConstants ==
  /\ Stateful \subseteq Svc
  /\ SickImage \subseteq Image
  /\ Off \notin Image
  /\ Config \subseteq [Svc -> Image \cup {Off}]
  /\ Legacy \subseteq SUBSET Svc
  /\ Absent \notin Config \cup Text
  /\ NoChild \notin Config
  /\ Retention \in Nat \ {0}
  /\ MaxSnaps \in Nat
  /\ MaxEdits \in Nat
  /\ MaxDeaths \in Nat
  /\ PruneTears \in BOOLEAN
  /\ OrphansSurvive \in BOOLEAN

VARIABLES
  inside,    \* the processes inside the deploy lock
  files,     \* the install directory: contents of each slot
  running,   \* the image each service's container runs
  store,     \* complete snapshots (meta.json is there)
  nextId,    \* snapshot ids are timestamps: they only grow
  edits,     \* files written by the installer so far
  deaths,    \* processes that died inside the lock so far
  pc,        \* where each process is
  req,       \* what it was asked to do
  held,      \* the snapshot it is saving or will restore
  at,        \* the next slot to copy
  child,     \* the Config its compose child is bringing up
  orphans,   \* Configs of compose children whose parent is dead
  verdict,   \* how its operation ended
  before,    \* history: compose, passport and containers when it got the lock,
             \* and whether the guards saw a fresh backup marker
  verified   \* history: the Configs that passed the health wait

Lock == INSTANCE AbstractLock

storeVars == <<store, nextId>>
composeVars == <<running, child, orphans>>
opVars == <<req, before>>
budgets == <<edits, deaths>>
vars == <<inside, files, storeVars, composeVars, budgets, opVars,
          pc, held, at, verdict, verified>>

Services(c) == {s \in Svc : c[s] # Off}

(* The services a compose file or passport names; a missing one names none. *)
Named(f) == IF f = Absent THEN {} ELSE Services(f)

Slot == {"compose", "descr", "env", "version", "passport"}

SaveOrder == <<"compose", "descr", "env", "version", "passport">>
\* Bug: a rollback does not restore the passport.
RestoreOrderNoPassport == <<"compose", "env", "version", "descr">>

RestoreOrder == <<"compose", "env", "version", "passport", "descr">>

(* Files a rollback removes when the snapshot has none; it leaves the       *)
(* others as they are.                                                      *)
DropWhenMissing == {"version", "passport"}

Content(sl) == (IF sl \in {"compose", "passport"} THEN Config ELSE Text) \cup {Absent}

Files == {f \in [Slot -> Config \cup Text \cup {Absent}] : \A sl \in Slot : f[sl] \in Content(sl)}

Snapshot == [id : Nat, files : Files]

ASSUME EngineNoSnap == NoSnap \notin Snapshot

Stack == [Svc -> Image \cup {Off}]

Healthy(run) == \A s \in Svc : run[s] \notin SickImage

(* What a user asks for.  `upgrade --apply` is an apply of the services the *)
(* passport records, without prompts or permission to remove.               *)
Request ==
  {r \in [kind : {"apply", "upgrade", "rollback"}, target : Config,
          noPrompt : BOOLEAN, allowRemoval : BOOLEAN, skipBackup : BOOLEAN] :
     r.kind = "upgrade" => r.noPrompt /\ ~r.allowRemoval}

ASSUME EngineRequests == Requests \subseteq Request

(* The host is fresh, or carries an earlier deploy that ended well.         *)
Init ==
  /\ Lock!Init
  /\ \E c \in {k \in Config : Healthy(k)} \cup {Absent}, t \in Text \cup {Absent} :
       /\ files = [sl \in Slot |-> IF sl \in {"compose", "passport"} THEN c ELSE t]
       /\ running = [s \in Svc |-> IF c = Absent THEN Off ELSE c[s]]
       /\ verified = {c} \ {Absent}
       /\ c # Absent => t # Absent
  /\ store = {} /\ nextId = 1
  /\ edits = 0 /\ deaths = 0
  /\ pc = [p \in Procs |-> "idle"]
  /\ req = [p \in Procs |-> NoReq]
  /\ held = [p \in Procs |-> NoSnap]
  /\ at = [p \in Procs |-> 1]
  /\ child = [p \in Procs |-> NoChild]
  /\ orphans = {}
  /\ verdict = [p \in Procs |-> "none"]
  /\ before = [p \in Procs |-> NoReq]

Goto(p, l) == pc' = [pc EXCEPT ![p] = l]

Exit(p, v) == Goto(p, "exit") /\ verdict' = [verdict EXCEPT ![p] = v]

Step(p, from, to) == pc[p] = from /\ Goto(p, to) /\ UNCHANGED verdict
-------------------------------------------------------------------------------
\* Bug: `agmind rollback` does not ask for the lock.
AdmitRollbackUnlocked(p, r) ==
  /\ IF r.kind = "rollback" THEN inside' = inside \cup {p} ELSE Lock!Enter(p)
  /\ Goto(p, IF r.kind = "rollback" THEN "choosing" ELSE "checking")
  /\ req' = [req EXCEPT ![p] = r]
  /\ before' = [before EXCEPT ![p] =
       [compose |-> files["compose"], passport |-> files["passport"],
        running |-> running, evidence |-> FALSE]]
  /\ UNCHANGED <<files, storeVars, composeVars, budgets, held, at, verdict, verified>>

(* A process gets the lock for a request; one that finds it taken is told   *)
(* "deploy already in progress", and that changes nothing.                  *)
Admit(p, r) ==
  /\ Lock!Enter(p)
  /\ Goto(p, IF r.kind = "rollback" THEN "choosing" ELSE "checking")
  /\ req' = [req EXCEPT ![p] = r]
  /\ before' = [before EXCEPT ![p] =
       [compose |-> files["compose"], passport |-> files["passport"],
        running |-> running, evidence |-> FALSE]]
  /\ UNCHANGED <<files, storeVars, composeVars, budgets, held, at, verdict, verified>>

Begin(p) ==
  /\ pc[p] = "idle"
  /\ \E r \in Requests :
       /\ r.kind = "apply" => nextId <= MaxSnaps
       /\ r.kind # "upgrade"
       /\ Admit(p, r)

(* `upgrade --apply` reads the services of the passport BEFORE it asks for  *)
(* the lock.  Without a passport it takes those of the wizard's setup state, *)
(* or refuses when there is none.                                           *)
ReadBaseline(p) ==
  /\ Step(p, "idle", "locking")
  /\ nextId <= MaxSnaps
  /\ \E r \in Requests :
       /\ r.kind = "upgrade"
       /\ Services(r.target) \in
            IF files["passport"] = Absent THEN Legacy ELSE {Services(files["passport"])}
       /\ req' = [req EXCEPT ![p] = r]
  /\ UNCHANGED <<inside, files, storeVars, composeVars, budgets,
                 before, held, at, verified>>

BeginUpgrade(p) ==
  /\ pc[p] = "locking"
  /\ Admit(p, req[p])

TurnedAway(p) ==
  /\ Step(p, "locking", "idle")
  /\ inside # {}
  /\ req' = [req EXCEPT ![p] = NoReq]
  /\ UNCHANGED <<inside, files, storeVars, composeVars, budgets, before, held, at, verified>>

(* The with-statement ends and the result is returned.                      *)
Return(p) ==
  /\ pc[p] = "exit"
  /\ Lock!Leave(p)
  /\ Goto(p, "idle")
  /\ req' = [req EXCEPT ![p] = NoReq]
  /\ held' = [held EXCEPT ![p] = NoSnap]
  /\ at' = [at EXCEPT ![p] = 1]
  /\ before' = [before EXCEPT ![p] = NoReq]
  /\ verdict' = [verdict EXCEPT ![p] = "none"]
  /\ UNCHANGED <<files, storeVars, composeVars, budgets, verified>>

-------------------------------------------------------------------------------
(* _deploy_impl up to its first mutation.                                   *)

(* ComposeDiff: services gone from the file on disk, and services whose     *)
(* image or configuration differ (a removed one among them).                *)
Removed(p) == Named(files["compose"]) \ Services(req[p].target)

Changed(p) == {s \in Named(files["compose"]) : req[p].target[s] # files["compose"][s]}

(* G.1: prompt before removing a service; `yes` is the user's answer.       *)
RemovalConfirmed(p, yes) == Removed(p) # {} => req[p].noPrompt \/ yes

\* Bug: an automated apply may narrow what is deployed.
NotNarrowedUnlessAutomated(p) ==
  \/ req[p].allowRemoval
  \/ req[p].noPrompt
  \/ Named(files["passport"]) \subseteq Services(req[p].target)

(* D-04: never drop a service of the passport without --allow-removal.      *)
NotNarrowed(p) ==
  \/ req[p].allowRemoval
  \/ Named(files["passport"]) \subseteq Services(req[p].target)

(* D-06: a stateful service is touched only with a data backup less than a  *)
(* day old (`fresh`; the engine only reads the marker, so its age is an     *)
(* input), the flag that waives it, or the user's consent.                  *)
BackupCovered(p, fresh, yes) ==
  Changed(p) \cap Stateful # {} =>
    fresh \/ req[p].skipBackup \/ (~req[p].noPrompt /\ yes)

MayProceed(p, fresh) ==
  \E yes1, yes2 \in BOOLEAN :
    RemovalConfirmed(p, yes1) /\ NotNarrowed(p) /\ BackupCovered(p, fresh, yes2)

(* data_backup_is_fresh: no marker, one that cannot be read and an old one   *)
(* are all the same "no"; it never raises.                                  *)
FreshMarker(p) == IF Changed(p) \cap Stateful = {} THEN {FALSE} ELSE BOOLEAN

(* The guards let the apply through and `docker compose config` accepts the *)
(* file.  A snapshot is taken only where a compose file exists.             *)
Proceed(p) ==
  /\ Step(p, "checking", IF files["compose"] = Absent THEN "writing" ELSE "saving")
  /\ \E fresh \in FreshMarker(p) :
       /\ MayProceed(p, fresh)
       /\ before' = [before EXCEPT ![p].evidence = fresh]
  /\ UNCHANGED <<inside, files, storeVars, composeVars, budgets,
                 req, held, at, verified>>

(* Unknown names, a host-port conflict, a failed render, a guard or a       *)
(* declined prompt, an install directory that cannot be made, a compose     *)
(* file that does not validate: the apply ends and nothing has changed.     *)
Refuse(p) ==
  /\ pc[p] = "checking"
  /\ Exit(p, "unchanged")
  /\ UNCHANGED <<inside, files, storeVars, composeVars, budgets,
                 opVars, held, at, verified>>

-------------------------------------------------------------------------------
(* SnapshotManager.save: the directory, then one file after another, then   *)
(* meta.json, then a prune.                                                 *)

NoFiles == [sl \in Slot |-> Absent]

SnapOpen(p) ==
  /\ Step(p, "saving", "copying")
  /\ held' = [held EXCEPT ![p] = [id |-> nextId, files |-> NoFiles]]
  /\ nextId' = nextId + 1
  /\ at' = [at EXCEPT ![p] = 1]
  /\ UNCHANGED <<inside, files, store, composeVars, budgets, opVars, verified>>

\* Bug: the passport is not part of the snapshot.
SnapCopyNoPassport(p) ==
  /\ Step(p, "copying", "copying")
  /\ at[p] <= Len(SaveOrder)
  /\ held' = IF SaveOrder[at[p]] = "passport" THEN held
             ELSE [held EXCEPT ![p].files[SaveOrder[at[p]]] = files[SaveOrder[at[p]]]]
  /\ at' = [at EXCEPT ![p] = at[p] + 1]
  /\ UNCHANGED <<inside, files, storeVars, composeVars, budgets, opVars, verified>>

SnapCopy(p) ==
  /\ Step(p, "copying", "copying")
  /\ at[p] <= Len(SaveOrder)
  /\ held' = [held EXCEPT ![p].files[SaveOrder[at[p]]] = files[SaveOrder[at[p]]]]
  /\ at' = [at EXCEPT ![p] = at[p] + 1]
  /\ UNCHANGED <<inside, files, storeVars, composeVars, budgets, opVars, verified>>

SnapSeal(p) ==
  /\ Step(p, "copying", "pruning")
  /\ at[p] > Len(SaveOrder)
  /\ store' = store \cup {held[p]}
  /\ UNCHANGED <<inside, files, nextId, composeVars, budgets, opVars,
                 held, at, verified>>

Newer(sn) == {o \in store : o.id > sn.id}

Newest == {sn \in store : Cardinality(Newer(sn)) < Retention}

(* What is left of a snapshot that could not be removed: it is still listed, *)
(* whole or without some of its files.                                      *)
Remains(sn) ==
  IF PruneTears
  THEN {[sn EXCEPT !.files = [sl \in Slot |-> IF sl \in gone THEN Absent ELSE sn.files[sl]]] :
          gone \in SUBSET Slot}
  ELSE {sn}

(* prune_old: everything but the newest goes, unless its removal fails.     *)
Prune(p) ==
  /\ Step(p, "pruning", "writing")
  /\ \E stuck \in SUBSET (store \ Newest) :
       \E left \in [stuck -> UNION {Remains(sn) : sn \in stuck}] :
         /\ \A sn \in stuck : left[sn] \in Remains(sn)
         /\ store' = Newest \cup {left[sn] : sn \in stuck}
  /\ UNCHANGED <<inside, files, nextId, composeVars, budgets, opVars,
                 held, at, verified>>

(* An error while saving: the incomplete directory is removed (or cannot    *)
(* be), and the apply ends before it has changed anything.                  *)
SnapFail(p) ==
  /\ pc[p] \in {"saving", "copying"}
  /\ Exit(p, "unchanged")
  /\ held' = [held EXCEPT ![p] = NoSnap]
  /\ UNCHANGED <<inside, files, store, nextId, composeVars, budgets,
                 opVars, at, verified>>
-------------------------------------------------------------------------------
(* Write, pull, up, wait, record.  A failure (a cancel counts as one) goes  *)
(* back to the snapshot; a first deploy has none and ends as it stands.     *)

Fail(p) ==
  IF held[p] = NoSnap
  THEN Exit(p, "torn") /\ UNCHANGED at
  ELSE Goto(p, "restoring") /\ at' = [at EXCEPT ![p] = 1] /\ UNCHANGED verdict

WriteCompose(p) ==
  /\ Step(p, "writing", "pulling")
  /\ files' = [files EXCEPT !["compose"] = req[p].target]
  /\ UNCHANGED <<inside, storeVars, composeVars, budgets, opVars,
                 held, at, verified>>

PullImages(p) ==
  /\ Step(p, "pulling", "starting")
  /\ UNCHANGED <<inside, files, storeVars, composeVars, budgets, opVars,
                 held, at, verified>>

UpStart(p) ==
  /\ Step(p, "starting", "upping")
  /\ child' = [child EXCEPT ![p] = files["compose"]]
  /\ UNCHANGED <<inside, files, storeVars, running, orphans, budgets, opVars,
                 held, at, verified>>

\* Bug: the passport is written when the up ends, before the health wait.
UpDoneRecords(p) ==
  /\ Step(p, "upping", "waiting")
  /\ running = child[p]
  /\ child' = [child EXCEPT ![p] = NoChild]
  /\ files' = [files EXCEPT !["passport"] = req[p].target]
  /\ UNCHANGED <<inside, storeVars, running, orphans, budgets, opVars,
                 held, at, verified>>

(* Return code 0: every container is what the file says, and no other is    *)
(* left (--remove-orphans).                                                 *)
UpDone(p) ==
  /\ Step(p, "upping", "waiting")
  /\ running = child[p]
  /\ child' = [child EXCEPT ![p] = NoChild]
  /\ UNCHANGED <<inside, files, storeVars, running, orphans, budgets, opVars,
                 held, at, verified>>

(* _wait_healthy: every container there is is healthy, and every expected   *)
(* service has one.                                                         *)
HealthPass(p) ==
  /\ Step(p, "waiting", "recording")
  /\ Healthy(running)
  /\ \A s \in Services(req[p].target) : running[s] # Off
  /\ verified' = verified \cup {req[p].target}
  /\ UNCHANGED <<inside, files, storeVars, composeVars, budgets, opVars, held, at>>

\* Bug: the health wait has no deadline.
StepFailNoDeadline(p) ==
  /\ pc[p] \in {"writing", "pulling", "starting", "upping"}
  /\ Fail(p)
  /\ child' = [child EXCEPT ![p] = NoChild]
  /\ UNCHANGED <<inside, files, storeVars, running, orphans, budgets, opVars,
                 held, verified>>

(* The write of the compose file, the pull, the up or the health wait       *)
(* fails; what the up had done by then stays until the rollback.            *)
StepFail(p) ==
  /\ pc[p] \in {"writing", "pulling", "starting", "upping", "waiting"}
  /\ Fail(p)
  /\ child' = [child EXCEPT ![p] = NoChild]
  /\ UNCHANGED <<inside, files, storeVars, running, orphans, budgets, opVars,
                 held, verified>>

(* The passport is written last and best effort: the apply has succeeded    *)
(* even if the write fails.                                                 *)
Record(p) ==
  /\ pc[p] = "recording"
  /\ Exit(p, "deployed")
  /\ \/ files' = [files EXCEPT !["passport"] = req[p].target]
     \/ files' = files
  /\ UNCHANGED <<inside, storeVars, composeVars, budgets, opVars,
                 held, at, verified>>

-------------------------------------------------------------------------------
(* rollback, and the rollback inside a failed apply.                        *)

(* The latest complete snapshot, or the one the user names.                 *)
Choose(p) ==
  /\ Step(p, "choosing", "restoring")
  /\ \E sn \in store : held' = [held EXCEPT ![p] = sn]
  /\ at' = [at EXCEPT ![p] = 1]
  /\ UNCHANGED <<inside, files, storeVars, composeVars, budgets, opVars, verified>>

(* There is no snapshot, or none with that id.                              *)
ChooseNone(p) ==
  /\ pc[p] = "choosing"
  /\ Exit(p, "unchanged")
  /\ UNCHANGED <<inside, files, storeVars, composeVars, budgets, opVars,
                 held, at, verified>>

(* _rollback_to_snapshot puts one file back after another.                  *)
RestoreSlot(p) ==
  /\ Step(p, "restoring", "restoring")
  /\ at[p] <= Len(RestoreOrder)
  /\ LET sl == RestoreOrder[at[p]]
         saved == held[p].files[sl]
     IN  files' = IF saved # Absent \/ sl \in DropWhenMissing
                  THEN [files EXCEPT ![sl] = saved]
                  ELSE files
  /\ at' = [at EXCEPT ![p] = at[p] + 1]
  /\ UNCHANGED <<inside, storeVars, composeVars, budgets, opVars, held, verified>>

RevertStart(p) ==
  /\ Step(p, "restoring", "reverting")
  /\ at[p] > Len(RestoreOrder)
  /\ files["compose"] # Absent
  /\ child' = [child EXCEPT ![p] = files["compose"]]
  /\ UNCHANGED <<inside, files, storeVars, running, orphans, budgets, opVars,
                 held, at, verified>>

RevertDone(p) ==
  /\ pc[p] = "reverting"
  /\ running = child[p]
  /\ Exit(p, IF req[p].kind = "rollback" THEN "restored" ELSE "undone")
  /\ child' = [child EXCEPT ![p] = NoChild]
  /\ UNCHANGED <<inside, files, storeVars, running, orphans, budgets, opVars,
                 held, at, verified>>

(* The descriptors are a tree: put together beside the target, which moves   *)
(* aside for it. Cut off between the two moves, or where the one that puts   *)
(* the old tree back fails as well, there is none.                          *)
SwapCutOff(p) ==
  {files} \cup
    IF /\ pc[p] = "restoring" /\ at[p] \in DOMAIN RestoreOrder
       /\ RestoreOrder[at[p]] = "descr" /\ held[p].files["descr"] # Absent
    THEN {[files EXCEPT !["descr"] = Absent]} ELSE {}

(* An exception while restoring, or an up that fails: the rollback is       *)
(* reported as not performed and leaves what it has done.                   *)
RevertFail(p) ==
  /\ pc[p] \in {"restoring", "reverting"}
  /\ Exit(p, "torn")
  /\ files' \in SwapCutOff(p)
  /\ child' = [child EXCEPT ![p] = NoChild]
  /\ UNCHANGED <<inside, storeVars, running, orphans, budgets, opVars,
                 held, at, verified>>

-------------------------------------------------------------------------------
(* docker compose up: one container at a time is created, replaced (it is   *)
(* gone in between) or removed.                                             *)
Converge(c) ==
  \E s \in Svc :
    /\ running[s] # c[s]
    /\ \E x \in {c[s], Off} \ {running[s]} : running' = [running EXCEPT ![s] = x]

ChildMove(p) ==
  /\ child[p] # NoChild
  /\ Converge(child[p])
  /\ UNCHANGED <<inside, files, storeVars, child, orphans, budgets, opVars,
                 pc, held, at, verdict, verified>>

OrphanMove(c) ==
  /\ Converge(c)
  /\ UNCHANGED <<inside, files, storeVars, child, orphans, budgets, opVars,
                 pc, held, at, verdict, verified>>

OrphanExit(c) ==
  /\ orphans' = orphans \ {c}
  /\ UNCHANGED <<inside, files, storeVars, child, running, budgets, opVars,
                 pc, held, at, verdict, verified>>

(* The process dies inside the lock: Ctrl-C, a signal, a closed terminal, a *)
(* power cut.  The flock is gone at once.  A compose child runs in a        *)
(* session of its own and may be root's, out of reach of the kill.          *)
Die(p) ==
  /\ deaths < MaxDeaths
  /\ deaths' = deaths + 1
  /\ Lock!Leave(p)
  /\ Goto(p, "idle")
  /\ req' = [req EXCEPT ![p] = NoReq]
  /\ held' = [held EXCEPT ![p] = NoSnap]
  /\ at' = [at EXCEPT ![p] = 1]
  /\ before' = [before EXCEPT ![p] = NoReq]
  /\ verdict' = [verdict EXCEPT ![p] = "none"]
  /\ child' = [child EXCEPT ![p] = NoChild]
  /\ \/ orphans' = orphans
     \/ OrphansSurvive /\ child[p] # NoChild /\ orphans' = orphans \cup {child[p]}
  /\ files' \in SwapCutOff(p)
  /\ UNCHANGED <<storeVars, running, edits, verified>>

(* The installer's configuration steps take no lock.                        *)
InstallerWrites ==
  /\ edits < MaxEdits
  /\ edits' = edits + 1
  /\ \E sl \in {"env", "version", "descr"}, t \in Text :
       files' = [files EXCEPT ![sl] = t]
  /\ UNCHANGED <<inside, storeVars, composeVars, deaths, opVars,
                 pc, held, at, verdict, verified>>

-------------------------------------------------------------------------------
Working(p) ==
  \/ BeginUpgrade(p) \/ TurnedAway(p) \/ Return(p)
  \/ Proceed(p) \/ Refuse(p)
  \/ SnapOpen(p) \/ SnapCopy(p) \/ SnapSeal(p) \/ Prune(p) \/ SnapFail(p)
  \/ WriteCompose(p) \/ PullImages(p) \/ UpStart(p) \/ UpDone(p)
  \/ HealthPass(p) \/ StepFail(p) \/ Record(p)
  \/ Choose(p) \/ ChooseNone(p) \/ RestoreSlot(p)
  \/ RevertStart(p) \/ RevertDone(p) \/ RevertFail(p)

Next ==
  \/ \E p \in Procs : Begin(p) \/ ReadBaseline(p) \/ Working(p) \/ ChildMove(p) \/ Die(p)
  \/ \E c \in orphans : OrphanMove(c) \/ OrphanExit(c)
  \/ InstallerWrites

Spec == Init /\ [][Next]_vars
-------------------------------------------------------------------------------
(* What the scheduling gives: an operation in progress takes its next step  *)
(* (its user answers prompts) and the health wait ends by its deadline; a   *)
(* compose child works and ends.  That an operation FAILS is never owed.    *)
(* The code puts no time limit on pull and up: their end, and that of an    *)
(* orphaned up, is Docker's to guarantee.                                   *)
Advance(p) ==
  \/ BeginUpgrade(p) \/ TurnedAway(p) \/ Return(p)
  \/ Proceed(p) \/ Refuse(p)
  \/ SnapOpen(p) \/ SnapCopy(p) \/ SnapSeal(p) \/ Prune(p)
  \/ WriteCompose(p) \/ PullImages(p) \/ UpStart(p) \/ UpDone(p)
  \/ HealthPass(p) \/ (pc[p] = "waiting" /\ StepFail(p)) \/ Record(p)
  \/ Choose(p) \/ ChooseNone(p) \/ RestoreSlot(p)
  \/ RevertStart(p) \/ RevertDone(p)

Fairness ==
  /\ \A p \in Procs : WF_vars(Advance(p)) /\ WF_vars(ChildMove(p))
  /\ \A c \in Config : WF_vars(c \in orphans /\ OrphanExit(c))

FairSpec == Spec /\ Fairness

-------------------------------------------------------------------------------
Locations ==
  {"idle", "locking", "checking", "saving", "copying", "pruning", "writing",
   "pulling", "starting", "upping", "waiting", "recording", "choosing",
   "restoring", "reverting", "exit"}

Verdicts == {"none", "unchanged", "deployed", "undone", "restored", "torn"}

Found ==
  [compose : Config \cup {Absent}, passport : Config \cup {Absent},
   running : Stack, evidence : BOOLEAN]

ASSUME EngineNoReq == NoReq \notin Found

(* Types.                                                                   *)
TypeOK ==
  /\ inside \subseteq Procs
  /\ files \in Files
  /\ running \in Stack
  /\ store \subseteq Snapshot
  /\ nextId \in Nat
  /\ edits \in Nat /\ deaths \in Nat
  /\ pc \in [Procs -> Locations]
  /\ req \in [Procs -> Requests \cup {NoReq}]
  /\ held \in [Procs -> Snapshot \cup {NoSnap}]
  /\ at \in [Procs -> 1 .. Len(SaveOrder) + 1]
  /\ child \in [Procs -> Config \cup {NoChild}]
  /\ orphans \subseteq Config
  /\ verdict \in [Procs -> Verdicts]
  /\ before \in [Procs -> Found \cup {NoReq}]
  /\ verified \subseteq Config

(* At most one `docker compose up` works on the project, in whatever order  *)
(* operations are started, fail, roll back and die (_deploy_impl and        *)
(* _rollback_to_snapshot run behind deploy_lock).                           *)
OneComposeAtATime ==
  /\ \A p, q \in Procs : child[p] # NoChild /\ child[q] # NoChild => p = q
  /\ orphans # {} => \A p \in Procs : child[p] = NoChild

(* From the moment an apply overwrites the compose file until it ends, the  *)
(* store holds a complete snapshot with the compose file and the passport   *)
(* it found, and it is the one the apply would roll back to; no other       *)
(* operation's save or prune takes it away (_deploy_impl, save, prune_old). *)
AfterWrite == {"pulling", "starting", "upping", "waiting", "recording",
               "restoring", "reverting"}

RollbackPoint ==
  \A p \in Procs :
    pc[p] \in AfterWrite /\ req[p].kind # "rollback" /\ before[p].compose # Absent =>
      /\ held[p] \in store
      /\ held[p].files["compose"] = before[p].compose
      /\ held[p].files["passport"] = before[p].passport

(* A passport, in the install or in a snapshot that may be restored, names  *)
(* a deployment that did pass the health wait: no crash, failure or         *)
(* rollback makes one of a deployment that never was healthy (D-02).        *)
PassportVerified ==
  /\ files["passport"] \in verified \cup {Absent}
  /\ \A sn \in store : sn.files["passport"] \in verified \cup {Absent}

(* An apply without --allow-removal that succeeds leaves a container for    *)
(* every service of the passport it found, also when the selection was read *)
(* from an older passport before the lock was taken (D-04).                 *)
RecordedServicesKept ==
  \A p \in Procs :
    verdict[p] = "deployed" /\ ~req[p].allowRemoval =>
      \A s \in Named(before[p].passport) : running[s] # Off

(* An operation that got the lock gives it back.                            *)
LockComesFree == \A p \in Procs : p \in inside ~> p \notin inside

-------------------------------------------------------------------------------
(* The engine implements DeployContract: between operations the install is  *)
(* what the disk and Docker say; during one it is what the operation found. *)
Inside == {p \in Procs : before[p] # NoReq}

Owner == CHOOSE p \in Inside : TRUE

Holder == IF Inside = {} THEN NoReq ELSE Owner

InFlight == Inside # {} /\ verdict[Owner] = "none"

Ending == IF Inside = {} THEN "none" ELSE verdict[Owner]

FoundBy(p) ==
  [compose |-> before[p].compose, passport |-> before[p].passport,
   running |-> before[p].running]

Now == [compose |-> files["compose"], passport |-> files["passport"], running |-> running]

Deployment == IF InFlight THEN FoundBy(Owner) ELSE Now

Points == {<<sn.files["compose"], sn.files["passport"]>> : sn \in store}

Contract == INSTANCE DeployContract WITH
  NoOwner <- NoReq, owner <- Holder, how <- Ending, deployed <- Deployment, points <- Points

ImplementsContract == Contract!Spec

-------------------------------------------------------------------------------
(* An apply without a prompt or --skip-data-backup replaces or removes a    *)
(* stateful container only if the backup marker was fresh.                  *)
StatefulBackupEvidence ==
  \A p \in Procs :
    verdict[p] = "deployed" /\ req[p].noPrompt /\ ~req[p].skipBackup /\ ~before[p].evidence =>
      \A s \in Stateful : before[p].running[s] \in {Off, running[s]}
===============================================================================
