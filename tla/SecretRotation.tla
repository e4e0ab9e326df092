---------------------------- MODULE SecretRotation ----------------------------
(***************************************************************************)
(* `agmind ops rotate-secrets` on one generated secret (REDIS_PASSWORD is  *)
(* the model), among installs, deploys and rollbacks of the same directory. *)
(* The secret has three homes: .env, which compose reads for the services  *)
(* that name ${KEY}; a secret file, which other services read when they    *)
(* start and whose contents compose does not look at; and the environment  *)
(* of each container, fixed when it starts.                                *)
(***************************************************************************)
EXTENDS Naturals, FiniteSets

CONSTANTS
  Procs,         \* the operators' processes
  EnvReaders,    \* services that get the secret from .env
  FileReaders,   \* services that get it from the secret file
  Server,        \* the service that demands it of the others
  Off,           \* the service has no container
  Requests,      \* operations users start
  MaxRotations,  \* bound: secrets generated
  MaxDeaths      \* bound: processes that die, or raise, inside the lock

ASSUME RotationConstants ==
  /\ Server \in EnvReaders \cup FileReaders
  /\ Requests \subseteq {"rotate", "rotate-only", "install", "deploy", "rollback"}
  /\ Off \notin Nat
  /\ MaxRotations \in Nat
  /\ MaxDeaths \in Nat

VARIABLES
  inside,     \* the processes inside the deploy lock
  env,        \* the secret in .env; generations are numbered, 0 is the installer's
  secret,     \* the secret in the secret file
  runs,       \* the secret each container was started with
  saved,      \* the .env.pre-rotation.* files
  snaps,      \* the .env of the snapshots
  newest,     \* the last secret generated
  pc,         \* where each process is
  op,         \* what it was asked to do
  found,      \* the secret in the .env it read
  todo,       \* containers its compose child has still to recreate
  deaths,     \* processes that died so far
  accidents   \* history: "incomplete" rotations, "rollback"s across one, "race"s of an installer

Lock == INSTANCE AbstractLock

homes == <<env, secret, runs>>
records == <<saved, snaps, newest>>
locals == <<op, found, todo>>
history == <<deaths, accidents>>
vars == <<inside, homes, records, pc, locals, history>>

Holders == EnvReaders \cup FileReaders

Init ==
  /\ Lock!Init
  /\ env = 0 /\ secret = 0
  /\ runs \in [Holders -> {0, Off}]
  /\ saved = {} /\ snaps = {} /\ newest = 0
  /\ pc = [p \in Procs |-> "idle"]
  /\ op = [p \in Procs |-> "none"]
  /\ found = [p \in Procs |-> 0]
  /\ todo = [p \in Procs |-> {}]
  /\ deaths = 0 /\ accidents = {}

Step(p, from, to) == pc[p] = from /\ pc' = [pc EXCEPT ![p] = to]

Note(what) == accidents' = accidents \cup what

Rotating(p) == op[p] \in {"rotate", "rotate-only"}

-------------------------------------------------------------------------------
Opening(r) ==
  IF r = "deploy" THEN "snapping"
  ELSE IF r = "rollback" THEN "choosing"
  ELSE "asking"

(* An operation gets the deploy lock and, in it, reads .env.  One that      *)
(* finds the lock taken is refused, and that changes nothing.               *)
Begin(p, r) ==
  /\ Lock!Enter(p)
  /\ Step(p, "idle", Opening(r))
  /\ op' = [op EXCEPT ![p] = r]
  /\ found' = [found EXCEPT ![p] = env]
  /\ UNCHANGED <<homes, records, todo, history>>

(* The process is out of the lock again and forgets what it read.           *)
Close(p) ==
  /\ inside' = inside \ {p}
  /\ op' = [op EXCEPT ![p] = "none"]
  /\ found' = [found EXCEPT ![p] = 0]
  /\ todo' = [todo EXCEPT ![p] = {}]

Return(p) ==
  /\ \E end \in {"unchanged", "rotated", "rewritten", "unseen", "up", "failed"} :
       Step(p, end, "idle")
  /\ Close(p)
  /\ UNCHANGED <<homes, records, history>>

(* A declined prompt, a dry run, nothing to rotate; a deploy that is        *)
(* refused; a rollback that finds no snapshot.                              *)
Refuse(p) ==
  /\ \E from \in {"asking", "snapping", "choosing"} : Step(p, from, "unchanged")
  /\ UNCHANGED <<inside, homes, records, locals, history>>

-------------------------------------------------------------------------------
(* cmd_rotate_secrets                                                       *)

\* Bug: the copy of the old .env always has the same name.
KeepOldOverwrites(p) ==
  /\ Step(p, "asking", "rewriting")
  /\ newest < MaxRotations
  /\ saved' = {found[p]}
  /\ UNCHANGED <<inside, homes, snaps, newest, locals, history>>

(* The old .env is copied before anything is changed.  The copy is named by *)
(* the second; two rotations are taken to be a second apart.                *)
KeepOld(p) ==
  /\ Step(p, "asking", "rewriting")
  /\ newest < MaxRotations
  /\ saved' = saved \cup {found[p]}
  /\ UNCHANGED <<inside, homes, snaps, newest, locals, history>>

RewriteEnv(p) ==
  /\ Step(p, "rewriting", "filing")
  /\ newest' = newest + 1
  /\ env' = newest + 1
  /\ UNCHANGED <<inside, secret, runs, saved, snaps, locals, history>>

(* The secret file follows; --no-recreate ends the rotation here.           *)
RewriteFile(p) ==
  /\ Step(p, "filing", IF op[p] = "rotate" THEN "listing" ELSE "rewritten")
  /\ secret' = IF FileReaders = {} THEN secret ELSE newest
  /\ Note(IF op[p] = "rotate" THEN {} ELSE {"incomplete"})
  /\ UNCHANGED <<inside, env, runs, records, locals, deaths>>

Running == {s \in Holders : runs[s] # Off}

\* Bug: only the services whose descriptor names ${KEY} are recreated.
ListHoldersScanOnly(p) ==
  /\ Step(p, "listing", "recreating")
  /\ todo' = [todo EXCEPT ![p] = Running \cap EnvReaders]
  /\ UNCHANGED <<inside, homes, records, op, found, history>>

(* The running holders, those of the secret file included; compose starts   *)
(* services they depend on as well.                                         *)
ListHolders(p) ==
  /\ Running # {}
  /\ Step(p, "listing", "recreating")
  /\ \E deps \in SUBSET (Holders \ Running) : todo' = [todo EXCEPT ![p] = Running \cup deps]
  /\ UNCHANGED <<inside, homes, records, op, found, history>>

(* No holder runs, or `docker ps` fails or takes more than five seconds: the *)
(* rotation ends with "no running holders to recreate" and return code 0.    *)
ListNothing(p) ==
  /\ Step(p, "listing", "unseen")
  /\ Note(IF Running = {} THEN {} ELSE {"incomplete"})
  /\ UNCHANGED <<inside, homes, records, locals, deaths>>

-------------------------------------------------------------------------------
(* `agmind install`: it writes .env and the secret file before its deploy    *)
(* step asks for the lock, one first or the other, as it runs with sudo.     *)

StartInstall(p) ==
  /\ Step(p, "idle", "installing")
  /\ op' = [op EXCEPT ![p] = "install"]
  /\ found' = [found EXCEPT ![p] = env]
  /\ UNCHANGED <<inside, homes, records, todo, history>>

(* It races: someone holds the lock, or has changed .env since it was read.  *)
Races(p) == IF inside # {} \/ found[p] # env THEN {"race"} ELSE {}

InstallFile(p) ==
  /\ Step(p, "installing", "filed") \/ Step(p, "enved", "deploying")
  /\ secret' = IF FileReaders = {} THEN secret ELSE found[p]
  /\ Note(Races(p))
  /\ UNCHANGED <<inside, env, runs, records, locals, deaths>>

InstallEnv(p) ==
  /\ Step(p, "installing", "enved") \/ Step(p, "filed", "deploying")
  /\ env' = found[p]
  /\ Note(Races(p))
  /\ UNCHANGED <<inside, secret, runs, records, locals, deaths>>

\* Bug: the deploy step goes on when the lock is taken.
InstallDeploysUnlocked(p) ==
  /\ inside' = inside \cup {p}
  /\ Step(p, "deploying", "snapping")
  /\ found' = [found EXCEPT ![p] = env]
  /\ UNCHANGED <<homes, records, op, todo, history>>

(* The deploy step is a deploy like any other.                               *)
InstallDeploys(p) ==
  /\ Lock!Enter(p)
  /\ Step(p, "deploying", "snapping")
  /\ found' = [found EXCEPT ![p] = env]
  /\ UNCHANGED <<homes, records, op, todo, history>>

(* A step fails, the user cancels, or the lock is taken.                     *)
InstallFails(p) ==
  /\ \E from \in {"installing", "filed", "enved", "deploying"} : Step(p, from, "failed")
  /\ UNCHANGED <<inside, homes, records, locals, history>>

-------------------------------------------------------------------------------
(* docker compose up, with --force-recreate for a rotation.                 *)

Value(s) == IF s \in EnvReaders THEN env ELSE secret

(* A container is replaced: it stops, and starts with the value of the day. *)
Recreate(p) ==
  /\ pc[p] \in {"recreating", "upping"}
  /\ \E s \in todo[p] :
       \/ runs[s] # Off /\ runs' = [runs EXCEPT ![s] = Off] /\ UNCHANGED todo
       \/ /\ runs[s] = Off
          /\ runs' = [runs EXCEPT ![s] = Value(s)]
          /\ todo' = [todo EXCEPT ![p] = @ \ {s}]
  /\ UNCHANGED <<inside, env, secret, records, pc, op, found, history>>

Recreated(p) ==
  /\ todo[p] = {}
  /\ Step(p, "recreating", "rotated") \/ Step(p, "upping", "up")
  /\ UNCHANGED <<inside, homes, records, locals, history>>

(* A return code other than 0: a rotation says "recreate manually"; a       *)
(* deploy rolls back, once.                                                 *)
RecreateFails(p) ==
  /\ \/ Step(p, "recreating", "failed")
     \/ /\ op[p] \in {"deploy", "install"}
        /\ Step(p, "upping", "restoring")
     \/ /\ op[p] = "rollback"
        /\ Step(p, "upping", "failed")
  /\ Note(IF Rotating(p) THEN {"incomplete"} ELSE {})
  /\ UNCHANGED <<inside, homes, records, locals, deaths>>

-------------------------------------------------------------------------------
(* What a deploy and a rollback do to the secret.                           *)

(* .env is part of the snapshot.  The retention is left out: a pruned       *)
(* snapshot only takes a choice from Choose.                                *)
Snap(p) ==
  /\ Step(p, "snapping", "starting")
  /\ snaps' = snaps \cup {env}
  /\ UNCHANGED <<inside, homes, saved, newest, locals, history>>

(* `up` recreates the containers whose configuration changed: those whose   *)
(* ${KEY} has another value now, those that have none, and any other for    *)
(* reasons of its own.  It does not look into the secret file.              *)
Up(p) ==
  /\ Step(p, "starting", "upping")
  /\ \E t \in SUBSET Holders :
       /\ {s \in EnvReaders : runs[s] # env} \cup (Holders \ Running) \subseteq t
       /\ todo' = [todo EXCEPT ![p] = t]
  /\ UNCHANGED <<inside, homes, records, op, found, history>>

(* The failed deploy puts the .env of its snapshot back and runs `up` again; *)
(* from here on it behaves as a rollback.                                    *)
Restore(p) ==
  /\ Step(p, "restoring", "starting")
  /\ env' = found[p]
  /\ op' = [op EXCEPT ![p] = "rollback"]
  /\ UNCHANGED <<inside, secret, runs, records, found, todo, history>>

(* `agmind rollback`: the .env of some snapshot; the secret file stays.      *)
Choose(p) ==
  /\ Step(p, "choosing", "starting")
  /\ \E v \in snaps : env' = v /\ Note(IF v = env THEN {} ELSE {"rollback"})
  /\ UNCHANGED <<inside, secret, runs, records, locals, deaths>>

-------------------------------------------------------------------------------
(* The process dies or raises; its compose child does not outlive it.        *)
Die(p) ==
  /\ p \in inside
  /\ deaths < MaxDeaths
  /\ deaths' = deaths + 1
  /\ pc' = [pc EXCEPT ![p] = "idle"]
  /\ Close(p)
  /\ Note(IF Rotating(p) THEN {"incomplete"} ELSE {})
  /\ UNCHANGED <<homes, records>>

(* Docker restarts a container that exits: it keeps its environment and      *)
(* reads the secret file again.                                              *)
Restart(s) ==
  /\ s \in FileReaders \ EnvReaders
  /\ runs[s] # Off
  /\ runs' = [runs EXCEPT ![s] = secret]
  /\ UNCHANGED <<inside, env, secret, records, pc, locals, history>>

Next ==
  \/ \E s \in Holders : Restart(s)
  \/ \E p \in Procs :
     \/ \E r \in Requests \ {"install"} : Begin(p, r)
     \/ "install" \in Requests /\ StartInstall(p)
     \/ InstallFile(p) \/ InstallEnv(p) \/ InstallDeploys(p) \/ InstallFails(p)
     \/ Return(p) \/ Refuse(p) \/ Die(p)
     \/ KeepOld(p) \/ RewriteEnv(p) \/ RewriteFile(p)
     \/ ListHolders(p) \/ ListNothing(p)
     \/ Recreate(p) \/ Recreated(p) \/ RecreateFails(p)
     \/ Snap(p) \/ Up(p) \/ Restore(p) \/ Choose(p)

Spec == Init /\ [][Next]_vars
-------------------------------------------------------------------------------
Secrets == 0 .. MaxRotations

Locations ==
  {"idle", "installing", "filed", "enved", "deploying", "asking", "rewriting", "filing", "listing",
   "recreating", "snapping",
   "starting", "upping", "restoring", "choosing",
   "unchanged", "rotated", "rewritten", "unseen", "up", "failed"}

(* Types; a process at rest has no containers left to recreate.             *)
RotationTypeOK ==
  /\ inside \subseteq Procs
  /\ env \in Secrets /\ secret \in Secrets
  /\ runs \in [Holders -> Secrets \cup {Off}]
  /\ saved \subseteq Secrets /\ snaps \subseteq Secrets
  /\ newest \in Secrets
  /\ pc \in [Procs -> Locations]
  /\ op \in [Procs -> Requests \cup {"none", "rollback"}]
  /\ found \in [Procs -> Secrets]
  /\ todo \in [Procs -> SUBSET Holders]
  /\ deaths \in Nat
  /\ accidents \subseteq {"incomplete", "rollback", "race"}
  /\ \A p \in Procs : pc[p] = "idle" => todo[p] = {}

(* A rotation that reports success leaves .env, the secret file and every   *)
(* running holder with one secret, whatever earlier rotations, installs,    *)
(* deploys and rollbacks left behind when they failed or died, unless an    *)
(* installer wrote under it (cmd_rotate_secrets: holders are the ${VAR}     *)
(* readers, the file readers and the servers).                              *)
RotationHeals ==
  "race" \notin accidents =>
    \A p \in Procs :
      pc[p] = "rotated" =>
        /\ FileReaders # {} => secret = env
        /\ \A s \in Holders : runs[s] \in {Off, env}

(* While no rotation failed, died or skipped its holders, no rollback       *)
(* changed the secret and no installer raced another operation, no order of *)
(* operations, failed and dead deploys and installs among them, leaves a    *)
(* running holder with a secret other than that of .env and the secret file *)
(* once the lock is free.                                                   *)
SkewNeedsAccident ==
  inside = {} /\ accidents = {} =>
    /\ FileReaders # {} => secret = env
    /\ \A s \in Holders : runs[s] \in {Off, env}

(* Until someone rolls back across a rotation or an installer writes an old *)
(* .env over a new one, the secret the server runs with is on disk: in .env *)
(* or in a .env.pre-rotation file, also when rotations, installs and        *)
(* deploys die or fail at any step.                                         *)
ServerSecretOnRecord ==
  accidents \cap {"rollback", "race"} = {} =>
    runs[Server] \in {Off, env} \cup saved

-------------------------------------------------------------------------------
(* "re-run `agmind install` ... to reconcile" (install/verify.py): when all  *)
(* that happened is a rollback across a rotation, which leaves the secret   *)
(* file out of sync with .env, an install that succeeds brings the file and *)
(* every running holder to the secret of .env.                              *)
InstallReconciles ==
  accidents = {"rollback"} =>
    \A p \in Procs :
      pc[p] = "up" /\ op[p] = "install" =>
        /\ FileReaders # {} => secret = env
        /\ \A s \in Holders : runs[s] \in {Off, env}
===============================================================================
