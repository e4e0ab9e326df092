---------------------------- MODULE MCDeployEngine ----------------------------
(***************************************************************************)
(* DeployEngine on a host with a stateful service db and a stateless web,  *)
(* and operators who deploy, upgrade and roll back concurrently.           *)
(***************************************************************************)
EXTENDS DeployEngine, TLC

CONSTANTS db, web, v1, v2, bad

Stk(d, w) == [s \in Svc |-> IF s = db THEN d ELSE w]

lean == Stk(v1, Off)     \* db alone
full == Stk(v2, v1)      \* db upgraded and web added
broken == Stk(v2, bad)   \* a web that never becomes healthy

MCConfig == {lean, full, broken}

Ask(kind, target, noPrompt, allowRemoval, skipBackup) ==
  [kind |-> kind, target |-> target, noPrompt |-> noPrompt,
   allowRemoval |-> allowRemoval, skipBackup |-> skipBackup]

Rollback == Ask("rollback", full, FALSE, FALSE, FALSE)

(* An interactive deploy of the wide selection, an automated broken one, an *)
(* upgrade that re-applies the narrow selection, and a rollback.            *)
MCRequests ==
  {Ask("apply", full, FALSE, FALSE, FALSE),
   Ask("apply", broken, TRUE, FALSE, TRUE),
   Ask("upgrade", lean, TRUE, FALSE, TRUE),
   Rollback}

(* For the liveness run: a deploy that asks, an upgrade that never becomes   *)
(* healthy, a rollback.                                                     *)
LiveRequests ==
  {Ask("apply", full, FALSE, FALSE, FALSE), Ask("upgrade", broken, TRUE, FALSE, TRUE), Rollback}

(* The requests of the runs that look for one particular story.             *)
FewRequests ==
  {Ask("apply", full, TRUE, FALSE, FALSE),
   Ask("upgrade", lean, TRUE, FALSE, FALSE),
   Rollback}

Symmetry == Permutations(Procs)
===============================================================================
