----------------------------- MODULE MCDeployLock -----------------------------
(***************************************************************************)
(* DeployLock on four processes: two of the operator's own, one elevated   *)
(* with `sudo -E` (same runtime directory, root's files) and one alone on  *)
(* another install directory, whose runtime directory is gone.             *)
(***************************************************************************)
EXTENDS DeployLock

CONSTANTS cli, tui, elevated, other,   \* processes
          user,                        \* the operator's uid
          opt, srv,                    \* install directories
          run, gone, tmpUser, tmpRoot  \* lock directories

MCUid == [p \in Procs |-> IF p = elevated THEN Root ELSE user]

MCInstallOf == [p \in Procs |-> IF p = other THEN srv ELSE opt]

(* The first three share the operator's login session.                     *)
MCRuntimeDir == [p \in Procs |-> IF p = other THEN gone ELSE run]

(* The TUI runs in the login session; the command line comes from a        *)
(* scheduler of the same user, which sets no XDG_RUNTIME_DIR.              *)
MCMixedRuntimeDir == [p \in Procs |-> IF p = cli THEN Unset ELSE run]

MCFallbackDir == [u \in Uids |-> IF u = Root THEN tmpRoot ELSE tmpUser]

(* Single-flight for two processes of one user.                            *)
SameUserSingleFlight ==
  \A p, q \in Procs :
    p # q /\ InstallOf[p] = InstallOf[q] /\ Uid[p] = Uid[q] =>
      ~(stage[p] = "in" /\ stage[q] = "in")
===============================================================================
