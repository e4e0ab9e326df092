----------------------------- MODULE AbstractLock -----------------------------
(***************************************************************************)
(* What agmind.core.locks.deploy_lock promises the callers that work on    *)
(* one install directory: at any moment at most one process is inside the  *)
(* locked region.  An attempt that finds the region taken is turned away   *)
(* at once (it never waits), and a process that dies gives it back.        *)
(***************************************************************************)

CONSTANT Procs    \* the processes that work on the install directory

VARIABLE inside   \* the processes inside the region

Init == inside = {}

(* A process enters a region that is free.                                 *)
Enter(p) == inside = {} /\ inside' = {p}

(* A process leaves the region, by returning, raising or dying.            *)
Leave(p) == p \in inside /\ inside' = {}

Next == \E p \in Procs : Enter(p) \/ Leave(p)

Spec == Init /\ [][Next]_inside
===============================================================================
