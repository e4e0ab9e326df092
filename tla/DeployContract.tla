---------------------------- MODULE DeployContract ----------------------------
(***************************************************************************)
(* What the deploy engine promises an operator: operations on an install   *)
(* take effect one after another, and each of them ends in one of a few    *)
(* ways that its result names.                                             *)
(*   unchanged  it was refused, or failed before it changed anything       *)
(*   deployed   the containers run the new compose file                    *)
(*   undone     a failed apply: the containers run the compose file that   *)
(*              was there before, under the passport that was there before *)
(*   restored   a rollback: the install is as some earlier operation found *)
(*              it                                                         *)
(*   torn       no promise; only the operation that failed, or died, may   *)
(*              have left the install in this state                        *)
(***************************************************************************)
CONSTANTS Procs, Svc, Image, Off, Config, Absent, NoOwner

VARIABLES
  owner,     \* the process whose operation is in progress
  how,       \* how that operation has ended, or "none" so far
  deployed,  \* compose file, passport and containers between operations
  points     \* (compose, passport) pairs an operation may restore

cvars == <<owner, how, deployed, points>>

Install ==
  [compose : Config \cup {Absent}, passport : Config \cup {Absent},
   running : [Svc -> Image \cup {Off}]]

Init ==
  /\ owner = NoOwner
  /\ how = "none"
  /\ deployed \in {d \in Install : d.compose = d.passport}
  /\ points = {}

Begin(p) ==
  /\ owner = NoOwner
  /\ owner' = p
  /\ UNCHANGED <<how, deployed, points>>

(* The install as this operation found it becomes a point to return to;     *)
(* older points may be forgotten.                                           *)
Remember(p) ==
  /\ owner = p /\ how = "none"
  /\ points' \in SUBSET (points \cup {<<deployed.compose, deployed.passport>>})
  /\ UNCHANGED <<owner, how, deployed>>

Ends(p, v) ==
  /\ owner = p /\ how = "none"
  /\ how' = v
  /\ UNCHANGED <<owner, points>>

Unchanged(p) == Ends(p, "unchanged") /\ UNCHANGED deployed

Deployed(p) ==
  /\ Ends(p, "deployed")
  /\ \E c \in Config, pass \in Config \cup {Absent} :
       /\ pass \in {c, deployed.passport}
       /\ deployed' = [compose |-> c, passport |-> pass, running |-> c]

Undone(p) ==
  /\ Ends(p, "undone")
  /\ deployed.compose # Absent
  /\ deployed' = [deployed EXCEPT !.running = deployed.compose]

Restored(p) ==
  /\ Ends(p, "restored")
  /\ \E c \in Config, pass \in Config \cup {Absent} :
       /\ <<c, pass>> \in points
       /\ deployed' = [compose |-> c, passport |-> pass, running |-> c]

Torn(p) == Ends(p, "torn") /\ deployed' \in Install

Return(p) ==
  /\ owner = p /\ how # "none"
  /\ owner' = NoOwner
  /\ how' = "none"
  /\ UNCHANGED <<deployed, points>>

Die(p) ==
  /\ owner = p
  /\ owner' = NoOwner
  /\ how' = "none"
  /\ deployed' \in IF how = "none" THEN Install ELSE {deployed}
  /\ UNCHANGED points

Next == \E p \in Procs :
  \/ Begin(p) \/ Remember(p) \/ Return(p) \/ Die(p)
  \/ Unchanged(p) \/ Deployed(p) \/ Undone(p) \/ Restored(p) \/ Torn(p)

Spec == Init /\ [][Next]_cvars
===============================================================================
