------------------------------- MODULE InstallRun -------------------------------
(***************************************************************************)
(* The installer's progress screens and their worker threads: the loop over *)
(* the steps, Cancel and Retry, the watchdog that kills a step's child, and *)
(* the secrets a configuration carries. Ctrl+S is a binding of the whole    *)
(* app: pressed while an install runs, it puts a second screen with a run   *)
(* of its own on top. Presses and callbacks are handled on the app's thread, *)
(* one at a time; the workers, their watchdogs and children run beside it.  *)
(***************************************************************************)
EXTENDS Naturals, FiniteSets, Sequences

CONSTANTS
  Worker,         \* thread workers
  Steps,          \* sequence of the step ids
  Deploy,         \* the step that runs `docker compose up`, under the deploy lock
  MaxScreens,     \* bound: install screens pushed in a session
  MaxRetries      \* bound: presses of Retry

ASSUME ScreensAssumption == MaxScreens \in Nat

VARIABLES
  app,            \* "runs", "exiting" once exit() is called, then "gone"
  opened,         \* install screens pushed so far
  mounted,        \* those that are on the stack
  runActive,      \* screen -> _run_active
  canceled,       \* screen -> cancel_event
  worker,         \* worker -> whose run it is and where it is
  stepState,      \* screen -> step id -> what the screen shows
  outcome,        \* screen -> its result: none, ok, failed, cancelled
  secret,         \* screen -> its configuration has the sudo password and the token
  backup,         \* screen -> _secret_backup
  retries

screenVars == <<app, opened, mounted, runActive, canceled, backup, retries>>
runVars == <<screenVars, worker, stepState, outcome, secret>>

Screen == 1 .. MaxScreens
StepIds == {Steps[i] : i \in DOMAIN Steps}
Idle == [at |-> "idle", screen |-> 0, step |-> 0, child |-> "none", locked |-> FALSE]
Looping(s, i) == [at |-> "loop", screen |-> s, step |-> i, child |-> "none", locked |-> FALSE]
Busy(w) == worker[w].at # "idle"
Pending == [id \in StepIds |-> "pending"]

(* Only the screen on top gets keys and presses.                            *)
OnTop(s) == s \in mounted /\ \A t \in mounted : t <= s

(* What a worker reports to a screen that has gone is dropped.              *)
Show(w, state) ==
  LET s == worker[w].screen
  IN IF s \in mounted THEN [stepState EXCEPT ![s][Steps[worker[w].step]] = state]
     ELSE stepState

-----------------------------------------------------------------------------
(* The app's thread                                                        *)

(* exclusive=True does not stop a worker that runs.                         *)
Dispatch(s) == \E w \in Worker :
  /\ ~Busy(w)
  /\ worker' = [worker EXCEPT ![w] = Looping(s, 1)]

\* Bug: exclusive=True is taken to be enough.
BeginRunAlways(s) == TRUE

(* _begin_run takes the screen's single slot, or the press is ignored.       *)
BeginRun(s) == ~runActive[s]

(* action_submit, from Apply or Ctrl+S on whatever screen is on top: a screen *)
(* with a configuration of its own, which begins its run when it is mounted. *)
PushScreen ==
  /\ app # "gone" /\ opened < MaxScreens
  /\ LET s == opened + 1
     IN /\ opened' = s /\ mounted' = mounted \cup {s}
        /\ secret' = [secret EXCEPT ![s] = TRUE] /\ backup' = [backup EXCEPT ![s] = TRUE]
        /\ BeginRun(s) /\ runActive' = [runActive EXCEPT ![s] = TRUE]
        /\ Dispatch(s)
  /\ UNCHANGED <<app, canceled, stepState, outcome, retries>>

(* The button is enabled after a failure; the action has its own guard.     *)
ActionRetry(s) ==
  /\ OnTop(s) /\ outcome[s] = "failed" /\ retries < MaxRetries
  /\ BeginRun(s) /\ runActive' = [runActive EXCEPT ![s] = TRUE]
  /\ retries' = retries + 1
  /\ secret' = [secret EXCEPT ![s] = backup[s]]
  /\ outcome' = [outcome EXCEPT ![s] = "none"]
  /\ canceled' = [canceled EXCEPT ![s] = FALSE]
  /\ stepState' = [stepState EXCEPT ![s] = Pending]
  /\ Dispatch(s)
  /\ UNCHANGED <<app, opened, mounted, backup>>

Without(flags, gone) == [s \in Screen |-> flags[s] /\ s \notin gone]

\* Bug: the copy for a retry is forgotten.
UnmountKeepsBackup(gone) ==
  /\ mounted' = mounted \ gone
  /\ canceled' = [s \in Screen |-> canceled[s] \/ s \in gone]
  /\ secret' = Without(secret, gone) /\ UNCHANGED backup

(* on_unmount sets the event and drops the secrets and their copy.           *)
Unmount(gone) ==
  /\ mounted' = mounted \ gone
  /\ canceled' = [s \in Screen |-> canceled[s] \/ s \in gone]
  /\ secret' = Without(secret, gone) /\ backup' = Without(backup, gone)

(* Cancel, ctrl+c, Close, Escape: the top screen goes, and the callback that *)
(* action_submit gave it calls exit().                                      *)
Dismiss(s) ==
  /\ OnTop(s) /\ Unmount({s})
  /\ app' = "exiting"
  /\ UNCHANGED <<opened, runActive, worker, stepState, retries>>

ActionCancel(s) ==
  /\ Dismiss(s)
  /\ outcome' = [outcome EXCEPT ![s] = IF @ = "none" THEN "cancelled" ELSE @]

Close(s) == outcome[s] # "none" /\ Dismiss(s) /\ UNCHANGED outcome

(* The app shuts down: the screens below go as well.                        *)
AppExits ==
  /\ app = "exiting" /\ app' = "gone"
  /\ Unmount(mounted)
  /\ UNCHANGED <<opened, runActive, worker, stepState, outcome, retries>>

(* The worker's last call is handled on the app's thread, with or without its *)
(* screen.                                                                 *)
Finalize(w) ==
  /\ worker[w].at = "finalize"
  /\ runActive' = [runActive EXCEPT ![worker[w].screen] = FALSE]
  /\ worker' = [worker EXCEPT ![w] = Idle]
  /\ UNCHANGED <<app, opened, mounted, canceled, stepState, outcome, secret, backup, retries>>

-----------------------------------------------------------------------------
(* The worker: InstallOrchestrator.run                                     *)

Canceled(w) == canceled[worker[w].screen]

Returns(w, result) ==
  LET s == worker[w].screen
  IN /\ outcome' = [outcome EXCEPT ![s] = result]
     /\ secret' = Without(secret, {s})
     /\ worker' = [worker EXCEPT ![w] = [@ EXCEPT !.at = "finalize", !.child = "none",
                                                  !.locked = FALSE]]

CancelledBetweenSteps(w) ==
  /\ worker[w].at = "loop" /\ worker[w].step <= Len(Steps) /\ Canceled(w)
  /\ Returns(w, "cancelled")
  /\ UNCHANGED <<screenVars, stepState>>

(* The event has been looked at; the step begins.                           *)
PassGate(w) ==
  /\ worker[w].at = "loop" /\ worker[w].step <= Len(Steps) /\ ~Canceled(w)
  /\ worker' = [worker EXCEPT ![w].at = "start"]
  /\ UNCHANGED <<screenVars, stepState, outcome, secret>>

StartStep(w) ==
  /\ worker[w].at = "start"
  /\ stepState' = Show(w, "running")
  /\ worker' = [worker EXCEPT ![w].at = "step"]
  /\ UNCHANGED <<screenVars, outcome, secret>>

Deploys(w) == worker[w].at = "step" /\ Steps[worker[w].step] = Deploy

(* flock is of the open file: two threads of one process exclude each other. *)
LockFree == \A v \in Worker : ~worker[v].locked

(* deploy(): where the lock is taken the step fails, deploy being "already in *)
(* progress".                                                              *)
TakeLock(w) ==
  /\ Deploys(w) /\ worker[w].child = "none" /\ ~worker[w].locked
  /\ LockFree
  /\ worker' = [worker EXCEPT ![w].locked = TRUE]
  /\ UNCHANGED <<screenVars, stepState, outcome, secret>>

(* A step runs children one after another, each with a watchdog.            *)
SpawnChild(w) ==
  /\ worker[w].at = "step" /\ worker[w].child = "none"
  /\ Deploys(w) => worker[w].locked
  /\ worker' = [worker EXCEPT ![w].child = "runs"]
  /\ UNCHANGED <<screenVars, stepState, outcome, secret>>

(* A child that hangs does not end by itself.                               *)
ChildHangs(w) ==
  /\ worker[w].child = "runs"
  /\ worker' = [worker EXCEPT ![w].child = "hangs"]
  /\ UNCHANGED <<screenVars, stepState, outcome, secret>>

ChildEnds(w) ==
  /\ worker[w].child = "runs"
  /\ worker' = [worker EXCEPT ![w].child = "ended"]
  /\ UNCHANGED <<screenVars, stepState, outcome, secret>>

\* Bug: the watchdog goes with the screen.
WatchdogWhileMounted(w) ==
  /\ worker[w].screen \in mounted /\ Canceled(w) /\ worker[w].child \in {"runs", "hangs"}
  /\ worker' = [worker EXCEPT ![w].child = "ended"]
  /\ UNCHANGED <<screenVars, stepState, outcome, secret>>

(* _kill_on_cancel: terminate, then kill.                                   *)
Watchdog(w) ==
  /\ worker[w].child \in {"runs", "hangs"} /\ Canceled(w)
  /\ worker' = [worker EXCEPT ![w].child = "ended"]
  /\ UNCHANGED <<screenVars, stepState, outcome, secret>>

StepReturns(w) == worker[w].at = "step" /\ worker[w].child \in {"none", "ended"}

(* A cancel during the step wins over the step's own result.                *)
StepCancelled(w) ==
  /\ StepReturns(w) /\ Canceled(w)
  /\ stepState' = Show(w, "error")
  /\ Returns(w, "cancelled")
  /\ UNCHANGED screenVars

(* Failed, or raised; a deploy that does not get the lock fails.             *)
StepFails(w) ==
  /\ StepReturns(w) /\ ~Canceled(w)
  /\ stepState' = Show(w, "error")
  /\ Returns(w, "failed")
  /\ UNCHANGED screenVars

StepDone(w) ==
  /\ StepReturns(w) /\ ~Canceled(w)
  /\ Deploys(w) => worker[w].locked
  /\ stepState' = Show(w, "success")
  /\ worker' = [worker EXCEPT ![w] = Looping(worker[w].screen, worker[w].step + 1)]
  /\ UNCHANGED <<screenVars, outcome, secret>>

Completes(w) ==
  /\ worker[w].at = "loop" /\ worker[w].step > Len(Steps)
  /\ Returns(w, "ok")
  /\ UNCHANGED <<screenVars, stepState>>

-----------------------------------------------------------------------------
RunInit ==
  /\ app = "runs" /\ opened = 0 /\ mounted = {}
  /\ runActive = [s \in Screen |-> FALSE] /\ canceled = [s \in Screen |-> FALSE]
  /\ worker = [w \in Worker |-> Idle]
  /\ stepState = [s \in Screen |-> Pending] /\ outcome = [s \in Screen |-> "none"]
  /\ secret = [s \in Screen |-> FALSE] /\ backup = [s \in Screen |-> FALSE] /\ retries = 0

WorkerStep(w) ==
  \/ CancelledBetweenSteps(w) \/ PassGate(w) \/ StartStep(w) \/ TakeLock(w) \/ SpawnChild(w)
  \/ StepCancelled(w) \/ StepFails(w) \/ StepDone(w) \/ Completes(w)

RunNext ==
  \/ PushScreen \/ AppExits
  \/ \E s \in Screen : ActionRetry(s) \/ ActionCancel(s) \/ Close(s)
  \/ \E w \in Worker :
       \/ WorkerStep(w) \/ Finalize(w) \/ ChildHangs(w) \/ ChildEnds(w) \/ Watchdog(w)

(* The threads are scheduled, the watchdog polls and exit() is carried out.  *)
(* Nothing is assumed of the operator, nor that a child ends by itself.      *)
RunFairness ==
  /\ WF_runVars(AppExits)
  /\ \A w \in Worker :
       /\ WF_runVars(CancelledBetweenSteps(w)) /\ WF_runVars(PassGate(w))
       /\ WF_runVars(StartStep(w))
       /\ WF_runVars(StepCancelled(w)) /\ WF_runVars(Completes(w))
       /\ WF_runVars(StepFails(w) \/ StepDone(w))
       /\ WF_runVars(Finalize(w)) /\ WF_runVars(Watchdog(w))

RunSpec == RunInit /\ [][RunNext]_runVars /\ RunFairness

-----------------------------------------------------------------------------
(* A screen has one run at a time: Retry, the worker's end and its finalizer *)
(* in any order never leave it with two workers, of which the second would  *)
(* clear the first one's cancel event and take its secrets away.            *)
OneRunPerScreen ==
  \A s \in Screen : Cardinality({w \in Worker : Busy(w) /\ worker[w].screen = s}) <= 1

(* However many screens Ctrl+S has put up, one `docker compose up` runs:     *)
(* two would race for the container names.                                  *)
ComposeRuns(w) == Deploys(w) /\ worker[w].child \in {"runs", "hangs"}
OneComposeUp == Cardinality({w \in Worker : ComposeRuns(w)}) <= 1

(* Workers keep apart: on one screen, and of several screens in the deploy.   *)
WorkersApart == OneRunPerScreen /\ OneComposeUp

(* Once a screen has gone its configuration has no secret, nor has the copy  *)
(* a retry uses, whatever its worker or another screen still does.           *)
SecretsGone == \A s \in 1 .. opened : s \notin mounted => ~secret[s] /\ ~backup[s]

(* A cancel, or any other end of an install screen, ends the workers of all  *)
(* of them: also when a step's child hangs.                                 *)
CancelEnds == app # "runs" ~> \A w \in Worker : ~Busy(w)
=============================================================================
