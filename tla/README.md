# TLA+ models and proofs for AGmind

AGmind installs and operates a stack of self-hosted AI services on one Linux
host: it resolves a selection of services, renders a Docker Compose file and a
`.env`, deploys them, watches health, takes snapshots, rolls back, upgrades,
backs up, restores and rotates secrets. Almost all of its state is in files and
containers that several processes change: the command line, the installer's
text interface, scheduled jobs, and Docker itself. These modules model the part
of the program in which order, failure and concurrency decide whether the host
is left in a good state, and the pure functions that decide what is deployed.

Paths below are relative to `src/agmind/`.

## 1. The system

### Components, their state and their operations

| Component | State it keeps | Operations | Interacts with |
|---|---|---|---|
| Deploy lock (`core/locks.py`) | a lock file per install directory and runtime directory, an flock on its inode | `deploy_lock`: resolve, open, flock or refuse, release; dies with its process | deploy, rollback, rotation, restore |
| Deploy engine (`deploy/runner.py`, `diff.py`, `state.py`) | `docker-compose.yml`, `.env`, `version.env`, `descriptors/`, `deploy-state.json` (the *passport*); containers | `deploy`, `rollback`, the rollback inside a failed deploy | lock, snapshot store, Docker, the upgrade command |
| Snapshot store (`deploy/snapshot.py`) | `~/.local/share/agmind/snapshots/<id>/` with `meta.json` written last | `save`, `list`, `latest`, `get`, `prune_old` | engine |
| Upgrade command (`cli/upgrade_cmd.py`) | image pins in descriptors, `upgrade-state/*.json` | `--apply`, `--component`, `--rollback`, holds | engine, passport |
| Secret rotation (`cli/ops_cmd.py`, `ops/rotate.py`, `install/secret_keys.py`) | `.env`, secret files, `.env.pre-rotation.*` | `rotate-secrets`, `--no-recreate` | lock, compose, the engine's snapshots of `.env` |
| Wizard and `install` (`cli/tui/`, `cli/install_cmd.py`) | the setup state, screens with their event queues, `setup-state.json` | screens, Apply, Ctrl+S, `--no-tui`, `uninstall` | service selection, install screen |
| Install orchestrator (`install/`) | secrets in memory, `.env`, `version.env`, secret files, configurations, boot unit, `credentials.txt` | the steps in order; cancel, watchdog, retry | engine (its deploy step), rotation (through `.env`), model files |
| Backup and restore (`ops/backup*.py`, `ops/dr_drill.py`) | archives, the data-backup marker, moved-aside targets | `backup`, `restore`, `dr-drill` | engine's stateful guard, running services |
| Backup timer (`cli/ops_cmd.py`, `ops/offhost.py`) | two unit files, and what systemd read of them | `backup-timer` install and uninstall, the nightly run | backup, a remote |
| Model files (`install/steps/models.py`, `models/`, `cli/models_cmd.py`) | model file, partial, fallback copy, verify marker; the catalog | the installer's download, `pull`, `download`, `rm`, `verify`, `path` | installer, publisher |
| Migrations (`migrations/`) | `schema.json` | `up`, `down` | the state they migrate |
| Garbage collection (`deploy/gc.py`) | none of its own | containers, images, volumes, networks, model files; dry run | Docker, descriptors, catalog |
| Service selection (`services/selection.py`) | none | closure over stacks, dependencies and providers | wizard, engine |
| Renderer and checks (`services/renderer.py`, `topology_checks.py`, ...) | none | `render compose`, scenarios, the checks of a commit | engine, CI |
| Kubernetes output (`services/kubernetes_*.py`) | a proof bundle in a directory | render, dry run, verify | a cluster, the catalog |
| Validation and rehearsal (`config/validation.py`, `install/verify.py`) | kept work directories | `config validate`, `verify install` | everything they read |
| File helpers (`core/files.py`, `_write_text_maybe_sudo`, `_write_unit_file`) | temporary files | replace a file | every component above |
| Compute, cluster, diagnostics, audit, Proxmox | none, or other hosts' | probes, reports, external calls | |

`PROJECT.json` lists each with its status.

### What is hard, and what correct means

- **Deploy lock.** Two processes must never be inside for one install
  directory, whatever the order in which they open, create, lock and release
  the file, die, or are turned away, and whatever an operator does on the log's
  advice to delete a lock file. The kernel locks the inode, not the name.
- **Deploy engine and store.** The compose file is overwritten *before* pull,
  up and health; everything after that can fail or die. From that moment the
  store must hold a complete snapshot of what was there, and nobody's save or
  prune may take it away. The passport must only ever name a deployment that
  was healthy, also after a rollback. An apply must not silently drop a service
  of the recorded baseline. Every operation must end and give the lock back.
- **Rotation.** One secret has three homes (`.env`, a secret file, the
  environment of containers) which are changed one after another. A rotation
  must bring them together again whatever earlier failures left behind, and the
  secret the server runs with must not be lost.
- **Installs.** The orchestrator writes without the lock, may be killed between
  any two writes, and is run again with other services. A database must still be
  opened with the secret it was initialised with; after a reboot exactly the
  last install's services must come back; the screen's worker, Cancel, Retry and
  unmount run in any order, a second screen may be put on top, and none of it may
  run two workers for one screen, or two `compose up`, or leave a secret behind.
- **The wizard.** Checkbox events are handled late and post events of their own.
  What Confirm showed is what is installed, what is installed is a selection the
  renderer accepts, and a second run keeps the first one's services.
- **Two records in two steps.** Pin and state file, target and staged copy,
  model file and marker, migration and `schema.json`, unit file and systemd:
  each has a window in which a death or a failure leaves one without the other.
- **What a report says.** A validation that found nothing, a proof bundle that
  verifies, a dry run's list, a check of a commit: each must mean what the next
  command relies on.
- **Placing a file.** Many writers, one path; a reader must see a whole version
  and a returned write must last.

## 2. The modules

| Module | What it is | Runs |
|---|---|---|
| `AbstractLock` | what `deploy_lock` promises for one install directory: a region for one process, refusal instead of waiting | `delivery` |
| `DeployLock` | the lock file, the flock, the three error paths of the open, death, and the operator who deletes a lock file | `delivery` |
| `DeployContract` | what the engine promises: operations in sequence, each ending *unchanged*, *deployed*, *undone*, *restored* or *torn* | `deploy_engine` |
| `DeployEngine` | `deploy`, `upgrade --apply`, `rollback`, the snapshot store, the compose child, the unlocked installer writes | `deploy_engine`, `deploy_liveness` |
| `SecretRotation` | `rotate-secrets` among installs, deploys and rollbacks | `secret_rotation` |
| `ConfigValidation` | `config validate` on a host that installs, deploys and accidents change | `secret_rotation` |
| `FileWrites` | the four ways in which the program puts a file in place | `secret_rotation` |
| `UpgradePins` | `upgrade --component` and `--rollback` | `operations` |
| `Backup`, `BackupSchedule` | backup, restore, drill; the timer and its nights | `operations` |
| `Migrations` | `migrate up` and `down` | `operations` |
| `ModelStore`, `ModelCatalog` | one model file and everything that fetches it; which file a host gets | `operations` |
| `GarbageCollection` | `gc` | `operations` |
| `ServiceSelection` | the closure of a selection and the renderer's gates, as operators | `install` |
| `SetupWizard` | the wizard, its unattended twin, and the run after it | `install` |
| `InstallRun` | the install screens, their workers, watchdogs and children | `install` |
| `InstallPipeline` | `default_steps` and what they leave on a host | `delivery` |
| `InstallVerify` | `verify install` | `delivery` |
| `ComposeRender` | checks of a commit, `render compose`, networks and routes | `delivery` |
| `KubernetesRender`, `DryRunEvidence` | placeholders and secrets in manifests; the proof bundle | `delivery` |
| `MC...` | instances for TLC: processes, services, requests, symmetry | |
| `DeployLock_proofs`, `DeployEngine_proofs`, `FileWrites_proofs` | theorems and TLAPS proofs about the module of that name | |
| `DeployContract_proofs` | that `DeployEngine` implements `DeployContract` | |
| `SecretRotation_proofs` | about `SecretRotation` and `ConfigValidation` | |
| `Install_proofs` | about `ServiceSelection`, `SetupWizard`, `InstallRun` | |
| `Operations_proofs` | about `UpgradePins`, `Backup`, `BackupSchedule`, `Migrations`, `ModelStore`, `ModelCatalog`, `GarbageCollection`: the commands without a deploy lock | |
| `Delivery_proofs` | about `InstallPipeline`, `InstallVerify`, `ComposeRender`, `KubernetesRender`, `DryRunEvidence` | |

`DeployLock` implements `AbstractLock` once per install directory; `DeployEngine`
and `SecretRotation` are built on an instance of `AbstractLock`; `DeployEngine`
implements `DeployContract`; `SetupWizard` extends `ServiceSelection`. The
engine and the rotation model each other's effects on the files they share, and
the installer's. `MCOperations`, `MCInstall`, `MCDelivery` and
`MCSecretRotation` put several components into one run: these share no state,
and a behaviour steps through one of them, chosen at the start by `part`.

### DeployLock and `core/locks.py`

A lock path is a directory (`LockDir`: `XDG_RUNTIME_DIR`, else a per-uid
directory in the system's temporary directory) and an install directory (its
digest is the file's name). `lockFile` maps a path to the inode and owner it
leads to; `fd` is the inode a process has open. `LockCreate` and `LockReopen`
are the two outcomes of `open(..., "w")`; `LockDenied` is EACCES (refused, and
the log prints the advice to delete the file); `LockUnavailable` is any other
OSError, which lets the caller in *without a lock*; `LockGranted` and `LockBusy`
are the two outcomes of the non-blocking flock; `LockRelease` closes the file
without unlinking it. `LockDie` closes the process's files at any step.
`ClearLockFile` is the operator. With `OperatorChecks` the operator deletes a
lock file only when no operation is live.

### DeployEngine and `deploy/`

`files` is the install directory as five slots, `running` the image each
service's container runs, `store` the listed snapshots. A compose file is
abstracted to the image it gives each service (`Config`); the passport to the
`Config` it was written for; other files to a `Text`. `pc` names the point in
`_deploy_impl`, `rollback` or `_rollback_to_snapshot`. One action is one step
another process can come between: reading the baseline before the lock
(`ReadBaseline`, `BeginUpgrade`), getting the lock, the guards as one decision
on the files (`MayProceed`), copying each file into the snapshot, `meta.json`,
pruning, overwriting the compose file, pull, `up`, each container the compose
child changes (`ChildMove`), the health wait, the passport, and each file a
rollback restores. A restore of the descriptor tree that is cut off between its
removal and its copy leaves no tree (`SwapCutOff`). `StepFail` and `Die` can
come at every step. Files written through a temporary file and a rename are
single steps.

`orphans` are compose children that outlive their parents: they run in a
session of their own and may belong to root. `verified` and `before` are
history. Two switches, `OrphansSurvive` and `PruneTears`, say whether compose
children outlive a dead parent and whether a removal that fails half way can
leave a snapshot that is still listed.

### SecretRotation and `cmd_rotate_secrets`

Secrets are numbered; 0 is the installer's. `env`, `secret` and `runs` are the
three homes, `saved` the `.env.pre-rotation.*` copies, `snaps` the `.env` of the
snapshots. A rotation is `KeepOld`, `RewriteEnv`, `RewriteFile`, `ListHolders`
(or `ListNothing`, when `docker ps` fails), `Recreate` for each container in two
steps, and its end. A deploy or rollback is what it does to the secret: it
saves, restores and applies `.env`, does not touch the secret file, and `up`
recreates exactly the containers whose configuration changed, which the contents
of a mounted file are not part of. An install writes the file and `.env`, in
either order (with and without sudo), before its deploy step asks for the lock.
`Restart` is Docker restarting a container, which reads the file again and keeps
its environment. `accidents` is history.

### FileWrites and ConfigValidation

`way` says which of the four ways each writer of one path uses:
`write_text_atomic` (temporary file, fsync, mode, rename, fsync of the
directory), the plain temporary file and rename of `_write_text_maybe_sudo`,
the fixed temporary name of `_write_unit_file`, or a staged copy and `sudo
install`. A file is an inode with two pieces of text; `entry` is the directory;
`onDisk` and `pending` are what a loss of power (`Outage`) may leave. A writer
may be `Killed` or meet `DiskFull` at every step.

`ConfigValidation` keeps of `.env` the state of each setting (empty, good, weak,
a placeholder), of each secret file whether it is missing, a file, or the
directory that Docker makes of a missing mount, of the stack what is deployed
and what runs. `Validate` reads them as root or not, and with Docker unasked,
silent, blind to the project, or answering. `_check_secret_files` takes whatever
it can stat for the file; its look at a reader's rights has no file to look at,
since `DB_SECRET_FILE_READER_UID` is empty.

### UpgradePins, Backup, BackupSchedule

`pin` is a descriptor's image line and digest line; `saved` the state files,
named by the second and the component. `BumpMember` is one member of a
component, `SaveUpgradeState` comes after them all; a command may die at each.
`cmd.todo` are the places in the plan still to do, taken in their order.
`BeginRollback` takes the lexically latest name. `undo` is history: the pins before
each completed bump, and `nth` of a state file the place in it. The one digest
that an operator gives for a component is written to every member that moves,
also to one of another image (`dify-web` beside `dify-api`).

In `Backup`, `live` is what each file or database holds, `dir` what is at the
three paths of a directory that is being replaced (target, staged copy,
moved-aside copy), `archives` what each finished archive has of each member.
A restore goes through the members in the archive's order (`job.todo` with
`Turn`): stage, move aside, move in, clean up, or pipe a dump into a running
container. The stack writes beside it. Integrity is checked before the first
member is touched. `LoadDump` tells three kinds of dump apart. The globals of
postgres go through a psql that carries on after errors and exits 0, so that a
partial load is reported as restored. A `pg_dump` has no `--clean` and is loaded with
`ON_ERROR_STOP`: over tables that are there it fails at the first one, or half
way (`Clashes`), and loads only into a new data directory (`Reinitialise`). A
mysqldump drops each of its tables first.

`BackupSchedule` separates `unit`, the files, from `loaded`, what systemd read of
them; `WriteUnit`, `ReloadUnits`, `EnableTimer` are the install's steps, and
`TimerFires` runs what systemd has loaded.

### Migrations, ModelStore, ModelCatalog, GarbageCollection

`effect` are the migrations that have taken effect, `schema` is `schema.json`, a
command reads it when it starts and writes it when its loop ends. A migration
may fail, a migrator may die.

A model file is the sequence of chunks that were written to it, each named by
the revision it came from. `fetch` is each process's command with the name its
open descriptor leads to, since a curl goes on writing after its file was
renamed. `ModelCatalog` resolves tier and kind through `models.yaml` for
`download`, `verify` and `path`, on a host whose memory and catalog change.

`gc` runs container, image, volume, network and model removal one after
another, each on what the one before left, while services start and stop, images
age, and descriptors are edited. `shown` is what the last dry run listed, `gone`
what a run removed.

### ServiceSelection, SetupWizard, InstallRun

`Closure` is the loop of `resolve_service_selection` as a recursive function
over sets; `Renders` is what the renderer accepts. The wizard keeps the setup
state, the checkboxes of each screen and the `Changed` events that the screen
has not handled yet; a click changes the box at once and queues an event, which
the app handles one at a time (`CheckboxChanged`), also after the operator has
gone on to the next screen. `hasty` remembers that a box was turned while events
of its screen were waiting.

Ctrl+S is a binding of the app, so that it acts on the install screen as well
(`CtrlS`). In `SetupWizard` that submits the state once more; in `InstallRun`,
which has the screens, it pushes another one with a configuration and a run of its
own (`PushScreen`). Each screen has its `runActive`, `canceled`, `secret` and
`backup` (the copy that Retry uses); a thread worker belongs to one of them.
Presses reach the screen on top only; what a screen's dismissal calls ends the
app, which unmounts the screens below (`AppExits`). A step runs children, which
may hang, each with a watchdog. The worker's checks before a step (`PassGate`,
`CancelledBetweenSteps`) are steps of their own. The deploy step takes the deploy
lock (`TakeLock`): flock belongs to the open file, so that it also keeps two
threads of one process apart.

### InstallPipeline, InstallVerify

A behaviour of `InstallPipeline` runs up to three installs, deploys and
uninstalls on one host. Generated secrets are numbered. `env_write` is its
writes one by one, in the order of the root path and of the sudo path; a
configuration is moved aside and in; Docker makes a directory of a missing mount
(`MakeMounts`). `Uninstall` removes the install directory, the data and the
configuration one after another, ignores their exit codes and may be cut off:
any of them may stay, and so may containers. `data` is the secret a database was
initialised with. `unit` is the boot unit with the profiles it passes to
compose. `InstallVerify` runs the same writes and reads them back, per scenario,
in a work directory that may be kept.

### ComposeRender, KubernetesRender, DryRunEvidence

`ComposeRender` takes a catalog (`descriptors`), runs the checks of a commit on
it, and renders any combination of profiles or services in any project; the
result is the stack's networks and the label that pins one. `KubernetesRender`
takes values as sequences of text, `${NAME}` holes in their four forms, and
`$(NAME)` references, and follows them into the manifest, the Secret and the
warnings. `DryRunEvidence` is a run of the proof over the targets, writing
manifest and report of each, then metadata, command, summary and checksums, into
a directory that may hold those of an earlier run.

## 3. What the runs check

Passing runs:

| Run | Bounds | What it shows |
|---|---|---|
| `deploy_engine` | 2 processes, 2 services (one stateful), 3 compose files (one never healthy), 4 kinds of request, 2 snapshots, retention 1, 1 installer write, 1 death | `OneComposeAtATime`, `RollbackPoint`, `PassportVerified`, `RecordedServicesKept`, and that the engine implements `DeployContract` |
| `deploy_liveness` | 2 processes, 1 snapshot, 2 deaths, compose children that survive; an apply, an upgrade that never becomes healthy, a rollback; fairness | `LockComesFree` |
| `secret_rotation` | rotation: 2 processes, 2 rotations, 1 death, a server that reads `.env` and a service that reads the file, 5 kinds of request. Validation: 4 services, 3 selections, 1 accident, 2 releases. Files: 2 writers of any ways, 2 writes, 1 loss of power | `RotationHeals`, `SkewNeedsAccident`, `ServerSecretOnRecord`; `OkMeansStarts`; `ReaderSeesWhole`, `ReturnedLasts` |
| `operations` | pins: 4 descriptors, three of one component and of two images, 3 bumps, 2 seconds, 1 death. Backup: 5 members (a file, a volume, three kinds of dump), 1 archive, 2 restores, 1 fault, 1 write of the stack or new data directory. Timer: 2 commands, 2 nights, 1 failure or reboot. Migrations: 2 migrators, 3 commands, 1 break. Models: 2 processes, 2 runs, 1 network fault. Catalog: 4 commands, 1 accident, 3 catalogs. gc: 2 runs, 1 change | `MatchedPins`, `RollbackUndoes`; `OneCopyLeft`, `MarkerMeansData`, `RestoreConverges`; `InstalledFires`; `RecordedInEffect`; `DownloadVerified`; `DownloadedVerifies`; `RemovedWasListed`, `NamedModelsKept` |
| `install` | a slice of 8 services of the catalog, 2 departments, 3 starts or toggles; 2 install screens, 2 workers, 3 steps, 2 retries, fairness | `AppliedServed`, `PickStands`, `ConfirmedIsInstalled`, `RerunKeeps`; `WorkersApart` (`OneRunPerScreen` and `OneComposeUp`), `SecretsGone`, `CancelEnds` |
| `delivery` | lock: 4 processes (two users), 2 installs, 4 lock directories, 4 inodes. Pipeline: 3 installs, 1 kill, 2 other events. Verify: 2 scenarios, 2 runs, 1 kill, 2 releases. Compose: every relation between two services, every network and group. Kubernetes: every catalog of one or two descriptors; 2 targets, 2 proofs, 1 damage | `SingleFlight`, `ImplementsAbstractLock`; `DataReadable`, `BootBringsBack`; `NoFalseAlarm`; `CheckedRenders`, `RoutesReach`; `PlaceholdersAccounted`; `PassedWasProven`, `CompletedVerifies` |

Why these bounds are enough to be interesting: the hazards involve one operation
in progress, a second one that gets in its way, and what one of them left when
it died. Two processes run any number of operations one after another, so
histories are long although few things happen at once. Retention of one and two
snapshots make the second save prune the first. Two rotations, two restores, two
migrations, two writes give an interrupted one and the one that repairs it; three
installs give one that was interrupted, one with other services and one that
finds both. Two install screens are what one Ctrl+S too many makes; a third
adds only another worker that waits for the same lock. In `operations` no member
is a directory of files, since it is replaced as the volume is; the servers of
the three dumps and of the volume are one service, which goes up and down as a
whole, so that an archive of data has all four or, when Docker names no
container, none; an archive has at most one rotten member, as one is enough for the check before the restore.
Three bumps give a rollback of the newest with two older ones. The
pure functions are checked over every input of a small shape: every combination
of relations between an application and what it rests on, every form of
placeholder in every position. `secret_rotation` stops exploring once an
installer has raced another operation (`Unraced`): its properties promise
nothing after that.

`CHECK_DEADLOCK FALSE` is set where a bounded number of commands ends and nothing
is left to do (`operations`, `install`, `delivery`).

Runs that end in a counterexample, each against a sentence of the program's own
documentation; `PROJECT.json` quotes it:

| Run | Property | Story |
|---|---|---|
| `lock_mixed_env` | `SameUserSingleFlight` | a login session and a scheduled job of one user resolve different lock files and are both inside |
| `deploy_orphan` | `OneComposeAtATime` | a deploy dies, its root-owned compose child lives on, the flock is free, a second `up` starts |
| `stateful_evidence` | `StatefulBackupEvidence` | a deploy dies after overwriting the compose file; its retry sees no change on disk and skips the backup guard |
| `install_reconcile` | `InstallReconciles` | rotate, roll back across it, install as `verify` advises: the file is rewritten and the service that reads it is not restarted |
| `drill_live_db` | `DrillLeavesLive` | a drill with data takes the dumps for configuration labels and loads one into the live database |
| `uninstall_keeps` | `KeptDataReadable` | an uninstall keeps the data and removes `.env`; the next install generates a new password for it |

Each property of a passing run has a mutant, a plausible bug in the definition
it guards, marked `Bug:` in the modules; TLC finds the property violated when
the mutant takes the definition's place.

### What the properties exempt

A property that names its exceptions says more than one that hides them. Each
exemption is a ghost variable or an explicit antecedent, set only by the event
named here:

- `RollbackUndoes`: a bump that died before it saved its state, and two saves
  within one second (`upset`). Nothing tells the operator of either.
- `OneCopyLeft`: the retry through sudo, which removes the moved-aside copy
  before it moves the new one in (`resudo`).
- `RestoreConverges`: a restore that went on beside a running writer because
  `docker ps` failed; the globals of postgres, of which a failed statement is not
  reported; an empty dump, which replaces nothing. Of a mysqldump the property
  speaks of the tables it names. It says what a restore that reports success has
  done; that one of a `pg_dump` succeeds over existing tables it does not say,
  and the code does not do: every attempt fails until the server has a new data
  directory.
- `WorkersApart`: that only one install is at work is *not*
  claimed, since it is not so. Ctrl+S on the install screen starts a second one,
  whose steps run beside those of the first, writes of `.env` included, although
  `core/locks.py:55` relies on "the TUI guard" in the app. What is claimed is
  what remains: one run for each screen, and one `docker compose up` in all.
- `RecordedInEffect`: two migrators at once (`crossed`), a `down` that broke off
  with something reverted (`lostDown`).
- `DownloadVerified`: two commands at work on one file at once (`overlapped`).
- `InstalledFires`: an operator who has begun another `backup-timer` command.
- `DownloadedVerifies`: damage, another catalog or another amount of memory since
  the download (`settled`).
- `RemovedWasListed`: containers that were never started, volumes held only by
  containers that the same run removed, networks (never listed).
- `DataReadable`, `BootBringsBack`: an uninstall that took `.env` and left the
  data with their secret file (`keptData`), because it was asked to, or because
  a `--data` wipe was cut off or failed between the two: the state that
  `uninstall_keeps` shows; an install that died between a secret file and its
  `.env` and was followed by one without the database (`stray`); a `deploy` or an
  uninstall, which leave the unit (`armed`), and a kill between the two renames
  of a mounted configuration.
- `OkMeansStarts`: whatever has changed since the validation, and what the code
  does not look at: a directory in a file's place, the files of Authelia's
  consumers, a weak secret that is used through a file. A user who is not root is
  told nothing of the secret files, so that their being there is vouched for only
  if root has looked, and that what is there is a file is not vouched for at all.
- `MatchedPins`: a digest may be that of another member of the component, of
  another image even, at the tag beside it, since `--digest` goes to them all.
- `PlaceholdersAccounted`: an argument that mixes a secret with a hole that would
  have resolved alone (`Mixed`), whose warning is judged on another form. That is
  a gap in the code, not in the model.
- `CompletedVerifies`: runs with a failed render, whose report names a manifest
  that was never written.
- `ReaderSeesWhole`, `ReturnedLasts`: they hold for `write_text_atomic`, the first
  also for the plain temporary file while the power stays on; a unit file's
  fixed temporary name and `sudo install` do not give them.
- `AppliedServed`: consumers of a model whose server the operator gave no model
  (`NoModel`), which the renderer lets pass.
- `PickStands`: sessions in which a box is turned while events of its screen wait
  (`hasty`). There the provider checked last may be lost:
  `on_checkbox_changed` reads `event.value`, the box as it was when the event was
  posted. Uncheck Qdrant, check it again and check Weaviate before the first
  event is handled: the handling of Qdrant's second event clears Weaviate's box,
  then Weaviate's own event clears Qdrant's, and none is left. Without its
  antecedent (`LastPickStands`) the property is violated by this path once
  `MaxActs` is 4; the inductive invariant of the proof was checked with 4 too.

### Fairness

`deploy_liveness` assumes weak fairness of each process's own next step and of
each compose child's next container change, and nothing of failures, deaths or
users. The program is a straight line with one loop, the health wait, which has
a deadline (`_wait_healthy`), so its steps are owed; the end of that wait is the
only failure that is. `docker compose pull` and `up` have *no* timeout in the
code: that they end, also as orphans (`OrphanExit`), is assumed of Docker, and a
registry that hangs is a hazard no model excludes.

`install` assumes weak fairness of the worker's own steps, of the watchdog, and
of the messages the app's thread has to handle, its own end after `exit()`
included (`RunFairness`); not of a child that hangs, nor of the operator. That
the watchdog's kill ends the child is the case the code handles: a child under
`sudo` cannot be signalled by an unprivileged user, and the steps that use plain
`subprocess.run` have no watchdog. In the wizard's behaviours of that run none
of these actions is ever enabled.

## 4. What is proved

TLAPS proves these for all values of the constants that satisfy the modules'
named assumptions. `LockConstants`, `EngineConstants`, `EngineRequests`,
`EngineNoSnap`, `EngineNoReq`, `RotationConstants`, `VersionAssumption`,
`FileAssumption`, `RemoteAssumption`, `PipelineAssumption`, `VerifyAssumption`,
`ScreensAssumption` and `EvidenceAssumption` say of what kind a constant is and
that the values that stand for "nothing" are no others. These say something of
the program's data:

- `MemberAssumption`: members have different places in an archive, and a member is
  of one kind, and so is a dump.
- `PinsAssumption`: the descriptors ship with pins that match, and a registry
  gives every published tag a digest.
- `CatalogAssumption`: the checks of a commit render every profile alone, `full`
  among them, and the edge, authelia and what has a route are on the default
  network. Every template of the catalog is so; no check demands it.
- `ValidationAssumption`: the settings of a service are settings, and its secrets
  are among them.
- `RenderAssumption`: more than one round, and descriptors hold text and
  placeholders, never `$(NAME)`.
- `ServiceAssumption`: the catalog is finite, and what a service depends on is in it.
- `NeedsAssumption`: the catalog has a provider of every capability that a service
  consumes and cannot do without.
- `ServersAssumption`: nothing names the server of a model in `depends_on`, and a
  service that consumes what it serves may be rendered without
  (`KNOWN_CROSS_PROFILE_CONSUMES` lists the pairs).
- `SelectionAssumption`: there is a service screen, and it shows services.
- `ExclusiveAssumption`: the vector providers serve no model, no stack has one as
  a part, nothing depends on one, they provide the same, and one screen shows
  them all. The descriptors and the departments of the wizard are so; no check
  demands it.

**DeployLock.** `LockTypeCorrect` needs nothing else. `SingleFlightHolds`,
`HolderKeepsNameHolds` and `LockRefinement` need `LockAssumptions`: processes of
one install resolve one usable lock directory, and nobody deletes the lock file
of a live operation. That is what the environment has to provide, and
`lock_mixed_env` is what happens without it. Mutual exclusion alone is not
inductive: it holds because whoever has the file open is still where the name
leads. `LockInv` conjoins the types, "a process past the open has a file",
`HolderKeepsName` and `SingleFlight`.

**DeployEngine.** `ShapeOK` (types, and what a process's place in the code says
about the lock, its snapshot and its child) carries the others.
`PassportVerifiedHolds` and `RollbackPointHolds` are unconditional, orphans and
torn prunes included. `PassportInv` adds that the snapshot a process holds has
a verified passport and that the target of a process about to record is
verified. `RollbackInv` adds that snapshot numbers only grow, so that the one an
apply has just saved is the newest and no prune takes it, and that nobody else
touched the files since the lock was taken. `OneComposeHolds` and
`RecordedServicesKeptHolds` assume that compose children do not outlive their
parents (`~OrphansSurvive`); `deploy_orphan` shows the first fail without that.

**DeployContract.** `EngineImplementsContract`: without orphans and without
prunes that leave part of a snapshot (`~PruneTears`), the engine is
`DeployContract` under the mapping at the end of `DeployEngine`. `ContractInv`
relates what an operation found to the install at each of its points: untouched
until the compose file is written, then the new file under the old passport,
then, on the way back, the snapshot's files as far as they were restored.
`Mapping` says what the contract's variables are by who holds the lock, and
`RefineStep` takes the engine's steps one by one: most of them are
stutters.

**SecretRotation.** `RotationShape` is the shape. `ServerSecretHolds` follows
from `RecordInv`: until a rollback across a rotation or a race, `.env` has the
newest secret, the process in the lock knows it until it changes it, and every
home holds a secret that `.env` or a copy records. `RotationHealsHolds` follows
from `HealInv`: past its files a rotation has them in step, and every holder out
of step is still on its list. `SkewNeedsAccidentHolds` needs both:
without an accident only a rotation at work leaves a difference.
`RotationTypeCorrect` is the type invariant. None of these bounds the number of
rotations, deaths or processes.

**ServiceSelection.** Nothing here is a property of a run; the lemmas are what the
wizard's theorems rest on. `Closure` is a recursive function, and what it
computes for every selection takes an induction over sets. It is done by the
largest counterexample: of a set of selections one has no larger one in the set
(`LargestExists`, from the library's theorem on strict subsets), and a turn of the
loop leads from a counterexample to a larger one. `GrownUnfolds`: the definition
of `Grown` has a solution, the selection to which the turns lead; so the recursive
function is one. `ClosureIsClosed`: a closure contains what it was given, and
another turn adds nothing to it. `ClosureKeeps`: what every turn keeps, it keeps.

**SetupWizard.** `WhatIsAppliedIsServed`: in a closed selection every service finds its
dependencies and a provider of what it consumes (`ClosedIsServed`); the
normalisation takes out servers of models only, which nothing depends on and
whose lack the renderer knows (`WithoutServers`). `RerunsKeepServices`, an action property:
while nothing is changed, what was saved stays selected, is checked on every
screen of the stack, and no event waits (`SavedIsSelected`); what was saved has its
models (`SavedHasModels`). `ThePickStands`: the events that the program posts agree
with the pick, and with them the boxes of the screen that shows it
(`Settling`), unless the operator's turn of a box is all that waits there (`Turned`); what
`Posted` posts is proved by induction on the boxes of the screen.

**InstallRun.** `WorkersStayApart` and `SecretsGoWithTheScreen`, for any number of screens, workers, steps and retries.
That a screen has one worker is not inductive: an old worker's finalizer frees
the slot. `RunInv` adds `SlotHeld`: while a worker is at work the slot of its
screen is taken, and it is the only one of that screen. `LockHeld`: one worker
has the deploy lock, and the deploy step's children are its. `SecretsGone` is
inductive beside them, since Retry, which puts the secrets back, needs its screen
to be there.

**FileWrites.** `ReadersSeeWhole` and `ReturnedWritesLast` for any number of
writers, kills and losses of power, when every writer uses `write_text_atomic`
(the first also for plain temporary files without a loss of power), and
`PrivateFilesStay`. The invariant says that a temporary name leads to its
writer's own inode (`Filling`), that every inode the path may lead to, now or
after a loss of power, is whole and on disk (`Sound`), and that what came after a
returned write came after it on disk too (`Lasts`).

**Migrations.** `RecordedAreInEffect`: `InEffect` adds to the property what a
command has in memory, its copy of `schema.json` and what it has run so far.

**GarbageCollection.** `NamedModelsAreKept`, an action property: `LeftUnnamed`
says that what a run is about to unlink is named by no source that parses, and
that it scanned only when all of them did. `RunsAsPreviewed`: `ListedInv` follows a run
through its phases, each of which looks at what the phase before has left. While
nothing changes beside it, what a phase still has to remove is on the list of
the last dry run, which went through the same phases without removing anything.

**UpgradePins.** `PinsAreMatched`: what a plan or a state file is going to write
matches too (`SavedFit`, `CmdFits`), and a tag moves without a digest only where
no digest is pinned (`TagOnlyRefused`, `LegacyRefused`).
`RollbackRestoresPins`, an action property: until an accident the state files and the
history of bumps are one stack (`FilesStacked`), the newest name is its top, each
file's plan tells the pins of its bump, and members that it does not
name have not changed until the next bump (`FilesTell`); `WorkTells` says the same
of a bump or rollback that is half way.

**Backup.** `OneCopyIsLeft` needs to tell none from one fault: with none the whole
tree is at its own path or aside, after one it is there or aside unless the new
tree is about to move in (`CopyInv`). `RestoresConverge` is an action property: what a
restore has done is in place (`RestoredSoFar`), which rests on a staged tree being
what the archive has (`RestoresArchive`). `MarkerNamesData`: a backup that is still whole has
every source of data in the archive or on its list (`MarkerCovers`).

**BackupSchedule.** `InstalledTimerFires`: what each step of an install has
written (`Written`), and that a reported remote is in the files as well as in
memory, so that a reboot does not change it (`ReportStands`).

**ModelStore, ModelCatalog.** `DownloadIsVerified`: a single command keeps, from the hash to
the marker, the bytes it hashed (`HashedHeld`). `DownloadsVerify`: what was fetched is what the
catalog resolves to now, and it is whole (`GotResolves`, `FilesWhole`).

**InstallPipeline.** `SecretsStayReadable`: `.env` is the record that an install takes its
secret from (`KeyKept`), and data, secret file and `credentials.txt` agree with it, except
for the moment in which root's install has written the file first (`CopiesAgree`).
`BootsAsInstalled`: while nothing else has chosen services, the unit's profiles are those of
the compose file and the database's file is there (`ArmedUnit`).

**InstallVerify.** `FailuresAreReal`: `WrittenSoFar` says what of a scenario's directory is of
this run by the step it is at, and nothing of the rest, which may be of any
earlier run. Every check reads what has been written by then.

**ComposeRender.** `ChecksCoverSelections`: a selection of profiles is covered
by the selections of its profiles alone, each of which lies within it
(`LanesCover`; `full` is one of them), and what refuses a render, a dependency
or a provider that is missing or an unknown network, is missing or unknown in
one of those already (`LanesSuffice`). `EdgeReachesRoutes`: what has a route is
on the default network of its project, and is pinned to it when on another too.

**KubernetesRender.** `NoPlaceholderLost`: an argument of the manifest is one of the
descriptor's with its secrets replaced by references; each reference is of a name
that the container's environment gets (`CommandSecrets`), each hole left is of an argument
that does not resolve, which is what the warning is for.

**DryRunEvidence.** `VerifiedWasAccepted`: a report that says passed is of a
manifest that was accepted, as long as the file is still the one it names
(`RunProven`), and what the checksums seal has that too (`SealedProven`), so
that nothing that happens to the files afterwards verifies as something else.
`CompletedBundlesVerify`: what an undisturbed run has written so far is what the
verification will look for (`CleanRun`).

**ConfigValidation.** `ValidationMeansStart`: `OkMeansStarts` is inductive with the shape
of the host, since every change takes the validation back. Of a secret file it
can only say that something is in its place.

**Only model-checked.**

- `LockComesFree` and `CancelEnds`: liveness, for which the provers have nothing here.
- `ConfirmedIsInstalled`: events of the screens below may be handled while the Confirm
  screen is shown, from boxes that still show what the normalisation has taken
  out. That handling them changes nothing that is installed depends on what
  the catalog's services consume of one another, more than can be
  assumed of every catalog.
- The constants of a theorem may be infinite or large; the runs' bounds (numbers of
  commands, faults, events) are constants too, so the theorems hold for any of
  them.

The runs that end in counterexamples need no proof.

## 5. Assumptions and omissions

- One install directory in the engine. The snapshot store is one per host while
  the lock is per install directory: two installs that share a store can prune
  each other's rollback point, which is outside the models.
- A snapshot directory without `meta.json` is never listed and is left out of
  `store`.
- The runs assume that removing a snapshot is not torn (`PruneTears = FALSE`);
  the proofs do not. A torn snapshot that is still listed and then chosen by
  `rollback <id>` restores half of it.
- An `up` reports success only when the containers are what its own compose file
  says, also when an orphan is at work on them.
- The freshness of the data-backup marker is an input of the engine's guard.
  `Backup` keeps no clock: the marker's time is that of the stamp, not of the
  dump.
- Dry runs and plans of `deploy` change nothing and are left out.
- Rotation covers one key at a time. Keys are independent but for the one
  `.env` write and the one list of holders. In-database resets of the
  init-only bucket are the operator's.
- A rotation's compose child ends with its parent. The copies of the old `.env`
  are named by the second and two rotations are taken to be a second apart;
  closer ones overwrite the copy, which is `KeepOldOverwrites`.
- Retention is left out of `SecretRotation`: pruning only takes choices away.
- `InstallPipeline` has one generated secret, one mounted configuration and one
  database. Each path that an uninstall removes goes whole or stays whole. A
  non-root install's direct write fails at once, so it is the sudo path. The
  deploy step may pass, fail or leave services down; `DeployEngine` has the
  detail. Steps that fail without a sudo password end the install in
  `bootstrap`.
- `Rounds` of `KubernetesRender` is 2 where the code has 10; no value of the run
  has more than two holes. Nested `${A:-${B}}` is not modelled.
- `ModelStore` is one model file; the files of a catalog are independent.

### Not modelled

- `ImagePullStep`: it is not in `default_steps`; the deploy step pulls.
- `_check_proxmox_config_staged` and the Proxmox inventory and exporter, deploy
  targets: validation and export of one file, with no state.
- Staging of Alertmanager, Authelia and Squid configurations beyond success or
  failure: templates are text.
- Named volumes and ingresses in Kubernetes manifests, the wording of the
  topology and version reports, argument parsing, progress display: text.
- The deploy screen and the status dashboard: views over the engine's callback.
- Compute backends, cluster probes, doctor, audit, governance, CI monitor, load
  tests: they read the host or a network and report. Each check is independent
  of the others, so that there is no sequence to explore.
- What rclone, restic, Cloudflare and the model publisher do with what they are
  sent.

## 6. Plan

What a continuation would take up, in this order:

1. `ConfirmedIsInstalled`: which property of a catalog makes the handling of late
   events harmless, and the theorem from it.
2. A second install directory that shares the snapshot store.
3. Steps of the descriptor-tree restore in `DeployEngine` in place of
   `SwapCutOff`.
