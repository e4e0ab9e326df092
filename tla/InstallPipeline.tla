----------------------------- MODULE InstallPipeline -----------------------------
(***************************************************************************)
(* The stock pipeline of `agmind install`, default_steps, and what it leaves *)
(* on the host: the generated secrets in .env, in the database's secret file *)
(* and in credentials.txt, a bind-mounted configuration, the compose file,   *)
(* the boot unit. Installs are killed and run again with other services,     *)
(* `agmind deploy` and `agmind uninstall` come in between, the host reboots. *)
(* Of the secrets one is modelled, a database's password: the database takes *)
(* it from its secret file when it starts on an empty data directory.        *)
(***************************************************************************)
EXTENDS Naturals, FiniteSets

CONSTANTS
  Selections,     \* sets of services that are installed or deployed
  database,       \* the service with the secret file
  proxy,          \* the service whose configuration is a mounted file
  ProfilesOf,     \* service -> its compose profiles
  NoConfig, Dir,    \* no file; the directory Docker makes of a missing mount
  MaxInstalls, MaxStops, MaxHostEvents  \* bounds

\* A generation of the secret is a number; every descriptor has a profile.
ASSUME PipelineAssumption ==
  /\ Dir \notin Nat
  /\ \A services \in Selections : \A s \in services : ProfilesOf[s] # {}

VARIABLES
  at,             \* step of the install at work, "idle" when none is
  asked,          \* its configuration: services, and whether root runs it
  secretKey,      \* the secret as _runtime_env has it
  envFile, secretFile, creds,         \* generation of the secret in each, 0 for no file
  conf,           \* the mounted configuration: NoConfig, "file", Dir
  compose,        \* services of the compose file, {} when there is none
  serving,        \* services that run, with the files they need
  data,           \* secret the database was initialised with, 0 when empty
  unit,           \* the boot unit: profiles it passes, and enabled
  made, installs, stops, events,
  keptData,       \* ghost: an uninstall took .env and left the data and its secret file
  stray,          \* ghost: a secret file was written and its .env was not
  armed,          \* ghost: services of the last install, while nothing else chose any
  booted          \* ghost: the boot unit was the last to act

pipelineVars == <<at, asked, secretKey, envFile, secretFile, creds, conf, compose, serving,
                  data, unit, made, installs, stops, events, keptData, stray, armed, booted>>
files == <<envFile, secretFile, creds, conf>>
host == <<compose, serving, data, unit>>
counters == <<made, installs, stops, events>>
ghosts == <<keptData, stray, armed, booted>>

NotAsked == [services |-> {}, root |-> FALSE]

(* default_steps, with the writes of env_write in the order of each path.   *)
NextStep(root) ==
  [doctor |-> "cloudflare", cloudflare |-> "bootstrap", bootstrap |-> "env_write",
   env_write |-> IF root THEN "secret_files" ELSE "env_file",
   secret_files |-> "move_aside", move_aside |-> "move_in",
   move_in |-> IF root THEN "env_file" ELSE "compose_config",
   env_file |-> IF root THEN "compose_config" ELSE "secret_files",
   compose_config |-> "models", models |-> "deploy", deploy |-> "gpu_metrics",
   gpu_metrics |-> "boot_unit", boot_unit |-> "credentials", credentials |-> "idle"]
Strays == stray \/ secretFile \notin {0, Dir, envFile}
Proceed == at' = NextStep(asked.root)[at] /\ UNCHANGED asked

(* The process ends, and what it was asked and had made is gone with it.    *)
Ends == at' = "idle" /\ asked' = NotAsked /\ secretKey' = 0

-----------------------------------------------------------------------------
(* The steps                                                               *)

BeginPipeline(services, root) ==
  /\ at = "idle" /\ installs < MaxInstalls
  /\ at' = "doctor" /\ asked' = [services |-> services, root |-> root]
  /\ installs' = installs + 1 /\ booted' = FALSE
  /\ UNCHANGED <<secretKey, files, host, made, stops, events, keptData, stray, armed>>

Passes ==
  /\ Proceed
  /\ UNCHANGED <<secretKey, files, host, counters, ghosts>>

(* An install stops at the first step that fails; the last three never do.  *)
Stops ==
  /\ Ends /\ stray' = Strays
  /\ UNCHANGED <<files, host, counters, keptData, armed, booted>>

DoctorStep == at = "doctor" /\ (Passes \/ Stops)

(* Without traefik there is no token to check.                              *)
CloudflareTokenStep == at = "cloudflare" /\ (Passes \/ (proxy \in asked.services /\ Stops))

(* Packages, groups and the owners of directories.                          *)
BootstrapStep == at = "bootstrap" /\ (Passes \/ Stops)

ComposeConfigStep == at = "compose_config" /\ (Passes \/ Stops)

ModelDownloadStep == at = "models" /\ (Passes \/ Stops)

GpuMetricsStep == at = "gpu_metrics" /\ Passes

(* A cancel is noticed between two steps.                                   *)
CancelInstall ==
  /\ at \in {"doctor", "cloudflare", "bootstrap", "env_write", "compose_config", "models",
             "deploy", "gpu_metrics", "boot_unit", "credentials"}
  /\ Stops

WriteFails == at \in {"env_write", "env_file", "secret_files"} /\ Stops

(* A configuration is built beside its target, which the builder leaves as   *)
(* it is when a template, a secret of it or the directory cannot be written; *)
(* of the two renames that follow, a second that fails undoes the first.     *)
StagingFails == at = "move_aside" /\ Stops

\* Bug: an install makes every secret anew.
RuntimeKeyFresh == made + 1

(* _runtime_env: what .env has, else a new secret.                          *)
RuntimeKey == IF envFile # 0 THEN envFile ELSE made + 1

(* Files that are about to be written are no directories: the guard script   *)
(* of the sudo path; the other fails at the secret file, and replaces the   *)
(* configuration's whole directory.                                         *)
TargetsSafe ==
  /\ database \in asked.services => secretFile # Dir
  /\ proxy \in asked.services /\ ~asked.root => conf # Dir

EnvWrite ==
  /\ at = "env_write" /\ TargetsSafe
  /\ secretKey' = RuntimeKey
  /\ made' = IF secretKey' = made + 1 THEN secretKey' ELSE made
  /\ Proceed
  /\ UNCHANGED <<files, host, installs, stops, events, ghosts>>

WriteEnvFile ==
  /\ at = "env_file"
  /\ envFile' = secretKey
  /\ Proceed /\ stray' = (stray /\ (data # 0 \/ secretFile # envFile'))
  /\ UNCHANGED <<secretKey, secretFile, creds, conf, host, counters,
                 keptData, armed, booted>>

WriteSecretFile ==
  /\ at = "secret_files"
  /\ secretFile' = IF database \in asked.services THEN secretKey ELSE secretFile
  /\ Proceed /\ stray' = (stray /\ (data # 0 \/ secretFile' # envFile))
  /\ UNCHANGED <<secretKey, envFile, creds, conf, host, counters, keptData, armed, booted>>

(* _replace_path_atomic, twice a rename; the sudo path copies over the file. *)
MoveConfigAside ==
  /\ at = "move_aside"
  /\ conf' = IF proxy \in asked.services /\ asked.root THEN NoConfig ELSE conf
  /\ Proceed
  /\ UNCHANGED <<secretKey, envFile, secretFile, creds, host, counters, ghosts>>

MoveConfigIn ==
  /\ at = "move_in"
  /\ conf' = IF proxy \in asked.services THEN "file" ELSE conf
  /\ Proceed
  /\ UNCHANGED <<secretKey, envFile, secretFile, creds, host, counters, ghosts>>

-----------------------------------------------------------------------------
(* Docker                                                                  *)

(* A container that starts has its missing mounts made as directories; the   *)
(* database and the proxy do not run with a directory for a file.           *)
MakeMounts(services) ==
  /\ secretFile' = IF database \in services /\ secretFile = 0 THEN Dir ELSE secretFile
  /\ conf' = IF proxy \in services /\ conf = NoConfig THEN Dir ELSE conf

CanRun(s) ==
  /\ s = database => secretFile' # Dir
  /\ s = proxy => conf' # Dir

(* The database initialises when its data directory is empty.               *)
Initialised == IF data = 0 /\ secretFile' # Dir THEN secretFile' ELSE data

(* deploy(): all of the selection runs and is healthy; or it fails, and some *)
(* of it runs, with the file from before or the new one, and the database    *)
(* may have initialised. DeployEngine has the detail.                       *)
DeployPasses(services) ==
  /\ MakeMounts(services)
  /\ \A s \in services : CanRun(s)
  /\ compose' = services /\ serving' = services
  /\ data' = IF database \in services THEN Initialised ELSE data

DeployFails(services) ==
  /\ MakeMounts(services)
  /\ compose' \in {compose, services}
  /\ serving' \in SUBSET {s \in serving \cup services : CanRun(s)}
  /\ data' \in IF database \in services THEN {data, Initialised} ELSE {data}

DeployStep ==
  /\ at = "deploy"
  /\ \/ DeployPasses(asked.services) /\ Proceed /\ UNCHANGED secretKey
     \/ DeployFails(asked.services) /\ Ends
  /\ armed' = {}
  /\ UNCHANGED <<envFile, creds, unit, counters, keptData, stray, booted>>

\* Bug: the unit runs a bare `compose up -d`.
UnitProfilesNone(services) == {}

(* _selected_compose_profiles                                               *)
UnitProfiles(services) == UNION {ProfilesOf[s] : s \in services}

(* Written, then enabled; a sudo command that fails leaves the rest undone.  *)
BootUnit ==
  /\ at = "boot_unit"
  /\ LET written == [unit EXCEPT !.profiles = UnitProfiles(asked.services)]
     IN \/ unit' = [written EXCEPT !.enabled = TRUE] /\ armed' = asked.services
        \/ unit' \in {unit, written} /\ armed' = {}
  /\ Proceed
  /\ UNCHANGED <<secretKey, files, compose, serving, data, counters,
                 keptData, stray, booted>>

(* From the .env on disk; a failure leaves the old file and is no failure.   *)
WriteCredentials ==
  /\ at = "credentials"
  /\ creds' \in {creds, envFile}
  /\ Ends
  /\ UNCHANGED <<envFile, secretFile, conf, host, counters, ghosts>>

-----------------------------------------------------------------------------
(* Other commands, and the host                                          *)

KillInstall ==
  /\ at # "idle" /\ stops < MaxStops
  /\ stops' = stops + 1 /\ Ends /\ stray' = Strays
  /\ UNCHANGED <<files, host, made, installs, events, keptData, armed, booted>>

(* `agmind deploy`: no configuration is written, and the unit is left. Its   *)
(* services take the secret from .env and refuse to start without.          *)
DeployCommand(services) ==
  /\ at = "idle" /\ events < MaxHostEvents /\ envFile # 0
  /\ events' = events + 1
  /\ DeployPasses(services) \/ DeployFails(services)
  /\ armed' = {} /\ booted' = FALSE
  /\ UNCHANGED <<at, asked, secretKey, envFile, creds, unit, made, installs, stops,
                 keptData, stray>>

(* `agmind uninstall`, the data wiped or not; the unit is left as it is. The *)
(* containers, then each path is tried in turn: a failure is ignored, a kill *)
(* ends it, so any path may stay. Without a compose file it takes --force.  *)
Uninstall(wipe) ==
  /\ at = "idle" /\ events < MaxHostEvents
  /\ events' = events + 1
  /\ serving' \in SUBSET serving
  /\ \/ envFile' = 0 /\ creds' = 0 /\ compose' = {}
     \/ UNCHANGED <<envFile, creds, compose>>
  /\ UNCHANGED <<secretFile, data>> \/ (wipe /\ secretFile' = 0 /\ data' = 0)
  /\ UNCHANGED conf \/ (wipe /\ conf' = NoConfig)
  /\ keptData' = (secretFile' # 0 /\ (keptData \/ envFile' = 0))
  /\ armed' = {} /\ booted' = FALSE
  /\ UNCHANGED <<at, asked, secretKey, unit, made, installs, stops, stray>>

(* `compose up -d` starts the services that have one of its profiles.        *)
Brought ==
  IF unit.enabled THEN {s \in compose : ProfilesOf[s] \cap unit.profiles # {}} ELSE {}

(* Containers restart on their own, or not: after a power loss Docker may   *)
(* leave any of them down. Then the unit is started.                        *)
Reboot ==
  /\ events < MaxHostEvents
  /\ events' = events + 1 /\ Ends /\ stray' = Strays
  /\ MakeMounts(serving \cup Brought)
  /\ serving' \in {{s \in rest \cup Brought : CanRun(s)} : rest \in SUBSET serving}
  /\ data' = IF database \in serving' THEN Initialised ELSE data
  /\ booted' = TRUE
  /\ UNCHANGED <<envFile, creds, compose, unit, made, installs, stops,
                 keptData, armed>>

-----------------------------------------------------------------------------
PipelineInit ==
  /\ at = "idle" /\ asked = NotAsked /\ secretKey = 0
  /\ envFile = 0 /\ secretFile = 0 /\ creds = 0 /\ conf = NoConfig
  /\ compose = {} /\ serving = {} /\ data = 0 /\ unit = [profiles |-> {}, enabled |-> FALSE]
  /\ made = 0 /\ installs = 0 /\ stops = 0 /\ events = 0
  /\ keptData = FALSE /\ stray = FALSE /\ armed = {} /\ booted = FALSE

PipelineNext ==
  \/ \E services \in Selections, root \in BOOLEAN : BeginPipeline(services, root)
  \/ DoctorStep \/ CloudflareTokenStep \/ BootstrapStep \/ ComposeConfigStep
  \/ ModelDownloadStep \/ GpuMetricsStep \/ WriteFails \/ StagingFails \/ CancelInstall
  \/ EnvWrite \/ WriteEnvFile \/ WriteSecretFile \/ MoveConfigAside \/ MoveConfigIn
  \/ DeployStep \/ BootUnit \/ WriteCredentials
  \/ KillInstall \/ Reboot
  \/ \E services \in Selections : DeployCommand(services)
  \/ \E wipe \in BOOLEAN : Uninstall(wipe)

PipelineSpec == PipelineInit /\ [][PipelineNext]_pipelineVars
-----------------------------------------------------------------------------
OneSecret ==
  data # 0 =>
    /\ envFile # 0 => envFile = data
    /\ secretFile \notin {0, Dir} => secretFile = data
    /\ creds # 0 => creds = data

(* The one secret a database was initialised with is the one in .env, in    *)
(* its secret file and in credentials.txt: after installs that were killed, *)
(* failed or repeated with other services, and uninstalls that left some of it. *)
(* Not where an uninstall took .env and left the data, see KeptDataReadable; *)
(* nor where an install stopped between the secret file and .env and the     *)
(* next had no database.                                                    *)
DataReadable == ~keptData /\ ~stray => OneSecret

(* "Default keeps data" (tests/cli/test_uninstall.py:3): what an uninstall   *)
(* keeps, the next install can open.                                        *)
KeptDataReadable == ~stray => OneSecret

(* Whenever the boot unit has acted, all the services of the last install run *)
(* and no other, as long as no command chose other services, and no install  *)
(* was killed between its two renames of the configuration.                 *)
BootBringsBack == booted /\ armed # {} /\ conf # Dir => serving = armed
=============================================================================
