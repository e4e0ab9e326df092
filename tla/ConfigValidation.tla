----------------------------- MODULE ConfigValidation -----------------------------
(***************************************************************************)
(* `agmind config validate` on a live host: what it reads of .env, of the   *)
(* rendered compose file, of the databases' secret files and of the running *)
(* containers, among installs, deploys and rollbacks of other selections,   *)
(* edits of .env, lost files, crashed containers and new releases.          *)
(***************************************************************************)
EXTENDS Naturals

CONSTANTS
  Deployable,     \* sets of services that are installed or deployed
  Setting,        \* keys of .env
  Required,       \* service -> settings it takes as ${KEY:?}
  Defaulted,      \* service -> settings it takes as ${KEY:-changeme}
  Secret,         \* service -> those of both that its secret-looking entries take
  DbFile,         \* service -> its secret files of DB_SECRET_FILES
  ConsumerFile,   \* service -> its secret files of AUTHELIA_SECRET_FILES
  Nothing,        \* no .env, no compose file
  Untold,         \* a digest nobody tells
  MaxUpsets, MaxReleases  \* bounds

ASSUME ValidationAssumption ==
  /\ Untold \notin Nat
  /\ \A s \in UNION Deployable :
       /\ Required[s] \cup Defaulted[s] \subseteq Setting
       /\ Secret[s] \subseteq Required[s] \cup Defaulted[s]

VARIABLES
  settings,       \* .env: key -> "", "good", "weak" or "hole"; Nothing without the file
  envMode,        \* "0600" or "other"
  secretAt,       \* file -> "missing", "directory" or "file"
  stack,          \* services of docker-compose.yml
  image,          \* service -> release its container runs, 0 when none is listed
  release,        \* release whose descriptors are on the host
  validated,      \* the last validation, while nothing has changed since
  upsets

validationVars == <<settings, envMode, secretAt, stack, image, release, validated, upsets>>
SecretPath == DOMAIN secretAt
Deployed == DOMAIN image
Unvalidated == [errors |-> {}, warnings |-> {}, made |-> FALSE, root |-> FALSE, drift |-> FALSE]

-----------------------------------------------------------------------------
(* What a container needs                                                  *)

SettingOf(k) == IF settings = Nothing THEN "" ELSE settings[k]

(* compose refuses a selection one of whose ${KEY:?} has no value.          *)
ComposeAccepts(services) ==
  settings # Nothing /\ \A s \in services : \A k \in Required[s] : SettingOf(k) # ""

(* A file that is not there is made as a directory, which no image can read. *)
FilesOfService(s) == DbFile[s] \cup ConsumerFile[s]
CanStart(s) == \A f \in FilesOfService(s) : secretAt[f] = "file"

-----------------------------------------------------------------------------
(* What changes a host                                                      *)

Changed == validated' = Unvalidated

(* EnvWriteStep writes every generated secret, whatever is selected; an      *)
(* existing value is kept, a weak one too.                                  *)
WrittenKeys(services) == Setting

EnvStep(services) ==
  /\ settings' = [k \in Setting |->
                    IF SettingOf(k) # "" THEN SettingOf(k)
                    ELSE IF k \in WrittenKeys(services) THEN "good" ELSE ""]
  /\ envMode' = "0600"
  /\ secretAt' = [f \in SecretPath |->
       IF \E s \in services : f \in FilesOfService(s) THEN "file" ELSE secretAt[f]]

(* `compose up --remove-orphans`: containers of the selection run, no other. *)
Mounted(services) ==
  [f \in SecretPath |->
     IF secretAt[f] = "missing" /\ \E s \in services : f \in FilesOfService(s)
     THEN "directory" ELSE secretAt[f]]
Started(services) == [s \in Deployed |-> IF s \in services THEN release ELSE 0]

(* The files are written; the containers come with the deploy.              *)
InstallWrites(services) ==
  /\ \A f \in UNION {FilesOfService(s) : s \in services} : secretAt[f] # "directory"
  /\ EnvStep(services)
  /\ Changed /\ UNCHANGED <<stack, image, release, upsets>>

DeploySucceeds(services) ==
  /\ ComposeAccepts(services) /\ \A s \in services : CanStart(s)
  /\ stack' = services /\ image' = Started(services)
  /\ Changed /\ UNCHANGED <<settings, envMode, secretAt, release, upsets>>

(* The compose file has been written and, if its rollback fails too, stays;  *)
(* some containers were replaced, or none.                                  *)
DeployFailsHalfway(services) ==
  /\ settings # Nothing
  /\ stack' \in {stack, services}
  /\ \/ UNCHANGED <<secretAt, image>>
     \/ /\ ComposeAccepts(services)
        /\ secretAt' = Mounted(services)
        /\ image' \in {Started({s \in up : CanStart(s)}) : up \in SUBSET services}
  /\ Changed /\ UNCHANGED <<settings, envMode, release, upsets>>

Upset == upsets < MaxUpsets /\ upsets' = upsets + 1 /\ Changed

EditEnv(k, v) ==
  /\ settings # Nothing /\ Upset
  /\ settings' = [settings EXCEPT ![k] = v]
  /\ envMode' \in {envMode, "other"}
  /\ UNCHANGED <<secretAt, stack, image, release>>

(* A restore, or a hand, removes a secret's file, perhaps .env too.          *)
LoseFiles(f) ==
  /\ Upset
  /\ secretAt' = [secretAt EXCEPT ![f] = "missing"]
  /\ settings' \in {settings, Nothing}
  /\ UNCHANGED <<envMode, stack, image, release>>

Crash(s) ==
  /\ image[s] # 0 /\ Upset
  /\ image' = [image EXCEPT ![s] = 0]
  /\ UNCHANGED <<settings, envMode, secretAt, stack, release>>

(* `agmind update` brings new descriptors; nothing is pulled.               *)
NewRelease ==
  /\ release < MaxReleases
  /\ release' = release + 1
  /\ Changed /\ UNCHANGED <<settings, envMode, secretAt, stack, image, upsets>>

-----------------------------------------------------------------------------
(* The validation                                                          *)

Finding(id, about) == <<id, about>>

RequiredMissing ==
  {Finding("env-required-var-missing", k) :
     k \in {x \in UNION {Required[s] : s \in stack} : SettingOf(x) = ""}}

\* Bug: only what .env says is looked at, not the default it falls back to.
WeakValueOnly(s, k) == SettingOf(k) = "weak"

(* find_weak_secret_envs: the value, or the default it falls back to.        *)
Weak(s, k) == SettingOf(k) = "weak" \/ (SettingOf(k) = "" /\ k \in Defaulted[s])

(* _check_env_health                                                        *)
EnvHealth ==
  {Finding("env-file-mode", "") : x \in {envMode} \ {"0600"}}
    \cup (IF stack = Nothing THEN {} ELSE RequiredMissing)
    \cup {Finding("env-unresolved-placeholder", k) : k \in {x \in Setting : SettingOf(x) = "hole"}}
    \cup (IF stack = Nothing THEN {}
          ELSE {Finding("env-weak-default-secret", s) :
                  s \in {x \in stack : \E k \in Secret[x] : Weak(x, k)}})

(* One stat, which takes a directory for a file; who is not root does not    *)
(* get into the directory, and cannot prove a problem. No image reads its    *)
(* file as a user of its own: DB_SECRET_FILE_READER_UID is empty.            *)
SecretFileFinding(f, root) ==
  IF root /\ secretAt[f] = "missing" THEN {Finding("secret-file-missing", f)} ELSE {}

(* _check_secret_files: of DB_SECRET_FILES, not of the consumers' files.     *)
SecretFiles(root) == UNION {SecretFileFinding(f, root) : f \in UNION {DbFile[s] : s \in stack}}

(* `ps` has no answer, `inspect` has none, or both answer. What runs comes   *)
(* from `ps` alone.                                                         *)
RunningDigests(docker) ==
  [s \in Deployed |->
     CASE docker = "silent" -> 0
       [] docker = "blind" /\ image[s] # 0 -> Untold
       [] OTHER -> image[s]]

(* _check_drift                                                             *)
DriftErrors(seen) ==
  {Finding("drift-digest-mismatch", s) : s \in {x \in stack : seen[x] \notin {0, Untold, release}}}
DriftWarnings(seen) ==
  {Finding("drift-not-running", s) : s \in {x \in stack : seen[x] = 0}}
    \cup {Finding("drift-orphan", s) : s \in {x \in Deployed \ stack : seen[x] # 0}}

Preamble(root) ==
  (IF settings = Nothing THEN {Finding("env-file-missing", "")}
   ELSE IF ~root /\ envMode = "0600" THEN {Finding("env-file-unreadable", "")} ELSE {})
    \cup {Finding("compose-missing", "") : x \in {stack} \cap {Nothing}}

(* The groups run as far as what they need could be read; "unasked" is also   *)
(* --drift without Docker. Nothing has changed since the last validation.    *)
Validate(root, docker) ==
  LET opening == Preamble(root)
      readEnv == settings # Nothing /\ (root \/ envMode # "0600")
      drifts == docker # "unasked" /\ stack # Nothing
      seen == RunningDigests(docker)
  IN /\ ~validated.made
     /\ validated' =
         [errors |-> opening \cup (IF readEnv THEN EnvHealth ELSE {})
                       \cup (IF stack = Nothing THEN {} ELSE SecretFiles(root))
                       \cup (IF drifts THEN DriftErrors(seen) ELSE {}),
          warnings |-> IF drifts THEN DriftWarnings(seen) ELSE {},
          made |-> TRUE, root |-> root, drift |-> drifts /\ docker = "answers"]
     /\ UNCHANGED <<settings, envMode, secretAt, stack, image, release, upsets>>

-----------------------------------------------------------------------------
ValidationInit ==
  /\ settings = Nothing /\ envMode = "0600"
  /\ secretAt = [f \in UNION {FilesOfService(s) : s \in UNION Deployable} |-> "missing"]
  /\ stack = Nothing /\ image = [s \in UNION Deployable |-> 0]
  /\ release = 1 /\ validated = Unvalidated /\ upsets = 0

ValidationNext ==
  \/ \E services \in Deployable :
       \/ InstallWrites(services) \/ DeploySucceeds(services) \/ DeployFailsHalfway(services)
  \/ \E k \in Setting, v \in {"", "weak", "hole"} : EditEnv(k, v)
  \/ \E f \in SecretPath : LoseFiles(f)
  \/ \E s \in Deployed : Crash(s)
  \/ NewRelease
  \/ \E root \in BOOLEAN, docker \in {"unasked", "silent", "blind", "answers"} :
       Validate(root, docker)

ValidationSpec == ValidationInit /\ [][ValidationNext]_validationVars

-----------------------------------------------------------------------------
(* A validation without errors vouches for the next start: every selected    *)
(* service has its settings, no weak secret in its environment, the default  *)
(* of a missing setting included, and, if root has looked, something in its   *)
(* database file's place; and if images were compared, no service runs those *)
(* of another release. The code takes a directory for a file, and does not   *)
(* look at the consumers' files or at a weak secret that is used through a    *)
(* file; who is not root is told nothing of the files.                      *)
OkMeansStarts ==
  validated.made /\ validated.errors = {} =>
    \A s \in stack :
      /\ \A k \in Required[s] : SettingOf(k) \notin {"", "hole"}
      /\ \A k \in Secret[s] : SettingOf(k) = "good"
      /\ validated.root => \A f \in DbFile[s] : secretAt[f] # "missing"
      /\ validated.drift => image[s] \in {0, release}
=============================================================================
