-------------------------------- MODULE Backup --------------------------------
(***************************************************************************)
(* `agmind backup`, `agmind restore` and `agmind ops dr-drill` on one host: *)
(* archives of configuration and data, the member by member restore with    *)
(* its replacement of directories, failures and deaths between any two      *)
(* steps, and a stack that goes on writing.                                 *)
(***************************************************************************)
EXTENDS Naturals, Sequences

CONSTANTS
  File,          \* configuration files (env, compose, ...)
  ConfigDir,     \* configuration directories (descriptors, snapshots)
  Volume,        \* data directories under /var/lib/agmind
  Database,      \* dumped logically, through a running container: mysqldump, or
  Globals,       \* ... pg_dumpall --globals-only, the roles of a server, or
  Plain,         \* ... pg_dump, which creates its tables and drops none
  Service,
  DataOf,        \* service -> its volumes and databases
  MemberOrder,   \* member -> its place in the order of writing and restoring
  Nothing, Half, Rotten, NoMarker,
  Empty,         \* a database as its server creates it, without a table
  MaxWork,       \* bound: writes of the stack and new data directories
  MaxArchives,   \* bound: finished archives
  MaxRestores,   \* bound: restores and drills begun
  MaxFaults      \* bound: deaths and failing steps of a restore

ASSUME MemberAssumption ==
  /\ MemberOrder \in [File \cup ConfigDir \cup Volume \cup Database -> Nat]
  /\ \A m, n \in DOMAIN MemberOrder : MemberOrder[m] = MemberOrder[n] => m = n
  /\ (File \cup Database) \cap (ConfigDir \cup Volume) = {} /\ File \cap Database = {}
  /\ Globals \cup Plain \subseteq Database /\ Globals \cap Plain = {}
  /\ DataOf \in [Service -> SUBSET (Volume \cup Database)]
  /\ Nothing # Half /\ Rotten \notin {Nothing, Half} /\ {Nothing, Half, Rotten} \cap Nat = {}
  /\ Empty \notin Nat \cup {Nothing, Half, Rotten}

VARIABLES
  live,          \* file or database -> what it holds
  dir,           \* directory -> what is at its three paths
  up,            \* services that run
  archives,      \* finished archives, in order
  marker,        \* .agmind-last-data-backup.json
  job,           \* the command at work
  work, restores, faults,
  resudo         \* ghost: a retry through sudo began with no target left

backupVars == <<live, dir, up, archives, marker, job, work, restores, faults, resudo>>

Config == File \cup ConfigDir
Data == Volume \cup Database
Member == Config \cup Data
Directory == ConfigDir \cup Volume
Content(m) == IF m \in Directory THEN dir[m].target ELSE live[m]
Owners(m) == {s \in Service : m \in DataOf[s]}
NoJob == [cmd |-> "none", at |-> "idle", todo |-> {}, got |-> [m \in {} |-> Nothing],
          listed |-> {},
          sudo |-> FALSE, whole |-> FALSE, failed |-> FALSE,
          dirty |-> {}]       \* ghost: members the stack has written meanwhile

(* docker ps names the running services, or fails and names none.           *)
Listings == {up, {}}

Sources(data, listed) ==
  Config \cup IF data THEN UNION {DataOf[s] : s \in listed} ELSE {}

(* Whose turn it is: the first in order of what is still to do.             *)
Turn(m) == m \in job.todo /\ \A n \in job.todo : MemberOrder[m] <= MemberOrder[n]

-----------------------------------------------------------------------------
(* agmind backup                                                           *)

BeginBackup(data) ==
  \E listed \in Listings :
    /\ job.at = "idle" /\ Len(archives) < MaxArchives
    /\ data => listed # {}
    /\ job' = [NoJob EXCEPT !.cmd = "backup", !.at = "read", !.whole = data,
                 !.todo = Sources(data, listed), !.listed = listed]
    /\ UNCHANGED <<live, dir, up, archives, marker, work, restores, faults, resudo>>

\* Bug: a dump that fails is skipped like a missing file.
ReadMemberSkipsFailed(m) ==
  LET missing == Content(m) = Nothing \/ (m \in Database /\ Owners(m) \cap up = {})
  IN /\ job.at = "read" /\ Turn(m)
     /\ job' = [job EXCEPT !.todo = @ \ {m},
                  !.got = IF missing THEN @
                          ELSE [x \in DOMAIN @ \cup {m} |-> IF x = m THEN Content(m) ELSE @[x]]]
     /\ UNCHANGED <<live, dir, up, archives, marker, work, restores, faults, resudo>>

(* A tree is read file by file, or from a tar that sudo has spooled; links   *)
(* in it are left out, and what is no directory is an error.                 *)
TreeReadable(d) == Content(d) # Nothing

(* A missing configuration source is skipped; a missing volume is an error. *)
ReadMember(m) ==
  /\ job.at = "read" /\ Turn(m)
  /\ m \in Volume => TreeReadable(m)
  /\ m \in Database => Owners(m) \cap up # {}
  /\ job' = [job EXCEPT !.todo = @ \ {m},
               !.got = IF Content(m) = Nothing THEN @
                       ELSE [x \in DOMAIN @ \cup {m} |->
                               IF x = m THEN Content(m) ELSE @[x]]]
  /\ UNCHANGED <<live, dir, up, archives, marker, work, restores, faults, resudo>>

(* An unreadable source or a dump that fails, and the temporary archive goes; *)
(* or a death.                                                              *)
AbortBackup ==
  /\ job.at = "read"
  /\ job' = NoJob
  /\ UNCHANGED <<live, dir, up, archives, marker, work, restores, faults, resudo>>

FinishArchive ==
  /\ job.cmd = "backup" /\ job.at = "read" /\ job.todo = {}
  /\ archives' = Append(archives, [got |-> job.got, listed |-> job.listed])
  /\ job' = IF job.whole THEN [job EXCEPT !.at = "stamp"] ELSE NoJob
  /\ UNCHANGED <<live, dir, up, marker, work, restores, faults, resudo>>

(* Best effort: the marker may stay what it was.                            *)
StampMarker ==
  /\ job.at = "stamp"
  /\ marker' \in {marker, Len(archives)}
  /\ job' = NoJob
  /\ UNCHANGED <<live, dir, up, archives, work, restores, faults, resudo>>

-----------------------------------------------------------------------------
(* agmind restore                                                          *)

Consumers(got, listed) ==
  {s \in listed : DataOf[s] \cap Volume \cap DOMAIN got # {}}

(* The labels that the metadata of an archive lists.                        *)
Included(i) == DOMAIN archives[i].got

(* restore_backup: what is listed, or the one label that is asked for.      *)
Wanted(i, label) == IF label = Nothing THEN Included(i) ELSE {label}

VerifyBackup(got) == \A m \in DOMAIN got \cap Database : got[m] # Rotten

BeginRestore(i, label, force, skipVerify, sudo) ==
  LET got == archives[i].got
  IN \E listed \in Listings :
       /\ job.at = "idle" /\ restores < MaxRestores
       /\ Wanted(i, label) \subseteq Included(i)
       /\ Consumers(got, listed) = {} \/ force
       /\ VerifyBackup(got) \/ skipVerify
       /\ job' = [NoJob EXCEPT !.cmd = "restore", !.at = "next", !.todo = Wanted(i, label),
                    !.got = got, !.sudo = sudo, !.whole = label = Nothing]
       /\ restores' = restores + 1
       /\ UNCHANGED <<live, dir, up, archives, marker, work, faults, resudo>>

Done(m) == [job EXCEPT !.at = "next", !.todo = @ \ {m}]

RestoreFile(m) ==
  /\ job.cmd = "restore" /\ job.at = "next" /\ Turn(m) /\ m \in File
  /\ live' = [live EXCEPT ![m] = job.got[m]]
  /\ job' = Done(m)
  /\ UNCHANGED <<dir, up, archives, marker, work, restores, faults, resudo>>

(* _extract_dir clears the staging path, with sudo the saved copy too, ...  *)
StageDirectory(m) ==
  /\ job.cmd = "restore" /\ job.at = "next" /\ Turn(m) /\ m \in Directory
  /\ dir' = [dir EXCEPT ![m].staged = Half,
                        ![m].rollback = IF job.sudo THEN Nothing ELSE @]
  /\ resudo' = (resudo \/ (job.sudo /\ dir[m].target = Nothing))
  /\ job' = [job EXCEPT !.at = "staging"]
  /\ UNCHANGED <<live, up, archives, marker, work, restores, faults>>

(* ... unpacks there, and _replace_path_atomic swaps it in: an old saved    *)
(* copy goes, the target moves aside, the staged tree moves in, and then    *)
(* the saved copy goes.                                                     *)
Unpacked(m) ==
  /\ job.at = "staging"
  /\ dir' = [dir EXCEPT ![m].staged = job.got[m]]
  /\ job' = [job EXCEPT !.at = "swap"]

DropOldCopy(m) ==
  /\ job.at = "swap"
  /\ dir' = [dir EXCEPT ![m].rollback = Nothing]
  /\ job' = [job EXCEPT !.at = "dropped"]

\* Bug: the target is removed, not moved aside.
MoveAsideRemoves(m) ==
  /\ job.at = "dropped"
  /\ dir' = [dir EXCEPT ![m].target = Nothing]
  /\ job' = [job EXCEPT !.at = "aside"]

MoveAside(m) ==
  /\ job.at = "dropped"
  /\ dir' = [dir EXCEPT ![m].rollback = dir[m].target, ![m].target = Nothing]
  /\ job' = [job EXCEPT !.at = "aside"]

MoveIn(m) ==
  /\ job.at = "aside"
  /\ dir' = [dir EXCEPT ![m].target = dir[m].staged, ![m].staged = Nothing]
  /\ job' = [job EXCEPT !.at = "in"]

DropCopy(m) ==
  /\ job.at = "in"
  /\ dir' = [dir EXCEPT ![m].rollback = Nothing]
  /\ job' = Done(m)

SwapDirectory(m) ==
  /\ Turn(m)
  /\ Unpacked(m) \/ DropOldCopy(m) \/ MoveAside(m) \/ MoveIn(m) \/ DropCopy(m)
  /\ UNCHANGED <<live, up, archives, marker, work, restores, faults, resudo>>

(* An error before the target has moved leaves it; one after puts it back,  *)
(* if that does not fail too: the local code then drops the copy all the    *)
(* same, the shell of the sudo path leaves it.                              *)
SwapFails(m) ==
  /\ job.at \in {"staging", "dropped", "aside"} /\ Turn(m) /\ faults < MaxFaults
  /\ \E putBackFails \in IF job.at = "aside" THEN BOOLEAN ELSE {FALSE} :
       /\ dir' = [dir EXCEPT ![m] =
            IF job.at # "aside"
            THEN [@ EXCEPT !.staged = Nothing]
            ELSE [target |-> IF putBackFails THEN @.target ELSE @.rollback,
                  rollback |-> IF putBackFails /\ job.sudo THEN @.rollback ELSE Nothing,
                  staged |-> Nothing]]
       /\ faults' = faults + IF putBackFails THEN 2 ELSE 1
  /\ job' = NoJob
  /\ UNCHANGED <<live, up, archives, marker, work, restores, resudo>>

(* A dump goes through `docker exec` into the running container, unless its *)
(* hash is wrong.                                                           *)
Loads(m) ==
  /\ job.got[m] # Rotten
  /\ Owners(m) \cap up # {}

(* A pg_dump is loaded with ON_ERROR_STOP, and the first table that is there *)
(* already stops it; a mysqldump drops each of its tables first.             *)
Clashes(m) == m \in Plain /\ live[m] # Empty

Loaded(m, content, failed) ==
  /\ live' = [live EXCEPT ![m] = content]
  /\ job' = [Done(m) EXCEPT !.failed = @ \/ failed]

\* Bug: the exit status of the load is not looked at.
LoadDumpUnchecked(m) ==
  /\ job.at = "next" /\ Turn(m) /\ m \in Database
  /\ Loaded(m, IF Loads(m) /\ ~Clashes(m) THEN job.got[m] ELSE live[m], FALSE)
  /\ UNCHANGED <<dir, up, archives, marker, work, restores, faults, resudo>>

(* A load that stops half way leaves a mixture and fails, but that of the    *)
(* globals, for which psql goes on and exits 0. A dump without a table       *)
(* replaces nothing.                                                        *)
LoadDump(m) ==
  /\ job.at = "next" /\ Turn(m) /\ m \in Database
  /\ \/ ~Loads(m) /\ Loaded(m, live[m], TRUE) /\ UNCHANGED faults
     \/ /\ Loads(m) /\ job.got[m] = Empty
        /\ Loaded(m, live[m], FALSE) /\ UNCHANGED faults
     \/ /\ Loads(m) /\ job.got[m] # Empty /\ Clashes(m)
        /\ \E content \in {live[m], Half} : Loaded(m, content, TRUE)
        /\ UNCHANGED faults
     \/ /\ Loads(m) /\ job.got[m] # Empty /\ ~Clashes(m)
        /\ Loaded(m, job.got[m], FALSE) /\ UNCHANGED faults
     \/ /\ Loads(m) /\ job.got[m] # Empty /\ ~Clashes(m) /\ faults < MaxFaults
        /\ Loaded(m, Half, m \notin Globals) /\ faults' = faults + 1
  /\ UNCHANGED <<dir, up, archives, marker, work, restores, resudo>>

RestoreReturns ==
  /\ job.cmd = "restore" /\ job.at = "next" /\ job.todo = {}
  /\ job' = NoJob
  /\ UNCHANGED <<live, dir, up, archives, marker, work, restores, faults, resudo>>

-----------------------------------------------------------------------------
(* agmind ops dr-drill: an archive in a temporary directory, then a restore *)
(* of the labels it includes. Configuration goes to the sandbox, a volume   *)
(* has no destination there, and "included" names the dumps as well.        *)
BeginDrill(data) ==
  /\ job.at = "idle" /\ restores < MaxRestores
  /\ \E listed \in Listings :
       job' = [NoJob EXCEPT !.cmd = "drill", !.at = "read", !.whole = data,
                 !.todo = Sources(data, listed), !.listed = listed]
  /\ restores' = restores + 1
  /\ UNCHANGED <<live, dir, up, archives, marker, work, faults, resudo>>

(* included, the configuration labels in the code's name, has every label.  *)
DrillLabels(got) == DOMAIN got

DrillRestores ==
  /\ job.cmd = "drill" /\ job.at = "read" /\ job.todo = {}
  /\ job' = [job EXCEPT !.at = "next", !.todo = DrillLabels(job.got)]
  /\ UNCHANGED <<live, dir, up, archives, marker, work, restores, faults, resudo>>

DrillMember(m) ==
  /\ job.cmd = "drill" /\ job.at = "next" /\ Turn(m) /\ m \notin Database
  /\ job' = Done(m)
  /\ UNCHANGED <<live, dir, up, archives, marker, work, restores, faults, resudo>>

DrillReturns ==
  /\ job.cmd = "drill" /\ job.at = "next" /\ job.todo = {}
  /\ job' = NoJob
  /\ UNCHANGED <<live, dir, up, archives, marker, work, restores, faults, resudo>>

-----------------------------------------------------------------------------
(* What happens around the commands.                                       *)

(* Killed, or an error at a step that leaves every path as it was. While the *)
(* archive is written that is AbortBackup.                                  *)
KillJob ==
  /\ job.at \notin {"idle", "read", "stamp"} /\ faults < MaxFaults
  /\ faults' = faults + 1
  /\ job' = NoJob
  /\ UNCHANGED <<live, dir, up, archives, marker, work, restores, resudo>>

(* A running service writes its data.                                       *)
StackWrites(m) ==
  /\ work < MaxWork
  /\ m \in Data /\ Owners(m) \cap up # {} /\ Content(m) # Nothing
  /\ IF m \in Volume
     THEN dir' = [dir EXCEPT ![m].target = work + 1] /\ UNCHANGED live
     ELSE live' = [live EXCEPT ![m] = work + 1] /\ UNCHANGED dir
  /\ work' = work + 1
  /\ job' = IF job.cmd = "restore" THEN [job EXCEPT !.dirty = @ \cup {m}] ELSE job
  /\ UNCHANGED <<up, archives, marker, restores, faults, resudo>>

StartOrStop(s) ==
  /\ up' = IF s \in up THEN up \ {s} ELSE up \cup {s}
  /\ UNCHANGED <<live, dir, archives, marker, job, work, restores, faults, resudo>>

(* The operator gives a server that is down a new, empty data directory: what *)
(* a pg_dump needs to load.                                                  *)
Reinitialise(s) ==
  /\ job.at = "idle" /\ s \notin up /\ work < MaxWork
  /\ live' = [m \in DOMAIN live |-> IF m \in DataOf[s] THEN Empty ELSE live[m]]
  /\ work' = work + 1
  /\ UNCHANGED <<dir, up, archives, marker, job, restores, faults, resudo>>

(* A dump in an archive no longer has the bytes that were hashed; one of each *)
(* archive, at most.                                                        *)
Rot(i, m) ==
  /\ \A n \in DOMAIN archives[i].got : archives[i].got[n] # Rotten
  /\ archives' = [archives EXCEPT ![i].got[m] = Rotten]
  /\ UNCHANGED <<live, dir, up, marker, job, work, restores, faults, resudo>>

BackupInit ==
  /\ live = [m \in File \cup Database |-> 0]
  /\ dir = [m \in Directory |-> [target |-> 0, rollback |-> Nothing, staged |-> Nothing]]
  /\ up = Service /\ archives = <<>> /\ marker = NoMarker /\ job = NoJob
  /\ work = 0 /\ restores = 0 /\ faults = 0 /\ resudo = FALSE

BackupNext ==
  \/ \E data \in BOOLEAN : BeginBackup(data) \/ BeginDrill(data)
  \/ AbortBackup \/ FinishArchive \/ StampMarker
  \/ \E i \in DOMAIN archives, force, skip, sudo \in BOOLEAN :
       \E label \in {Nothing} \cup Config : BeginRestore(i, label, force, skip, sudo)
  \/ \E m \in Member :
       \/ ReadMember(m) \/ RestoreFile(m) \/ StageDirectory(m) \/ SwapDirectory(m)
       \/ SwapFails(m) \/ LoadDump(m) \/ DrillMember(m) \/ StackWrites(m)
  \/ RestoreReturns
  \/ DrillRestores \/ DrillReturns \/ KillJob
  \/ \E s \in Service : StartOrStop(s) \/ Reinitialise(s)
  \/ \E i \in DOMAIN archives : \E m \in DOMAIN archives[i].got \cap Database : Rot(i, m)

BackupSpec == BackupInit /\ [][BackupNext]_backupVars

-----------------------------------------------------------------------------
Whole(c) == c \notin {Nothing, Half}

(* One death or error, wherever it falls, never costs a directory: its old  *)
(* or its new tree stays complete at one of the three paths; except that a  *)
(* second attempt through sudo begins by removing the copy moved aside.     *)
OneCopyLeft ==
  faults > 1 \/ resudo \/
    \A d \in Directory : \E c \in {dir[d].target, dir[d].rollback, dir[d].staged} : Whole(c)

(* A full restore that returns 0 has put every member of the archive in     *)
(* place, whatever earlier attempts left behind. Of the globals no failure is *)
(* reported, and an empty dump replaces nothing.                             *)
RestoreConverges ==
  [][RestoreReturns /\ job.whole /\ ~job.failed =>
       \A m \in DOMAIN job.got \ (job.dirty \cup Globals) :
         job.got[m] # Empty => Content(m) = job.got[m]]_backupVars

(* The marker that lets a deploy recreate a stateful service names an       *)
(* archive with all data of the services that ran when it was begun.        *)
MarkerMeansData ==
  marker # NoMarker =>
    /\ marker \in DOMAIN archives /\ archives[marker].listed # {}
    /\ UNION {DataOf[s] : s \in archives[marker].listed} \subseteq DOMAIN archives[marker].got

(* The drill restores into a throwaway directory, never the live install.   *)
DrillLeavesLive ==
  [][job.cmd = "drill" => \A d \in Database : live'[d] \in {live[d], work + 1}]_backupVars
=============================================================================
