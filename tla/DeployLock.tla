------------------------------ MODULE DeployLock ------------------------------
(***************************************************************************)
(* The advisory lock of agmind/core/locks.py.  A process resolves a lock   *)
(* file from its environment, opens it (creating it when missing) and      *)
(* takes a non-blocking exclusive flock on the open file.  The kernel      *)
(* locks the INODE, not the name: two processes exclude each other only    *)
(* when the name led both of them to the same inode.  The module also has  *)
(* the operator who follows the log's advice to delete a lock file that    *)
(* cannot be opened.                                                       *)
(***************************************************************************)
EXTENDS Naturals

CONSTANTS
  Procs,           \* processes that run a locked operation
  Uids,            \* user ids
  Root,            \* the uid that may open every file
  Installs,        \* install directories
  Dirs,            \* directories a lock file may live in
  Unset,           \* XDG_RUNTIME_DIR is not in the environment
  NoFile,          \* no file has this name
  NoFd,            \* no file is open
  Uid,             \* the uid a process runs under
  InstallOf,       \* the install directory a process works on
  RuntimeDir,      \* a process's XDG_RUNTIME_DIR
  FallbackDir,     \* <system temp>/agmind-runtime-<uid>
  BrokenDirs,      \* directories where a file can be neither opened nor made
  OperatorChecks,  \* does the operator look for a live operation first?
  MaxInodes        \* bound: inodes handed out before the operator stops

ASSUME LockConstants ==
  /\ Root \in Uids
  /\ Uid \in [Procs -> Uids]
  /\ InstallOf \in [Procs -> Installs]
  /\ RuntimeDir \in [Procs -> Dirs \cup {Unset}]
  /\ FallbackDir \in [Uids -> Dirs]
  /\ Unset \notin Dirs
  /\ BrokenDirs \subseteq Dirs
  /\ OperatorChecks \in BOOLEAN
  /\ MaxInodes \in Nat
  /\ NoFd \notin Nat
  /\ NoFile \notin [ino : Nat, owner : Uids]

VARIABLES
  lockFile,  \* the file behind each lock path: its inode and its owner
  nextIno,   \* the next inode number
  fd,        \* the inode a process has open
  stage,     \* where a process is in deploy_lock
  advised    \* lock paths the log has told the operator to delete

lockVars == <<lockFile, nextIno, fd, stage, advised>>

Paths == Dirs \X Installs

(* _lock_dir and lock_path: the runtime directory when the environment has *)
(* one, else the per-uid fallback; the file name is a digest of the        *)
(* resolved install directory.                                             *)
LockDir(p) == IF RuntimeDir[p] = Unset THEN FallbackDir[Uid[p]] ELSE RuntimeDir[p]

LockPath(p) == <<LockDir(p), InstallOf[p]>>

(* A lock file is 0600: its owner and root may open it.                    *)
MayOpen(p, file) == file.owner = Uid[p] \/ Uid[p] = Root

LockInit ==
  /\ lockFile = [path \in Paths |-> NoFile]
  /\ nextIno = 0
  /\ fd = [p \in Procs |-> NoFd]
  /\ stage = [p \in Procs |-> "out"]
  /\ advised = {}

-------------------------------------------------------------------------------
(* os.open with O_CREAT: a missing file is made and owned by the caller.   *)
LockCreate(p) ==
  /\ stage[p] = "out"
  /\ LockDir(p) \notin BrokenDirs
  /\ lockFile[LockPath(p)] = NoFile
  /\ lockFile' = [lockFile EXCEPT ![LockPath(p)] = [ino |-> nextIno, owner |-> Uid[p]]]
  /\ nextIno' = nextIno + 1
  /\ fd' = [fd EXCEPT ![p] = nextIno]
  /\ stage' = [stage EXCEPT ![p] = "opened"]
  /\ UNCHANGED advised

LockReopen(p) ==
  /\ stage[p] = "out"
  /\ LockDir(p) \notin BrokenDirs
  /\ lockFile[LockPath(p)] # NoFile
  /\ MayOpen(p, lockFile[LockPath(p)])
  /\ fd' = [fd EXCEPT ![p] = lockFile[LockPath(p)].ino]
  /\ stage' = [stage EXCEPT ![p] = "opened"]
  /\ UNCHANGED <<lockFile, nextIno, advised>>

\* Bug: an unreadable lock file disables single-flight instead of refusing.
LockDeniedFailsOpen(p) ==
  /\ stage[p] = "out"
  /\ LockDir(p) \notin BrokenDirs
  /\ lockFile[LockPath(p)] # NoFile
  /\ ~MayOpen(p, lockFile[LockPath(p)])
  /\ stage' = [stage EXCEPT ![p] = "in"]
  /\ UNCHANGED <<lockFile, nextIno, fd, advised>>

(* EACCES: taken for a stale lock of an elevated run.  The caller is       *)
(* refused and the log says `sudo rm -f <path>`, whether or not the owner  *)
(* of the file is still at work.                                           *)
LockDenied(p) ==
  /\ stage[p] = "out"
  /\ LockDir(p) \notin BrokenDirs
  /\ lockFile[LockPath(p)] # NoFile
  /\ ~MayOpen(p, lockFile[LockPath(p)])
  /\ stage' = [stage EXCEPT ![p] = "refused"]
  /\ advised' = advised \cup {LockPath(p)}
  /\ UNCHANGED <<lockFile, nextIno, fd>>

(* Any other OSError of the open is not allowed to block a deploy: the     *)
(* caller is let in with no lock at all.  The fallback directory is made   *)
(* outside the try, so there the error ends the operation instead.         *)
LockUnavailable(p) ==
  /\ stage[p] = "out"
  /\ LockDir(p) \in BrokenDirs
  /\ stage' = [stage EXCEPT ![p] = IF RuntimeDir[p] = Unset THEN "refused" ELSE "in"]
  /\ UNCHANGED <<lockFile, nextIno, fd, advised>>

LockHolder(ino) == {q \in Procs : stage[q] = "in" /\ fd[q] = ino}

LockGranted(p) ==
  /\ stage[p] = "opened"
  /\ LockHolder(fd[p]) = {}
  /\ stage' = [stage EXCEPT ![p] = "in"]
  /\ UNCHANGED <<lockFile, nextIno, fd, advised>>

\* Bug: the result of the failed flock is ignored.
LockBusyIgnored(p) ==
  /\ stage[p] = "opened"
  /\ LockHolder(fd[p]) # {}
  /\ stage' = [stage EXCEPT ![p] = "in"]
  /\ UNCHANGED <<lockFile, nextIno, fd, advised>>

(* LOCK_NB: contention is an immediate refusal.                            *)
LockBusy(p) ==
  /\ stage[p] = "opened"
  /\ LockHolder(fd[p]) # {}
  /\ stage' = [stage EXCEPT ![p] = "refused"]
  /\ UNCHANGED <<lockFile, nextIno, fd, advised>>

\* Bug: release deletes the lock file ("clean up after yourself") before the
\* descriptor is closed and without looking at who else has it open.
LockReleaseUnlinks(p) ==
  /\ stage[p] \in {"in", "refused"}
  /\ stage' = [stage EXCEPT ![p] = "out"]
  /\ fd' = [fd EXCEPT ![p] = NoFd]
  /\ lockFile' = [lockFile EXCEPT ![LockPath(p)] = NoFile]
  /\ nextIno < MaxInodes
  /\ UNCHANGED <<nextIno, advised>>

(* The finally clause: unlock and close.  The file stays.                  *)
LockRelease(p) ==
  /\ stage[p] \in {"in", "refused"}
  /\ stage' = [stage EXCEPT ![p] = "out"]
  /\ fd' = [fd EXCEPT ![p] = NoFd]
  /\ UNCHANGED <<lockFile, nextIno, advised>>

(* The process dies anywhere inside: the kernel closes its files, which    *)
(* drops the flock.  The file stays.                                       *)
LockDie(p) ==
  /\ stage[p] # "out"
  /\ stage' = [stage EXCEPT ![p] = "out"]
  /\ fd' = [fd EXCEPT ![p] = NoFd]
  /\ UNCHANGED <<lockFile, nextIno, advised>>

(* The operator deletes a lock file the log named.                         *)
ClearLockFile(path) ==
  /\ path \in advised
  /\ nextIno < MaxInodes
  /\ lockFile[path] # NoFile
  /\ OperatorChecks => \A q \in Procs : fd[q] # lockFile[path].ino
  /\ lockFile' = [lockFile EXCEPT ![path] = NoFile]
  /\ advised' = advised \ {path}
  /\ UNCHANGED <<nextIno, fd, stage>>

LockEnter(p) ==
  \/ LockCreate(p)
  \/ LockReopen(p)
  \/ LockDenied(p)
  \/ LockUnavailable(p)
  \/ LockGranted(p)
  \/ LockBusy(p)

LockNext ==
  \/ \E p \in Procs : LockEnter(p) \/ LockRelease(p) \/ LockDie(p)
  \/ \E path \in Paths : ClearLockFile(path)

LockSpec == LockInit /\ [][LockNext]_lockVars
-------------------------------------------------------------------------------
(* Types, and no descriptor outlives the region it was opened for.         *)
LockTypeOK ==
  /\ lockFile \in [Paths -> [ino : Nat, owner : Uids] \cup {NoFile}]
  /\ nextIno \in Nat
  /\ fd \in [Procs -> Nat \cup {NoFd}]
  /\ stage \in [Procs -> {"out", "opened", "in", "refused"}]
  /\ advised \subseteq Paths
  /\ \A p \in Procs : stage[p] = "out" => fd[p] = NoFd

(* What the environment has to provide: the processes that work on one     *)
(* install resolve one lock directory, which can hold a lock file unless   *)
(* the install has a single user process, and nobody deletes the lock file *)
(* of a live operation.                                                    *)
LockAssumptions ==
  /\ \A p, q \in Procs :
       p # q /\ InstallOf[p] = InstallOf[q] =>
         LockDir(p) = LockDir(q) /\ LockDir(p) \notin BrokenDirs
  /\ OperatorChecks

(* Two operations never work on one install directory at the same time,    *)
(* whatever the order of opens, flocks, deaths, refusals and deletions of  *)
(* the lock file (deploy_lock: single-flight across processes).            *)
SingleFlight ==
  \A p, q \in Procs :
    p # q /\ InstallOf[p] = InstallOf[q] => ~(stage[p] = "in" /\ stage[q] = "in")

(* The name still leads to the inode a live operation has open: a newcomer *)
(* contends with it rather than locking a file of its own.                 *)
HolderKeepsName ==
  \A p \in Procs :
    stage[p] \in {"opened", "in"} /\ fd[p] # NoFd =>
      /\ lockFile[LockPath(p)] # NoFile
      /\ lockFile[LockPath(p)].ino = fd[p]

(* deploy_lock implements the abstract lock, for each install directory.   *)
Region(i) == {p \in Procs : stage[p] = "in" /\ InstallOf[p] = i}

Abstract(i) == INSTANCE AbstractLock WITH
  Procs <- {p \in Procs : InstallOf[p] = i}, inside <- Region(i)

ImplementsAbstractLock ==
  /\ \A i \in Installs : Abstract(i)!Init
  /\ [][\A i \in Installs : Abstract(i)!Next \/ UNCHANGED Region(i)]_lockVars
===============================================================================
