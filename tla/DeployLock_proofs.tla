-------------------------- MODULE DeployLock_proofs --------------------------
(***************************************************************************)
(* Proofs about DeployLock, for any processes, users, install directories  *)
(* and lock directories.  Single-flight needs LockAssumptions: it is false *)
(* without them (see the run on a mixed environment).                      *)
(***************************************************************************)
EXTENDS DeployLock, TLAPS

(* A process past the open has a file open, unless its lock directory is   *)
(* broken and it was let in without a lock.                                *)
EntrantHasFile ==
  \A p \in Procs :
    /\ stage[p] = "opened" => fd[p] # NoFd
    /\ stage[p] = "in" /\ LockDir(p) \notin BrokenDirs => fd[p] # NoFd

(* The inductive invariant: SingleFlight alone is not inductive, since     *)
(* nothing in it says that a newcomer meets the inode of a live operation. *)
LockInv == LockTypeOK /\ EntrantHasFile /\ HolderKeepsName /\ SingleFlight

(* A process's lock path is one of Paths.                                  *)
LEMMA LockPathType == \A p \in Procs : LockDir(p) \in Dirs /\ LockPath(p) \in Paths
BY LockConstants DEF LockDir, LockPath, Paths

(* The initial state has the types.                                        *)
LEMMA LockInitType == LockInit => LockTypeOK
BY DEF LockInit, LockTypeOK

(* Every action of deploy_lock, and the operator, keeps the types.         *)
LEMMA LockStepType == LockTypeOK /\ [LockNext]_lockVars => LockTypeOK'
<1> SUFFICES ASSUME LockTypeOK, [LockNext]_lockVars PROVE LockTypeOK'
  OBVIOUS
<1> USE LockConstants, LockPathType
<1>1. ASSUME NEW p \in Procs, LockCreate(p) PROVE LockTypeOK'
  BY <1>1 DEF LockTypeOK, LockCreate
<1>2. ASSUME NEW p \in Procs, LockReopen(p) PROVE LockTypeOK'
  BY <1>2 DEF LockTypeOK, LockReopen
<1>3. ASSUME NEW p \in Procs, LockDenied(p) PROVE LockTypeOK'
  BY <1>3 DEF LockTypeOK, LockDenied
<1>4. ASSUME NEW p \in Procs, LockUnavailable(p) PROVE LockTypeOK'
  BY <1>4 DEF LockTypeOK, LockUnavailable
<1>5. ASSUME NEW p \in Procs, LockGranted(p) PROVE LockTypeOK'
  BY <1>5 DEF LockTypeOK, LockGranted
<1>6. ASSUME NEW p \in Procs, LockBusy(p) PROVE LockTypeOK'
  BY <1>6 DEF LockTypeOK, LockBusy
<1>7. ASSUME NEW p \in Procs, LockRelease(p) PROVE LockTypeOK'
  BY <1>7 DEF LockTypeOK, LockRelease
<1>8. ASSUME NEW p \in Procs, LockDie(p) PROVE LockTypeOK'
  BY <1>8 DEF LockTypeOK, LockDie
<1>9. ASSUME NEW path \in Paths, ClearLockFile(path) PROVE LockTypeOK'
  BY <1>9 DEF LockTypeOK, ClearLockFile
<1>10. CASE UNCHANGED lockVars
  BY <1>10 DEF LockTypeOK, lockVars
<1> QED
  BY <1>1, <1>2, <1>3, <1>4, <1>5, <1>6, <1>7, <1>8, <1>9, <1>10
  DEF LockNext, LockEnter

(* Type correctness of deploy_lock.                                        *)
THEOREM LockTypeCorrect == LockSpec => []LockTypeOK
BY LockInitType, LockStepType, PTL DEF LockSpec

-------------------------------------------------------------------------------
(* No file is open at the start and nobody is inside.                      *)
LEMMA LockInitInv == LockInit => LockInv
<1> SUFFICES ASSUME LockInit PROVE LockInv
  OBVIOUS
<1>1. LockTypeOK
  BY LockInitType
<1>2. EntrantHasFile /\ HolderKeepsName /\ SingleFlight
  BY DEF LockInit, EntrantHasFile, HolderKeepsName, SingleFlight
<1> QED
  BY <1>1, <1>2 DEF LockInv

(* Entering, leaving, dying and the operator keep a file with every        *)
(* process past the open.                                                  *)
LEMMA LockStepFile == LockInv /\ [LockNext]_lockVars => EntrantHasFile'
<1> SUFFICES ASSUME LockInv, [LockNext]_lockVars PROVE EntrantHasFile'
  OBVIOUS
<1> USE LockConstants, LockPathType DEF LockInv, LockTypeOK, EntrantHasFile, LockDir
<1>1. ASSUME NEW p \in Procs, LockCreate(p) PROVE EntrantHasFile'
  BY <1>1 DEF LockCreate
<1>2. ASSUME NEW p \in Procs, LockReopen(p) PROVE EntrantHasFile'
  BY <1>2 DEF LockReopen
<1>3. ASSUME NEW p \in Procs, LockDenied(p) PROVE EntrantHasFile'
  BY <1>3 DEF LockDenied
<1>4. ASSUME NEW p \in Procs, LockUnavailable(p) PROVE EntrantHasFile'
  BY <1>4 DEF LockUnavailable
<1>5. ASSUME NEW p \in Procs, LockGranted(p) PROVE EntrantHasFile'
  BY <1>5 DEF LockGranted
<1>6. ASSUME NEW p \in Procs, LockBusy(p) PROVE EntrantHasFile'
  BY <1>6 DEF LockBusy
<1>7. ASSUME NEW p \in Procs, LockRelease(p) PROVE EntrantHasFile'
  BY <1>7 DEF LockRelease
<1>8. ASSUME NEW p \in Procs, LockDie(p) PROVE EntrantHasFile'
  BY <1>8 DEF LockDie
<1>9. ASSUME NEW path \in Paths, ClearLockFile(path) PROVE EntrantHasFile'
  BY <1>9 DEF ClearLockFile
<1>10. CASE UNCHANGED lockVars
  BY <1>10 DEF lockVars
<1> QED
  BY <1>1, <1>2, <1>3, <1>4, <1>5, <1>6, <1>7, <1>8, <1>9, <1>10
  DEF LockNext, LockEnter

(* A live operation's lock file keeps its name: nothing but the operator   *)
(* ever takes a name away, and the operator looks for live operations.     *)
LEMMA LockStepName ==
  ASSUME LockAssumptions
  PROVE  LockInv /\ [LockNext]_lockVars => HolderKeepsName'
<1> SUFFICES ASSUME LockInv, [LockNext]_lockVars PROVE HolderKeepsName'
  OBVIOUS
<1> USE LockConstants, LockPathType DEF LockInv, LockTypeOK, HolderKeepsName
<1>1. ASSUME NEW p \in Procs, LockCreate(p) PROVE HolderKeepsName'
  BY <1>1 DEF LockCreate, LockPath, LockDir
<1>2. ASSUME NEW p \in Procs, LockReopen(p) PROVE HolderKeepsName'
  BY <1>2 DEF LockReopen, LockPath, LockDir
<1>3. ASSUME NEW p \in Procs, LockDenied(p) PROVE HolderKeepsName'
  BY <1>3 DEF LockDenied, LockPath, LockDir
<1>4. ASSUME NEW p \in Procs, LockUnavailable(p) PROVE HolderKeepsName'
  BY <1>4 DEF LockUnavailable, LockPath, LockDir
<1>5. ASSUME NEW p \in Procs, LockGranted(p) PROVE HolderKeepsName'
  BY <1>5 DEF LockGranted, LockPath, LockDir
<1>6. ASSUME NEW p \in Procs, LockBusy(p) PROVE HolderKeepsName'
  BY <1>6 DEF LockBusy, LockPath, LockDir
<1>7. ASSUME NEW p \in Procs, LockRelease(p) PROVE HolderKeepsName'
  BY <1>7 DEF LockRelease, LockPath, LockDir
<1>8. ASSUME NEW p \in Procs, LockDie(p) PROVE HolderKeepsName'
  BY <1>8 DEF LockDie, LockPath, LockDir
<1>9. ASSUME NEW path \in Paths, ClearLockFile(path) PROVE HolderKeepsName'
  BY <1>9 DEF ClearLockFile, LockPath, LockDir, LockAssumptions
<1>10. CASE UNCHANGED lockVars
  BY <1>10 DEF lockVars, LockPath, LockDir
<1> QED
  BY <1>1, <1>2, <1>3, <1>4, <1>5, <1>6, <1>7, <1>8, <1>9, <1>10
  DEF LockNext, LockEnter

(* Processes of one install directory have one lock path, and those of     *)
(* them past the open have one inode.                                      *)
LEMMA SameInode ==
  ASSUME LockAssumptions, LockInv,
         NEW p \in Procs, NEW q \in Procs, p # q, InstallOf[p] = InstallOf[q],
         stage[p] \in {"opened", "in"}, stage[q] \in {"opened", "in"}
  PROVE  fd[p] = fd[q]
<1>1. LockPath(p) = LockPath(q)
  BY DEF LockAssumptions, LockPath
<1>2. fd[p] # NoFd /\ fd[q] # NoFd
  BY DEF LockAssumptions, LockInv, EntrantHasFile
<1> QED
  BY <1>1, <1>2 DEF LockInv, HolderKeepsName

(* Nobody of the same install is inside when the flock is granted.         *)
LEMMA GrantedAlone ==
  ASSUME LockAssumptions, LockInv, NEW p \in Procs, LockGranted(p),
         NEW q \in Procs, q # p, InstallOf[q] = InstallOf[p]
  PROVE  stage[q] # "in"
<1> SUFFICES ASSUME stage[q] = "in" PROVE FALSE
  OBVIOUS
<1>1. fd[q] = fd[p]
  BY SameInode DEF LockGranted
<1> QED
  BY <1>1 DEF LockGranted, LockHolder

(* Single-flight is kept: only two steps let a process in.                 *)
LEMMA LockStepSingle ==
  ASSUME LockAssumptions
  PROVE  LockInv /\ [LockNext]_lockVars => SingleFlight'
<1> SUFFICES ASSUME LockInv, [LockNext]_lockVars PROVE SingleFlight'
  OBVIOUS
<1> USE LockConstants DEF LockInv, LockTypeOK, SingleFlight
<1>1. ASSUME NEW p \in Procs,
             LockCreate(p) \/ LockReopen(p) \/ LockDenied(p) \/ LockBusy(p)
             \/ LockRelease(p) \/ LockDie(p)
      PROVE  SingleFlight'
  BY <1>1 DEF LockCreate, LockReopen, LockDenied, LockBusy, LockRelease, LockDie
<1>2. ASSUME NEW p \in Procs, LockUnavailable(p) PROVE SingleFlight'
  BY <1>2 DEF LockUnavailable, LockAssumptions
<1>3. ASSUME NEW p \in Procs, LockGranted(p) PROVE SingleFlight'
  <2>1. \A q \in Procs : q # p /\ InstallOf[q] = InstallOf[p] => stage[q] # "in"
    BY <1>3, GrantedAlone
  <2> QED
    BY <1>3, <2>1 DEF LockGranted
<1>4. ASSUME NEW path \in Paths, ClearLockFile(path) PROVE SingleFlight'
  BY <1>4 DEF ClearLockFile
<1>5. CASE UNCHANGED lockVars
  BY <1>5 DEF lockVars
<1> QED
  BY <1>1, <1>2, <1>3, <1>4, <1>5 DEF LockNext, LockEnter

(* The inductive invariant of deploy_lock.                                 *)
THEOREM LockInvariant ==
  ASSUME LockAssumptions
  PROVE  LockSpec => []LockInv
<1>1. LockInv /\ [LockNext]_lockVars => LockInv'
  BY LockStepType, LockStepFile, LockStepName, LockStepSingle DEF LockInv
<1> QED
  BY <1>1, LockInitInv, PTL DEF LockSpec

(* Two operations never work on one install directory at the same time, if *)
(* its processes resolve one working lock directory and nobody deletes the *)
(* lock file of a live operation.                                          *)
THEOREM SingleFlightHolds ==
  ASSUME LockAssumptions
  PROVE  LockSpec => []SingleFlight
<1>1. LockInv => SingleFlight
  BY DEF LockInv
<1> QED
  BY <1>1, LockInvariant, PTL

(* The lock file of a live operation keeps its name.                       *)
THEOREM HolderKeepsNameHolds ==
  ASSUME LockAssumptions
  PROVE  LockSpec => []HolderKeepsName
<1>1. LockInv => HolderKeepsName
  BY DEF LockInv
<1> QED
  BY <1>1, LockInvariant, PTL

-------------------------------------------------------------------------------
(* What a step of AbstractLock does to the processes inside.               *)
RegionStep(i) ==
  \/ Region(i)' = Region(i)
  \/ \E p \in Procs :
       /\ InstallOf[p] = i
       /\ \/ Region(i) = {} /\ Region(i)' = {p}
          \/ p \in Region(i) /\ Region(i)' = {}

(* A step that changes no stage, or one stage from and to outside "in",    *)
(* leaves every region as it is.                                           *)
LEMMA RegionKept ==
  ASSUME NEW i \in Installs,
         \A q \in Procs : (stage[q] = "in") = (stage'[q] = "in")
  PROVE  RegionStep(i)
BY DEF RegionStep, Region

(* A process that comes in finds the region of its install empty.          *)
LEMMA RegionEntered ==
  ASSUME LockTypeOK, NEW i \in Installs, NEW p \in Procs,
         stage[p] # "in", stage' = [stage EXCEPT ![p] = "in"],
         \A q \in Procs : q # p /\ InstallOf[q] = InstallOf[p] => stage[q] # "in"
  PROVE  RegionStep(i)
<1>1. CASE InstallOf[p] = i
  <2>1. Region(i) = {} /\ Region(i)' = {p}
    BY <1>1 DEF Region, LockTypeOK
  <2> QED
    BY <1>1, <2>1 DEF RegionStep
<1>2. CASE InstallOf[p] # i
  BY <1>2 DEF RegionStep, Region, LockTypeOK
<1> QED
  BY <1>1, <1>2

(* A process that leaves was alone in the region of its install.           *)
LEMMA RegionLeft ==
  ASSUME LockTypeOK, SingleFlight, NEW i \in Installs, NEW p \in Procs,
         stage' = [stage EXCEPT ![p] = "out"]
  PROVE  RegionStep(i)
<1>1. CASE stage[p] = "in" /\ InstallOf[p] = i
  <2>1. p \in Region(i) /\ Region(i)' = {}
    BY <1>1 DEF Region, LockTypeOK, SingleFlight
  <2> QED
    BY <1>1, <2>1 DEF RegionStep
<1>2. CASE ~(stage[p] = "in" /\ InstallOf[p] = i)
  BY <1>2 DEF RegionStep, Region, LockTypeOK
<1> QED
  BY <1>1, <1>2

(* Every step of deploy_lock, and of the operator, is a step of the        *)
(* abstract lock of each install, or leaves it alone.                      *)
LEMMA LockStepRegion ==
  ASSUME LockAssumptions, LockInv, [LockNext]_lockVars, NEW i \in Installs
  PROVE  RegionStep(i)
<1> USE DEF LockInv
<1>1. ASSUME NEW p \in Procs,
             LockCreate(p) \/ LockReopen(p) \/ LockDenied(p) \/ LockBusy(p)
      PROVE  RegionStep(i)
  BY <1>1, RegionKept DEF LockCreate, LockReopen, LockDenied, LockBusy, LockTypeOK
<1>2. ASSUME NEW p \in Procs, LockUnavailable(p) PROVE RegionStep(i)
  <2>1. CASE RuntimeDir[p] = Unset
    BY <1>2, <2>1, RegionKept DEF LockUnavailable, LockTypeOK
  <2>2. CASE RuntimeDir[p] # Unset
    <3>1. \A q \in Procs : q # p /\ InstallOf[q] = InstallOf[p] => stage[q] # "in"
      BY <1>2 DEF LockUnavailable, LockAssumptions
    <3> QED
      BY <1>2, <2>2, <3>1, RegionEntered DEF LockUnavailable
  <2> QED
    BY <2>1, <2>2
<1>3. ASSUME NEW p \in Procs, LockGranted(p) PROVE RegionStep(i)
  <2>1. \A q \in Procs : q # p /\ InstallOf[q] = InstallOf[p] => stage[q] # "in"
    BY <1>3, GrantedAlone
  <2> QED
    BY <1>3, <2>1, RegionEntered DEF LockGranted
<1>4. ASSUME NEW p \in Procs, LockRelease(p) \/ LockDie(p) PROVE RegionStep(i)
  BY <1>4, RegionLeft DEF LockRelease, LockDie
<1>5. ASSUME NEW path \in Paths, ClearLockFile(path) PROVE RegionStep(i)
  BY <1>5, RegionKept DEF ClearLockFile
<1>6. CASE UNCHANGED lockVars
  BY <1>6, RegionKept DEF lockVars
<1> QED
  BY <1>1, <1>2, <1>3, <1>4, <1>5, <1>6 DEF LockNext, LockEnter

(* deploy_lock implements the abstract lock that the deploy engine is      *)
(* specified with, for every install directory.                            *)
THEOREM LockRefinement ==
  ASSUME LockAssumptions
  PROVE  LockSpec => ImplementsAbstractLock
<1>1. LockInit => \A i \in Installs : Abstract(i)!Init
  BY DEF LockInit, Abstract!Init, Region
<1>2. LockInv /\ [LockNext]_lockVars =>
        [\A i \in Installs : Abstract(i)!Next \/ UNCHANGED Region(i)]_lockVars
  <2> SUFFICES ASSUME LockInv, [LockNext]_lockVars, NEW i \in Installs
               PROVE  Abstract(i)!Next \/ UNCHANGED Region(i)
    OBVIOUS
  <2>1. RegionStep(i)
    BY LockStepRegion
  <2> QED
    BY <2>1 DEF RegionStep, Abstract!Next, Abstract!Enter, Abstract!Leave
<1> QED
  BY <1>1, <1>2, LockInvariant, PTL DEF LockSpec, ImplementsAbstractLock
===============================================================================
