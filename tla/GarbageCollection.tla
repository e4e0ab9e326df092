--------------------------- MODULE GarbageCollection ---------------------------
(***************************************************************************)
(* `agmind gc`: containers, images, volumes, networks and, when asked, model *)
(* files, one after the other and each on what the one before left. It takes *)
(* no deploy lock: services start, stop and go between two of its commands.  *)
(***************************************************************************)
EXTENDS Naturals, FiniteSets

CONSTANTS
  DockerContainer, DockerImage, DockerVolume, DockerNetwork,
  ImageOfContainer, VolumesOfContainer, NetworkOfContainer,
  Labeled,        \* volumes with the label agmind.gc=auto
  WeightFile,     \* files of the models directory with a model's suffix
  WeightSource,   \* templates/services/*.yaml and templates/models.yaml
  Named,          \* source -> model files its text names
  MaxGcRuns,      \* bounds: runs of the command, and what else happens
  MaxChanges

VARIABLES
  status,         \* container -> absent, created, running, exited or dead
  tag,            \* image -> absent, tagged or dangling
  old,            \* images past --older-than-hours
  volumes, networks, models,
  broken,         \* sources that do not parse
  dockerUp,       \* the daemon answers
  gc,             \* the run: its next target, mode, and the models it is to unlink
  shown,          \* what the last dry run listed
  gone,           \* what the run removed
  failed,         \* its targets whose report is an error
  gcRuns, changes,
  quiet           \* ghost: nothing else happened since that dry run

gcVars == <<status, tag, old, volumes, networks, models, broken, dockerUp, gc, shown, gone,
            failed, gcRuns, changes, quiet>>
counters == <<gcRuns, changes, quiet>>
hostObjects == <<status, tag, old, volumes, networks, models, broken, dockerUp>>

NoThings == [containers |-> {}, images |-> {}, volumes |-> {}, networks |-> {}, models |-> {}]
GcIdle == [at |-> "idle", dry |-> FALSE, aggressive |-> FALSE, withModels |-> FALSE, left |-> {}]

Held(UsedBy(_)) == UNION {UsedBy(c) : c \in {x \in DockerContainer : status[x] # "absent"}}
UsedImages == Held(LAMBDA c : {ImageOfContainer[c]})
UsedVolumes == Held(LAMBDA c : VolumesOfContainer[c])
UsedNetworks == Held(LAMBDA c : {NetworkOfContainer[c]})

-----------------------------------------------------------------------------
(* A run                                                                   *)

(* Without --dry-run and --yes, --aggressive and --include-models ask; a no   *)
(* is exit 1.                                                               *)
BeginGc(dry, aggressive, withModels) ==
  /\ gc.at = "idle" /\ gcRuns < MaxGcRuns /\ gcRuns' = gcRuns + 1
  /\ gc' = [GcIdle EXCEPT !.at = "containers", !.dry = dry, !.aggressive = aggressive,
                        !.withModels = withModels]
  /\ gone' = NoThings /\ failed' = {}
  /\ IF dry THEN shown' = NoThings /\ quiet' = TRUE
     ELSE /\ UNCHANGED shown
          /\ quiet' = (quiet /\ gc.aggressive = aggressive /\ (withModels => gc.withModels))
  /\ UNCHANGED <<hostObjects, changes>>

After(target) ==
  CASE target = "containers" -> "images"
    [] target = "images" -> "volumes"
    [] target = "volumes" -> "networks"
    [] target = "networks" -> IF gc.withModels THEN "models" ELSE "done"
    [] OTHER -> "done"

Reported(target, things) ==
  IF gc.dry THEN /\ shown' = [shown EXCEPT ![target] = things] /\ UNCHANGED gone
            ELSE /\ gone' = [gone EXCEPT ![target] = things] /\ UNCHANGED shown

(* No docker, or an error of its command: a report with the error, and the    *)
(* next target all the same.                                                *)
DockerFails ==
  /\ gc.at \in {"containers", "images", "volumes", "networks"} /\ ~dockerUp
  /\ failed' = failed \cup {gc.at}
  /\ gc' = [gc EXCEPT !.at = After(gc.at)]
  /\ UNCHANGED <<hostObjects, shown, gone, counters>>

PrunedContainers == {c \in DockerContainer : status[c] \in {"created", "exited", "dead"}}

(* The preview asks for exited and dead ones; prune takes created ones too.   *)
GcContainers ==
  /\ gc.at = "containers" /\ dockerUp
  /\ IF gc.dry
     THEN /\ Reported("containers", {c \in DockerContainer : status[c] \in {"exited", "dead"}})
          /\ UNCHANGED status
     ELSE /\ Reported("containers", PrunedContainers)
          /\ status' = [c \in DockerContainer |-> IF c \in PrunedContainers THEN "absent"
                                            ELSE status[c]]
  /\ gc' = [gc EXCEPT !.at = "images"]
  /\ UNCHANGED <<tag, old, volumes, networks, models, broken, dockerUp, failed, counters>>

\* Bug: -a also without --aggressive.
PrunedImagesAll == {i \in old : tag[i] # "absent" /\ i \notin UsedImages}

(* image prune -f, or -af.                                                  *)
PrunedImages ==
  {i \in old : /\ IF gc.aggressive THEN tag[i] # "absent" ELSE tag[i] = "dangling"
               /\ i \notin UsedImages}

(* The preview of -af lists all images, those in use included.               *)
ListedImages ==
  {i \in old : IF gc.aggressive THEN tag[i] # "absent" ELSE tag[i] = "dangling"}

GcImages ==
  /\ gc.at = "images" /\ dockerUp
  /\ IF gc.dry
     THEN Reported("images", ListedImages) /\ UNCHANGED tag
     ELSE /\ Reported("images", PrunedImages)
          /\ tag' = [i \in DockerImage |-> IF i \in PrunedImages THEN "absent" ELSE tag[i]]
  /\ gc' = [gc EXCEPT !.at = "volumes"]
  /\ UNCHANGED <<status, old, volumes, networks, models, broken, dockerUp, failed, counters>>

(* Without --aggressive only the labeled ones.                              *)
PrunedVolumes == {v \in volumes \ UsedVolumes : gc.aggressive \/ v \in Labeled}

GcVolumes ==
  /\ gc.at = "volumes" /\ dockerUp
  /\ Reported("volumes", PrunedVolumes)
  /\ volumes' = IF gc.dry THEN volumes ELSE volumes \ PrunedVolumes
  /\ gc' = [gc EXCEPT !.at = "networks"]
  /\ UNCHANGED <<status, tag, old, networks, models, broken, dockerUp, failed, counters>>

(* The preview lists none.                                                  *)
GcNetworks ==
  /\ gc.at = "networks" /\ dockerUp
  /\ Reported("networks", IF gc.dry THEN {} ELSE networks \ UsedNetworks)
  /\ networks' = IF gc.dry THEN networks ELSE networks \cap UsedNetworks
  /\ gc' = [gc EXCEPT !.at = After("networks")]
  /\ UNCHANGED <<status, tag, old, volumes, models, broken, dockerUp, failed, counters>>

-----------------------------------------------------------------------------
(* Models                                                                  *)

\* Bug: a source that does not parse is passed over.
CanScanAnyway == TRUE

CanScan == broken = {}

UsedModels == UNION {Named[s] : s \in WeightSource \ broken}

(* A source that does not parse is an error, and nothing is removed.         *)
GcModels ==
  /\ gc.at = "models"
  /\ IF CanScan
     THEN /\ IF gc.dry THEN Reported("models", models \ UsedModels) ELSE UNCHANGED <<shown, gone>>
          /\ gc' = [gc EXCEPT !.at = IF gc.dry THEN "done" ELSE "unlink",
                              !.left = IF gc.dry THEN {} ELSE models \ UsedModels]
          /\ UNCHANGED failed
     ELSE /\ gc' = [gc EXCEPT !.at = "done"]
          /\ failed' = failed \cup {"models"}
          /\ UNCHANGED <<shown, gone>>
  /\ UNCHANGED <<hostObjects, counters>>

(* One file after the other; one that cannot be unlinked is logged.           *)
UnlinkModel(m) ==
  /\ gc.at = "unlink" /\ m \in gc.left
  /\ \/ models' = models \ {m} /\ gone' = [gone EXCEPT !.models = @ \cup ({m} \cap models)]
     \/ UNCHANGED <<models, gone>>
  /\ gc' = [gc EXCEPT !.left = @ \ {m}]
  /\ UNCHANGED <<status, tag, old, volumes, networks, broken, dockerUp, shown, failed, counters>>

(* The command exits 0 whatever the reports say.                            *)
EndGc ==
  /\ \/ gc.at = "done"
     \/ gc.at = "unlink" /\ gc.left = {}
  /\ gc' = [gc EXCEPT !.at = "idle"]
  /\ UNCHANGED <<hostObjects, shown, gone, failed, counters>>

-----------------------------------------------------------------------------
(* The host                                                                *)

HostChanges ==
  /\ changes < MaxChanges /\ changes' = changes + 1
  /\ quiet' = FALSE
  /\ UNCHANGED <<gc, shown, gone, failed, gcRuns>>

(* docker compose up, with what it creates; a container may fail to start.    *)
StartService(c) ==
  /\ dockerUp /\ status[c] # "running"
  /\ \E end \in {"running", "created"} : status' = [status EXCEPT ![c] = end]
  /\ tag' = [tag EXCEPT ![ImageOfContainer[c]] = IF @ = "absent" THEN "tagged" ELSE @]
  /\ old' = IF tag[ImageOfContainer[c]] = "absent" THEN old \ {ImageOfContainer[c]} ELSE old
  /\ volumes' = volumes \cup VolumesOfContainer[c]
  /\ networks' = networks \cup {NetworkOfContainer[c]}
  /\ UNCHANGED <<models, broken, dockerUp>> /\ HostChanges

(* compose stop, a crash, compose down.                                      *)
StopContainer(c) ==
  /\ status[c] = "running"
  /\ \E end \in {"exited", "dead", "absent"} : status' = [status EXCEPT ![c] = end]
  /\ UNCHANGED <<tag, old, volumes, networks, models, broken, dockerUp>> /\ HostChanges

(* A pull moves the tag to a newer image; time passes.                       *)
AgeImage(i) ==
  /\ tag[i] # "absent"
  /\ \/ tag' = [tag EXCEPT ![i] = "dangling"] /\ UNCHANGED old
     \/ old' = old \cup {i} /\ UNCHANGED tag
  /\ UNCHANGED <<status, volumes, networks, models, broken, dockerUp>> /\ HostChanges

AddModel(m) ==
  /\ models' = models \cup {m}
  /\ UNCHANGED <<status, tag, old, volumes, networks, broken, dockerUp>> /\ HostChanges

EditSource(s) ==
  /\ broken' = IF s \in broken THEN broken \ {s} ELSE broken \cup {s}
  /\ UNCHANGED <<status, tag, old, volumes, networks, models, dockerUp>> /\ HostChanges

DockerComesOrGoes ==
  /\ dockerUp' = ~dockerUp
  /\ UNCHANGED <<status, tag, old, volumes, networks, models, broken>> /\ HostChanges

-----------------------------------------------------------------------------
GcInit ==
  /\ status \in [DockerContainer -> {"created", "running", "exited"}]
  /\ tag \in [DockerImage -> {"tagged", "dangling"}] /\ old \in SUBSET DockerImage
  /\ volumes = DockerVolume /\ networks = DockerNetwork /\ models = WeightFile /\ broken = {}
  /\ dockerUp = TRUE /\ gc = GcIdle /\ shown = NoThings /\ gone = NoThings /\ failed = {}
  /\ gcRuns = 0 /\ changes = 0 /\ quiet = FALSE

GcNext ==
  \/ \E dry, aggressive, withModels \in BOOLEAN : BeginGc(dry, aggressive, withModels)
  \/ DockerFails \/ GcContainers \/ GcImages \/ GcVolumes \/ GcNetworks \/ GcModels \/ EndGc
  \/ \E m \in WeightFile : UnlinkModel(m) \/ AddModel(m)
  \/ \E c \in DockerContainer : StartService(c) \/ StopContainer(c)
  \/ \E i \in DockerImage : AgeImage(i)
  \/ \E s \in WeightSource : EditSource(s)
  \/ DockerComesOrGoes

GcSpec == GcInit /\ [][GcNext]_gcVars

-----------------------------------------------------------------------------
(* No model file that a descriptor or the catalog names is ever unlinked,      *)
(* though another of them does not parse, or does so only while gc runs.      *)
NamedModelsKept ==
  [][\A m \in models \ models' : \A s \in WeightSource : m \notin Named[s]]_gcVars

(* A run right after a dry run of the same mode removes what that one listed.  *)
(* Beyond it go containers that were never started and volumes held only by   *)
(* containers that the run itself removed; networks are never listed.         *)
RemovedWasListed ==
  quiet /\ ~gc.dry =>
    /\ gone.images \subseteq shown.images
    /\ gone.volumes \subseteq
         shown.volumes \cup UNION {VolumesOfContainer[c] : c \in gone.containers}
    /\ gone.models \subseteq shown.models
===============================================================================
