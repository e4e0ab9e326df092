---- MODULE MCOperations ----
(***************************************************************************)
(* The commands that take no deploy lock, each on the part of the host it   *)
(* owns: descriptors, backups and their timer, schema.json, model files and  *)
(* their catalog, what `gc` removes. They share no state, so a behaviour runs *)
(* one part and leaves the others.                                          *)
(***************************************************************************)
EXTENDS UpgradePins, Backup, Migrations, ModelStore, ModelCatalog, BackupSchedule,
        GarbageCollection, TLC

CONSTANTS Parts, api, worker, front, sandbox, env, vol, roles, db, mydb, servers,
          web, batch, webImage, batchImage, webData, scratch

VARIABLE part

-----------------------------------------------------------------------------
(* Component dify: two descriptors of one image, one of another, and one of a *)
(* third that is at a version of its own.                                   *)
MCImageOf ==
  [s \in Descriptor |-> CASE s = sandbox -> "sandbox" [] s = front -> "web" [] OTHER -> "api"]
MCMembers == [dify |-> SetToSeq(Descriptor)]
MCReferenceTag == [dify |-> "t1"]
MCNameRank ==
  [n \in {"dify"} \cup Descriptor |->
     CASE n = "dify" -> 1 [] n = api -> 0 [] n = worker -> 2 [] n = front -> 3 [] OTHER -> 4]
MCFirstPin ==
  [s \in Descriptor |->
     CASE s = sandbox -> [tag |-> "s0", inline |-> NoDigest, line |-> NoDigest]
       [] s = api -> [tag |-> "t1", inline |-> DigestOf(s, "t1"), line |-> NoDigest]
       [] OTHER -> [tag |-> "t1", inline |-> NoDigest, line |-> DigestOf(s, "t1")]]
MCPublished ==
  [i \in {"api", "web", "sandbox"} |-> IF i = "sandbox" THEN {"s0", "s1"} ELSE {"t1", "t2"}]

(* The two dumps of postgres, one of mysql, and a volume: their servers go up *)
(* and down together.                                                       *)
MCDataOf == servers :> {roles, db, mydb, vol}
MCMemberOrder == (env :> 1) @@ (roles :> 2) @@ (db :> 3) @@ (mydb :> 4) @@ (vol :> 5)

(* A service, and one whose volume is labeled as temporary; a file that a      *)
(* descriptor names, and one that none does.                                *)
MCImageOfContainer == (web :> webImage) @@ (batch :> batchImage)
MCVolumesOfContainer == (web :> {webData}) @@ (batch :> {scratch})
MCNetworkOfContainer == [c \in DockerContainer |-> "default"]
MCNamed == [descriptor |-> {"named"}, catalog |-> {}]

(* L has an entry for this hardware, XXL none at all; what the vision model    *)
(* has is no `filename`. The next release drops them.                       *)
MCRoles ==
  (Tiers \X {"primary", "strix_optimized"}) \cup ({"embed", "rerank"} \X {"primary"})
    \cup ({"vlm"} \X {"light", "quality"})
MCCatalog ==
  [r \in MCRoles |->
     CASE r[2] = "strix_optimized" -> IF r[1] = "L" THEN "tuned" ELSE NoModel
       [] r[1] \in {"S", "M"} -> "small"
       [] r[1] = "XXL" -> NoModel
       [] r[1] \in {"L", "XL"} -> "large"
       [] r[1] = "vlm" -> Nameless
       [] OTHER -> r[1]]
MCNextCatalog ==
  [MCCatalog EXCEPT ![<<"L", "strix_optimized">>] = NoModel,
                    ![<<"vlm", "light">>] = NoModel, ![<<"vlm", "quality">>] = NoModel]
MCCatalogs == {NoModel, MCCatalog, MCNextCatalog}

-----------------------------------------------------------------------------
OperationsInit ==
  /\ part \in Parts
  /\ PinsInit /\ BackupInit /\ MigrationInit /\ StoreInit
  /\ part # "migrations" => known = Version
  /\ part # "models" => target = NoFile /\ partial = NoFile /\ fallback = NoFile
  /\ ScheduleInit /\ (part # "schedule" => envRemote = NoRemote)
  /\ CatalogInit
  /\ part # "catalog" => catalog = NoModel /\ stored = [f \in CatalogFile |-> "absent"]
                           /\ \A r \in Ram : ram <= r
  /\ GcInit
  /\ part # "gc" => old = {} /\ \A c \in DockerContainer : status[c] = "running"
                   /\ \A i \in DockerImage : tag[i] = "tagged"

Step(name, Next, vars) == IF part = name THEN Next ELSE UNCHANGED vars

OperationsNext ==
  /\ UNCHANGED part
  /\ Step("pins", PinsNext, pinsVars)
  /\ Step("backup", BackupNext, backupVars)
  /\ Step("migrations", MigrationNext, migrationVars)
  /\ Step("models", StoreNext, storeVars)
  /\ Step("schedule", ScheduleNext, scheduleVars)
  /\ Step("catalog", CatalogNext, catalogVars)
  /\ Step("gc", GcNext, gcVars)

operationsVars == <<part, pinsVars, backupVars, migrationVars, storeVars, scheduleVars,
                    catalogVars, gcVars>>
OperationsSpec == OperationsInit /\ [][OperationsNext]_operationsVars
====
