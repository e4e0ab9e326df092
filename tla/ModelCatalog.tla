----------------------------- MODULE ModelCatalog -----------------------------
(***************************************************************************)
(* Which model file a host of a given memory gets: templates/models.yaml,    *)
(* the tier, and the `agmind models` commands that resolve a name through    *)
(* them. ModelStore has the download of one file step by step.               *)
(***************************************************************************)
EXTENDS Naturals, FiniteSets

CONSTANTS
  Ram,            \* amounts of memory, in tenths of a GiB
  CatalogFile,    \* model files of the catalog
  NoModel,        \* the catalog has no such entry
  Nameless,       \* an entry whose `filename` key is missing
  Catalogs,       \* catalogs of the releases: role -> file; NoModel: no models.yaml
  Hashed,         \* files whose entry has a sha256
  MaxModelCommands,    \* bounds: commands, and what else happens
  MaxAccidents

VARIABLES
  ram, catalog,
  stored,         \* file -> absent, whole, near (within 10 %) or short
  answer,         \* the last command: what it was for, its exit code and file
  got,            \* kinds whose download exited 0
  modelCommands, accidents,
  settled         \* ghost: no accident since those downloads

catalogVars == <<ram, catalog, stored, answer, got, modelCommands, accidents, settled>>

Tiers == {"S", "M", "L", "XL", "XXL"}
Kinds == {"llm", "embed", "rerank"}

(* The thresholds are parts of 160, 128, 64 and 32 GiB.                      *)
DetectTier ==
  CASE ram >= 1440 -> "XXL"
    [] ram >= 960 -> "XL"
    [] ram >= 544 -> "L"
    [] ram >= 272 -> "M"
    [] OTHER -> "S"

(* What the catalog has for a kind, or a tier, in a role.                   *)
Entry(kind, role) == catalog[<<kind, role>>]
Prefer(kind, role, default) ==
  IF Entry(kind, role) # NoModel THEN Entry(kind, role) ELSE Entry(kind, default)

(* The entry for this hardware before the primary.                          *)
ResolveLlm(tier) == Prefer(tier, "strix_optimized", "primary")

Resolve(kind) ==
  CASE kind = "llm" -> ResolveLlm(DetectTier)
    [] kind = "vlm" -> Prefer("vlm", "quality", "light")
    [] OTHER -> Entry(kind, "primary")

-----------------------------------------------------------------------------
(* Commands                                                                *)

ModelCommand ==
  /\ modelCommands < MaxModelCommands /\ modelCommands' = modelCommands + 1
  /\ UNCHANGED <<ram, catalog, accidents>>

Answers(what, code, file) == answer' = [what |-> what, code |-> code, file |-> file]

(* safe_model_target raises for an empty name, outside of any try.           *)
Crashes(what, kind) ==
  /\ catalog # NoModel /\ Resolve(kind) = Nameless
  /\ ModelCommand /\ Answers(what, "traceback", NoModel)
  /\ UNCHANGED <<stored, got, settled>>

(* Without models.yaml, or without an LLM of the tier.                       *)
NothingToDo(what, kind) ==
  /\ \/ catalog = NoModel
     \/ catalog # NoModel /\ kind = "llm" /\ Resolve(kind) = NoModel
  /\ ModelCommand /\ Answers(what, "1", NoModel)
  /\ UNCHANGED <<stored, got, settled>>

(* A file that is there is taken as it is. A server that says no length may   *)
(* end a body early, which only a hash tells.                               *)
DownloadKind(kind) ==
  /\ catalog # NoModel /\ Resolve(kind) \in CatalogFile
  /\ ModelCommand
  /\ LET f == Resolve(kind)
     IN \/ /\ stored[f] # "absent"
           /\ Answers("download", "0", f) /\ got' = got \cup {kind}
           /\ UNCHANGED <<stored, settled>>
        \/ /\ stored[f] = "absent"
           /\ stored' = [stored EXCEPT ![f] = "whole"]
           /\ Answers("download", "0", f) /\ got' = got \cup {kind}
           /\ UNCHANGED settled
        \/ /\ stored[f] = "absent" /\ f \notin Hashed
           /\ \E size \in {"near", "short"} : stored' = [stored EXCEPT ![f] = size]
           /\ Answers("download", "0", f) /\ got' = got \cup {kind}
           /\ settled' = FALSE
        \/ /\ stored[f] = "absent"
           /\ Answers("download", "1", f)
           /\ UNCHANGED <<stored, got, settled>>

(* What there is no entry for is passed over.                               *)
SkipDownload(kind) ==
  /\ kind # "llm" /\ catalog # NoModel /\ Resolve(kind) = NoModel
  /\ ModelCommand /\ Answers("download", "0", NoModel)
  /\ UNCHANGED <<stored, got, settled>>

Finds(file) == file = NoModel \/ stored[file] \in {"whole", "near"}

VerifyOf(files) ==
  /\ catalog # NoModel => Nameless \notin files
  /\ ModelCommand
  /\ Answers("verify", IF catalog # NoModel /\ \A f \in files : Finds(f) THEN "0" ELSE "1",
             NoModel)
  /\ UNCHANGED <<stored, got, settled>>

\* Bug: looks at the primary of the tier, whatever it has for this hardware.
VerifyModelsPrimary ==
  VerifyOf(IF catalog = NoModel THEN {}
           ELSE {Entry(DetectTier, "primary"), Resolve("embed"), Resolve("rerank")})

(* There, and its size within 10 % of the catalog's.                        *)
VerifyModels == VerifyOf(IF catalog = NoModel THEN {} ELSE {Resolve(kind) : kind \in Kinds})

PathOf(kind) ==
  /\ catalog # NoModel /\ Resolve(kind) \in CatalogFile \cup {NoModel}
  /\ ModelCommand
  /\ Answers("path", IF Resolve(kind) = NoModel THEN "1" ELSE "0", Resolve(kind))
  /\ UNCHANGED <<stored, got, settled>>

-----------------------------------------------------------------------------
(* Accidents                                                               *)

Accident ==
  /\ accidents < MaxAccidents /\ accidents' = accidents + 1
  /\ settled' = FALSE
  /\ UNCHANGED <<answer, modelCommands>>

(* The firmware gives the GPU another part of the memory.                    *)
ChangeRam ==
  /\ \E r \in Ram \ {ram} : ram' = r
  /\ Accident /\ UNCHANGED <<catalog, stored, got>>

NewCatalog ==
  /\ \E c \in Catalogs \ {catalog} : catalog' = c
  /\ Accident /\ UNCHANGED <<ram, stored, got>>

Damage(f) ==
  /\ stored[f] # "absent"
  /\ \E size \in {"absent", "short", "near"} : stored' = [stored EXCEPT ![f] = size]
  /\ Accident /\ UNCHANGED <<ram, catalog, got>>

-----------------------------------------------------------------------------
CatalogInit ==
  /\ ram \in Ram /\ catalog \in Catalogs
  /\ \E size \in {"absent", "whole"} : stored = [f \in CatalogFile |-> size]
  /\ answer = [what |-> "none", code |-> "0", file |-> NoModel]
  /\ got = {} /\ modelCommands = 0 /\ accidents = 0 /\ settled = TRUE

CatalogNext ==
  \/ \E kind \in Kinds \cup {"vlm"} :
       \/ \E what \in {"download", "path"} : Crashes(what, kind) \/ NothingToDo(what, kind)
       \/ DownloadKind(kind) \/ SkipDownload(kind) \/ PathOf(kind)
  \/ VerifyModels \/ ChangeRam \/ NewCatalog
  \/ \E f \in CatalogFile : Damage(f)

CatalogSpec == CatalogInit /\ [][CatalogNext]_catalogVars

-----------------------------------------------------------------------------
(* What `models download` fetched for the language model, the embedding and    *)
(* the reranker is what `models verify` looks at: with no accident since and  *)
(* no body cut short, it finds all three.                                    *)
DownloadedVerifies ==
  answer.what = "verify" /\ got = Kinds /\ settled => answer.code = "0"
===============================================================================
