---------------------------- MODULE DryRunEvidence ----------------------------
(***************************************************************************)
(* The Kubernetes proof: every target is rendered, sent to the cluster as a *)
(* server-side dry run, and the outcome is kept in an artifact directory    *)
(* that a later command verifies. The directory is used again by the next   *)
(* run, a run may be killed anywhere, files may be lost or damaged.         *)
(***************************************************************************)
EXTENDS Naturals, FiniteSets, Sequences, SequencesExt

CONSTANTS
  Target,         \* the Kubernetes deployment targets
  TargetOrder,    \* sequence of them, as the target file has them
  Renderable,     \* <<target, catalog version>> pairs whose render succeeds
  LastCatalog,    \* bound: versions of the catalog
  Invocations,    \* command lines: targets asked for, --require-cluster, --require-amd-gpu
  MaxProofs,      \* bound: runs begun
  MaxDamage,      \* bound: kills and damages
  Absent, Damaged

VARIABLES
  catalog,        \* version of the descriptors
  bundle,         \* artifact -> what the file holds
  proof,          \* the run at work
  proofs, damage,
  accepted,       \* ghost: <<target, manifest>> a cluster's dry run has accepted
  settled         \* ghost: a run has completed, and no file changed but by it

evidenceVars == <<catalog, bundle, proof, proofs, damage, accepted, settled>>

(* Manifest and report of each target, and the four files of the run.       *)
Manifest(t) == <<"manifest", t>>
Report(t) == <<"report", t>>
FilesOf(targets) ==
  {Manifest(t) : t \in targets} \cup {Report(t) : t \in targets}
    \cup {<<"command">>, <<"metadata">>, <<"summary">>}
Artifact == FilesOf(Target) \cup {<<"checksums">>}
Present == {a \in Artifact : bundle[a] # Absent}

(* What a file can hold when it is neither absent nor damaged.               *)
Manifests == [target : Target, version : Nat]
Reports ==
  [target : Target, status : {"passed", "skipped", "failed"}, manifest : Manifests \cup {Absent},
   gpu : {"none", "passed", "skipped", "failed"}]
Commands == [ids : Seq(Target), cluster : BOOLEAN, gpu : BOOLEAN]
Metadata == [run : Nat]
Summaries ==
  [ok : BOOLEAN, ids : Seq(Target), cluster : BOOLEAN, reports : Seq(Reports), command : Commands,
   metadata : Metadata]
Contents == Manifests \cup Reports \cup Commands \cup Metadata \cup Summaries

ASSUME EvidenceAssumption ==
  /\ TargetOrder \in Seq(Target)
  /\ \A i, j \in DOMAIN TargetOrder : TargetOrder[i] = TargetOrder[j] => i = j
  /\ \A args \in Invocations : args.cluster \in BOOLEAN /\ args.gpu \in BOOLEAN
  /\ Absent # Damaged
  /\ \A lost \in {Absent, Damaged} :
       /\ lost \notin Contents
       /\ \A listed \in SUBSET Artifact : lost \notin [listed -> Contents \cup {Damaged}]

NoProof == [at |-> "idle", ids |-> <<>>, cluster |-> FALSE, gpu |-> FALSE, reports |-> <<>>,
            report |-> Absent,
            clean |-> TRUE]       \* ghost: no damage since it began
Wrote(a, content) == bundle' = [bundle EXCEPT ![a] = content] /\ settled' = FALSE
Current == proof.ids[Len(proof.reports) + 1]

-----------------------------------------------------------------------------
(* The run                                                                 *)

(* _select_kubernetes_targets: all of them, or the named ones, once each and  *)
(* in the order in which they are first named; a name that is no Kubernetes  *)
(* target ends the command.                                                 *)
FirstNamed(asked, t) ==
  CHOOSE i \in DOMAIN asked : asked[i] = t /\ \A j \in 1..(i - 1) : asked[j] # t

SelectTargets(asked) ==
  IF asked = <<>> THEN {TargetOrder}
  ELSE {ids \in UNION {[1..n -> Target] : n \in 0..Cardinality(Target)} :
          /\ ToSet(ids) = ToSet(asked)
          /\ \A i, j \in DOMAIN ids :
               /\ ids[i] = ids[j] => i = j
               /\ i < j => FirstNamed(asked, ids[i]) < FirstNamed(asked, ids[j])}

BeginProof(args) ==
  /\ proof.at = "idle" /\ proofs < MaxProofs
  /\ proofs' = proofs + 1
  /\ \E ids \in SelectTargets(args.asked) :
       proof' = [NoProof EXCEPT !.at = IF ids = <<>> THEN "metadata" ELSE "render", !.ids = ids,
                                !.cluster = args.cluster, !.gpu = args.gpu]
  /\ UNCHANGED <<catalog, bundle, damage, accepted, settled>>

RenderedManifest(t) == [target |-> t, version |-> catalog]
Unproven == [target |-> Current, status |-> "failed", manifest |-> Absent, gpu |-> "none"]

RenderFails ==
  /\ proof.at = "render" /\ <<Current, catalog>> \notin Renderable
  /\ proof' = [proof EXCEPT !.at = "report", !.report = Unproven]
  /\ UNCHANGED <<catalog, bundle, proofs, damage, accepted, settled>>

\* Bug: size and hash are taken before the file is written.
RenderTargetHashesFirst ==
  /\ proof.at = "render" /\ <<Current, catalog>> \in Renderable
  /\ Wrote(Manifest(Current), RenderedManifest(Current))
  /\ proof' = [proof EXCEPT !.at = IF proof.gpu THEN "preflight" ELSE "apply",
                            !.report = [Unproven EXCEPT !.manifest = bundle[Manifest(Current)]]]
  /\ UNCHANGED <<catalog, proofs, damage, accepted>>

(* The manifest is written, and its size and hash are taken from the file.   *)
RenderTarget ==
  /\ proof.at = "render" /\ <<Current, catalog>> \in Renderable
  /\ Wrote(Manifest(Current), RenderedManifest(Current))
  /\ proof' = [proof EXCEPT !.at = IF proof.gpu THEN "preflight" ELSE "apply",
                            !.report = [Unproven EXCEPT !.manifest = bundle'[Manifest(Current)]]]
  /\ UNCHANGED <<catalog, proofs, damage, accepted>>

(* No kubectl: the target is skipped, with its preflight.                   *)
NoKubectl ==
  /\ proof.at \in {"preflight", "apply"} /\ proof.report.gpu = "none"
  /\ proof' = [proof EXCEPT !.at = "report", !.report.status = "skipped",
                            !.report.gpu = IF proof.gpu THEN "skipped" ELSE "none"]
  /\ UNCHANGED <<catalog, bundle, proofs, damage, accepted, settled>>

\* Bug: a cluster that does not answer is not an error.
OutcomeLenient(answer) ==
  CASE answer = "accepted" -> "passed"
    [] answer = "unreachable" -> "passed"
    [] OTHER -> "failed"

(* A cluster that cannot be reached skips, any other error fails.           *)
Outcome(answer) ==
  CASE answer = "accepted" -> "passed"
    [] answer = "unreachable" -> "skipped"
    [] OTHER -> "failed"

(* _run_amd_gpu_preflight: kubectl get nodes, and an allocatable GPU.       *)
Preflight(answer) ==
  /\ proof.at = "preflight"
  /\ LET status == Outcome(answer)
     IN proof' = [proof EXCEPT !.at = IF status = "passed" THEN "apply" ELSE "report",
                               !.report.gpu = status,
                               !.report.status = IF status = "passed" THEN @ ELSE status]
  /\ UNCHANGED <<catalog, bundle, proofs, damage, accepted, settled>>

(* kubectl reads the manifest from its path.                                *)
ServerDryRun(answer) ==
  /\ proof.at = "apply"
  /\ answer = "accepted" => bundle[Manifest(Current)] # Absent
  /\ accepted' = IF answer = "accepted"
       THEN accepted \cup {<<Current, bundle[Manifest(Current)]>>} ELSE accepted
  /\ proof' = [proof EXCEPT !.at = "report", !.report.status = Outcome(answer)]
  /\ UNCHANGED <<catalog, bundle, proofs, damage, settled>>

WriteTargetReport ==
  /\ proof.at = "report"
  /\ Wrote(Report(Current), proof.report)
  /\ proof' = [proof EXCEPT !.reports = Append(@, proof.report), !.report = Absent,
                            !.at = IF Len(proof.reports) + 1 = Len(proof.ids)
                                   THEN "metadata" ELSE "render"]
  /\ UNCHANGED <<catalog, proofs, damage, accepted>>

-----------------------------------------------------------------------------
(* Its record                                                              *)

WriteMetadata ==
  /\ proof.at = "metadata"
  /\ Wrote(<<"metadata">>, [run |-> proofs])
  /\ proof' = [proof EXCEPT !.at = "command"]
  /\ UNCHANGED <<catalog, proofs, damage, accepted>>

ProofCommand == [ids |-> proof.ids, cluster |-> proof.cluster, gpu |-> proof.gpu]

WriteProofCommand ==
  /\ proof.at = "command"
  /\ Wrote(<<"command">>, ProofCommand)
  /\ proof' = [proof EXCEPT !.at = "summary"]
  /\ UNCHANGED <<catalog, proofs, damage, accepted>>

(* KubernetesDryRunReport.ok                                                *)
AllFine(reports, cluster) ==
  /\ \A i \in DOMAIN reports : reports[i].status # "failed"
  /\ cluster => \A i \in DOMAIN reports : reports[i].status # "skipped"

WriteSummary ==
  /\ proof.at = "summary"
  /\ Wrote(<<"summary">>,
           [ok |-> AllFine(proof.reports, proof.cluster), ids |-> proof.ids,
            cluster |-> proof.cluster, reports |-> proof.reports,
            command |-> ProofCommand, metadata |-> [run |-> proofs]])
  /\ proof' = [proof EXCEPT !.at = "checksums"]
  /\ UNCHANGED <<catalog, proofs, damage, accepted>>

(* The files of this run that exist, other targets' files are not listed.   *)
Listed == FilesOf(ToSet(proof.ids)) \cap Present

WriteChecksums ==
  /\ proof.at = "checksums"
  /\ bundle' = [bundle EXCEPT ![<<"checksums">>] = [a \in Listed |-> bundle[a]]]
  /\ settled' = proof.clean
  /\ proof' = NoProof
  /\ UNCHANGED <<catalog, proofs, damage, accepted>>

-----------------------------------------------------------------------------
(* The environment                                                         *)

KillProof ==
  /\ proof.at # "idle" /\ damage < MaxDamage
  /\ damage' = damage + 1
  /\ proof' = NoProof
  /\ UNCHANGED <<catalog, bundle, proofs, accepted, settled>>

(* An upload, a copy or a disk loses a file or some of its bytes.           *)
Damage(a) ==
  /\ damage < MaxDamage /\ a \in Present
  /\ damage' = damage + 1
  /\ \/ Wrote(a, Absent) \/ Wrote(a, Damaged)
  /\ proof' = [proof EXCEPT !.clean = FALSE]
  /\ UNCHANGED <<catalog, proofs, accepted>>

CatalogChanges ==
  /\ catalog < LastCatalog
  /\ catalog' = catalog + 1
  /\ UNCHANGED <<bundle, proof, proofs, damage, accepted, settled>>

-----------------------------------------------------------------------------
(* verify_kubernetes_dry_run_artifacts                                     *)

Summary == bundle[<<"summary">>]
Checksums == bundle[<<"checksums">>]

ChecksumsMatch ==
  Checksums \notin {Absent, Damaged} /\ \A a \in DOMAIN Checksums : bundle[a] = Checksums[a]

(* The lists and flags of the summary agree with each other.                *)
SummaryConsistent ==
  /\ Summary.ids = [i \in DOMAIN Summary.reports |-> Summary.reports[i].target]
  /\ Summary.command.ids = Summary.ids
  /\ Summary.command.cluster = Summary.cluster
  /\ Summary.ok = AllFine(Summary.reports, Summary.cluster)

RequiredListed == FilesOf(ToSet(Summary.ids)) \subseteq Present \cap DOMAIN Checksums

RecordsMatch ==
  /\ bundle[<<"command">>] = Summary.command
  /\ bundle[<<"metadata">>] = Summary.metadata

ReportsMatch ==
  \A i \in DOMAIN Summary.ids : bundle[Report(Summary.ids[i])] = Summary.reports[i]

ManifestsMatch ==
  \A i \in DOMAIN Summary.ids :
    bundle[Manifest(Summary.ids[i])] = Summary.reports[i].manifest

Verified ==
  /\ Summary \notin {Absent, Damaged}
  /\ ChecksumsMatch
  /\ SummaryConsistent /\ RequiredListed
  /\ RecordsMatch /\ ReportsMatch /\ ManifestsMatch

-----------------------------------------------------------------------------
EvidenceInit ==
  /\ catalog = 1 /\ bundle = [a \in Artifact |-> Absent] /\ proof = NoProof
  /\ proofs = 0 /\ damage = 0 /\ accepted = {} /\ settled = FALSE

Answers == {"accepted", "unreachable", "refused"}

EvidenceNext ==
  \/ \E args \in Invocations : BeginProof(args)
  \/ RenderTarget \/ RenderFails \/ NoKubectl
  \/ \E answer \in Answers : Preflight(answer) \/ ServerDryRun(answer)
  \/ WriteTargetReport \/ WriteMetadata \/ WriteProofCommand \/ WriteSummary \/ WriteChecksums
  \/ KillProof \/ CatalogChanges
  \/ \E a \in Artifact : Damage(a)

EvidenceSpec == EvidenceInit /\ [][EvidenceNext]_evidenceVars
-----------------------------------------------------------------------------
(* In a bundle that verifies, a target that is called passed is one whose   *)
(* manifest, the very file in the bundle, a cluster has accepted: whatever   *)
(* runs were killed in this directory, whatever files they left.            *)
PassedWasProven ==
  Verified =>
    \A i \in DOMAIN Summary.ids :
      Summary.reports[i].status = "passed" =>
        <<Summary.ids[i], bundle[Manifest(Summary.ids[i])]>> \in accepted

(* What a run leaves when it completes does verify, also in a directory that *)
(* another run has used before; not if a render has failed, whose report    *)
(* names a manifest that was not written.                                   *)
CompletedVerifies ==
  settled /\ (\A i \in DOMAIN Summary.reports : Summary.reports[i].manifest # Absent)
    => Verified
=============================================================================
