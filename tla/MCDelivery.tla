---- MODULE MCDelivery ----
(***************************************************************************)
(* What surrounds a deployment: the lock it takes, the pipeline that leads   *)
(* to it on one host, its rehearsal, the render and the proof for Kubernetes. *)
(* They share no state here, so a behaviour runs one part and leaves the     *)
(* others.                                                                  *)
(***************************************************************************)
EXTENDS MCDeployLock, DryRunEvidence, KubernetesRender, InstallPipeline, InstallVerify,
        ComposeRender, TLC

CONSTANTS Parts, api, edge, sso, app, db

VARIABLE part

-----------------------------------------------------------------------------
(* A target that stops rendering, and one that never did with the new catalog. *)
MCTargetOrder == <<"k3s", "rke">>
MCRenderable == {<<"k3s", 1>>, <<"k3s", 2>>, <<"rke", 1>>}
MCInvocations ==
  {[asked |-> <<>>, cluster |-> TRUE, gpu |-> FALSE],
   [asked |-> <<"rke", "rke">>, cluster |-> FALSE, gpu |-> TRUE]}

(* Catalogs of one descriptor or two: every value an environment or an      *)
(* argument may have, and every Docker-only feature.                        *)
Plain == {Hole("A", "plain"), Hole("A", "empty"), Hole("A", "default")}
Secret == {Hole("PASS", form) : form \in {"plain", "guard", "default", "empty"}}
Values ==
  {<<Text>>} \cup {<<h>> : h \in Plain \cup Secret}
    \cup {<<Text, Hole("PASS", "plain")>>, <<Hole("A", "plain"), Hole("PASS", "guard")>>,
          <<Hole("A", "plain"), Hole("A", "empty")>>}
Few == {<<Text>>, <<Hole("A", "plain")>>, <<Hole("A", "empty")>>, <<Hole("PASS", "plain")>>,
        <<Hole("PASS", "empty")>>, <<Hole("PASS", "guard")>>}
Entry(n, v) == [name |-> n, value |-> v]
Envs ==
  {<<>>} \cup {<<Entry(n, v)>> : n \in {"A", "PASS"}, v \in Values}
    \cup {<<Entry("A", v), Entry("PASS", w)>> : v, w \in Few}
    \cup {<<Entry("PASS", w), Entry("A", v)>> : v, w \in Few}
Base == [name |-> "web", kind |-> "ordinary", env |-> <<>>, command |-> {}, volumes |-> {},
         devices |-> {}, groups |-> {}, security |-> {}]
Interpolated ==
  {[Base EXCEPT !.env = e, !.command = c] : e \in Envs, c \in {{}} \cup {{v} : v \in Values}}
DockerOnly ==
  {[Base EXCEPT !.kind = k, !.volumes = v, !.devices = d, !.groups = g, !.security = o] :
     k \in {"ordinary", "compose_only"}, v \in {{}, {"socket"}, {"absolute", "named"}},
     d \in SUBSET {"dri", "other"}, g \in {{}, {"video"}, {"video", "numeric"}, {"wheel"}},
     o \in {{}, {"seccomp"}, {"apparmor"}}}
Traefik ==
  {[Base EXCEPT !.name = "traefik", !.kind = "traefik", !.command = c, !.volumes = v] :
     c \in {{}, {DockerProvider}, {DockerProvider, <<Hole("A", "plain")>>}},
     v \in {{}, {"socket"}}}
Rerank ==
  {[Base EXCEPT !.name = "rerank", !.kind = "rerank", !.env = e, !.command = c] :
     e \in {<<>>} \cup {<<Entry("RERANK", <<Hole("RERANK", form)>>)>> : form \in {"empty", "default"}},
     c \in {{}, {<<Hole("RERANK", "plain")>>}}}
MCCatalogs == {{d} : d \in Interpolated \cup DockerOnly} \cup {{t, r} : t \in Traefik, r \in Rerank}
MCTargets ==
  {[status |-> s, codes |-> c, pairs |-> {<<"web", "docker-group-add">>,
                                          <<"rerank", "kubernetes-omitted">>}] :
     s \in {"research", "supported"}, c \in {{}, {"docker-socket", "docker-device"}}}

(* A service with and one without the database beside it.                   *)
MCSelections == {{api, proxy}, {api, database, proxy}}
MCProfilesOf == (api :> {"core"}) @@ (proxy :> {"edge"}) @@ (database :> {"data", "core"})

MCRequests == {<<"local", "rag">>}

(* The edge and authelia as they are; an application and what it rests on, in *)
(* every relation of selection, and then on every network and group.        *)
Web == [profiles |-> {"edge"}, depends |-> {}, consumes |-> {}, provides |-> {},
        networks |-> {"default", "mgmt"}, chain |-> "none", groups |-> {}]
Sso == [Web EXCEPT !.profiles = {"security"}, !.networks = {"default", "data"}, !.chain = "open"]
Inside == [Web EXCEPT !.profiles = {"core"}, !.networks = {}]
Commit(a, d) == (edge :> Web) @@ (sso :> Sso) @@ (app :> a) @@ (db :> d)
MCCommits ==
  {Commit([Inside EXCEPT !.profiles = p, !.depends = d, !.consumes = c, !.chain = h],
          [Inside EXCEPT !.profiles = q, !.provides = v, !.consumes = k]) :
     p \in {{"core"}, {"core", "rag"}}, d \in SUBSET {db},
     c \in {{}, {"vector"}, {"docker"}, {"llm"}}, h \in {"none", "gated"},
     q \in {{"core"}, {"rag"}, {"core", "rag"}}, v \in SUBSET {"vector"}, k \in SUBSET {"llm"}}
    \cup
  {Commit([Inside EXCEPT !.networks = n, !.chain = h, !.groups = g],
          [Inside EXCEPT !.networks = m]) :
     n \in {{}, {"default", "data"}}, h \in {"none", "open", "gated"},
     g \in {{}, {"render", "numeric"}, {"ops"}, {"typo"}}, m \in {{"data"}, {"data", "odd"}}}
MCKnownLinks == {<<app, "llm">>}

-----------------------------------------------------------------------------
DeliveryInit ==
  /\ part \in Parts
  /\ LockInit /\ EvidenceInit /\ RenderInit /\ PipelineInit
  /\ VerifyInit /\ ComposeInit
  /\ part # "compose" => descriptors = Commit(Inside, Inside)

Step(name, Next, vars) == IF part = name THEN Next ELSE UNCHANGED vars

DeliveryNext ==
  /\ UNCHANGED part
  /\ Step("lock", LockNext, lockVars)
  /\ Step("evidence", EvidenceNext, evidenceVars)
  /\ Step("render", RenderNext, renderVars)
  /\ Step("pipeline", PipelineNext, pipelineVars)
  /\ Step("verify", VerifyNext, verifyVars)
  /\ Step("compose", ComposeNext, composeVars)

deliveryVars == <<part, lockVars, evidenceVars, renderVars, pipelineVars, verifyVars,
                 composeVars>>
DeliverySpec == DeliveryInit /\ [][DeliveryNext]_deliveryVars
====
