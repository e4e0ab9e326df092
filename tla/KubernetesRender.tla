--------------------------- MODULE KubernetesRender ---------------------------
(***************************************************************************)
(* Service descriptors rendered for Kubernetes: what Docker Compose fills in *)
(* when it starts a service (${...} in values and arguments) has to be       *)
(* resolved, turned into a reference to a Secret, or flagged by a warning;   *)
(* what Kubernetes has no counterpart for has to be flagged. The check of a  *)
(* deployment target decides on those warnings.                             *)
(***************************************************************************)
EXTENDS Naturals, FiniteSets, Sequences, SequencesExt

CONSTANTS
  Catalogs,       \* sets of descriptors a target may select
  Targets,        \* targets: status, warning codes and pairs they expect
  VarName,        \* names of variables
  SecretName,     \* those that hold a marker such as PASSWORD or TOKEN
  Rounds          \* substitutions tried in one value (10)

(* What a descriptor has is text and holes; only the renderer makes references. *)
ASSUME RenderAssumption ==
  /\ Rounds \in Nat /\ Rounds > 1
  /\ \A ds \in Catalogs : \A d \in ds : \A arg \in d.command :
       \A i \in DOMAIN arg : arg[i].is # "ref"

VARIABLES rendered, verdict

renderVars == <<rendered, verdict>>

-----------------------------------------------------------------------------
(* Values: sequences of text, ${NAME} holes and $(NAME) references           *)

Text == [is |-> "text", name |-> "", form |-> ""]
(* form: "plain" ${N}, "guard" ${N:?e}, "default" ${N:-d}, "empty" ${N:-}     *)
Hole(n, form) == [is |-> "hole", name |-> n, form |-> form]
Reference(n) == [is |-> "ref", name |-> n, form |-> ""]
Holes(value) == {i \in DOMAIN value : value[i].is = "hole"}
Secrets(value) == {i \in Holes(value) : value[i].name \in SecretName}

(* What a piece contributes: "text", nothing at all, or it is unresolved. A   *)
(* variable that is known and empty counts as unknown.                      *)
Contribution(piece, known, allowEmpty) ==
  CASE piece.is # "hole" -> "text"
    [] piece.form = "guard" -> "unresolved"
    [] piece.form # "guard" /\ known[piece.name] = "text" -> "text"
    [] piece.form = "default" /\ known[piece.name] # "text" -> "text"
    [] piece.form = "empty" /\ known[piece.name] # "text" ->
         IF allowEmpty THEN "empty" ELSE "unresolved"
    [] OTHER -> "unresolved"

Resolve(value, known, allowEmpty) ==
  LET parts == {Contribution(value[i], known, allowEmpty) : i \in DOMAIN value}
  IN IF Cardinality(Holes(value)) >= Rounds \/ "unresolved" \in parts THEN "unresolved"
     ELSE IF "text" \in parts THEN "text" ELSE "empty"
Resolved(value, known) == Resolve(value, known, FALSE) # "unresolved"

NothingKnown == [n \in VarName |-> "unset"]

(* _resolved_env_for_descriptor: in the order of the descriptor, each value   *)
(* sees the ones before it.                                                 *)
KnownEnv(d) ==
  FoldLeft(LAMBDA known, e :
             LET result == Resolve(e.value, known, TRUE)
             IN IF result = "unresolved" THEN known ELSE [known EXCEPT ![e.name] = result],
           NothingKnown, d.env)

-----------------------------------------------------------------------------
(* The container                                                           *)

(* _env_entry_for_descriptor: a value; a key of the service's Secret, that of *)
(* the variable when the value is nothing else; or the raw text.             *)
EnvEntry(e, known) ==
  IF known[e.name] # "unset" THEN [name |-> e.name, from |-> "value", key |-> ""]
  ELSE IF Secrets(e.value) # {}
  THEN [name |-> e.name, from |-> "secret",
        key |-> IF Len(e.value) = 1 THEN e.value[1].name ELSE e.name]
  ELSE [name |-> e.name, from |-> "raw", key |-> ""]

(* _command_arg_for_kubernetes                                              *)
ArgForKubernetes(value, known) ==
  IF Resolved(value, known) THEN <<Text>>
  ELSE [i \in DOMAIN value |-> IF i \in Secrets(value) THEN Reference(value[i].name) ELSE value[i]]

DockerProvider == <<[is |-> "text", name |-> "docker", form |-> ""]>>
IngressProvider == <<[is |-> "text", name |-> "ingress", form |-> ""]>>

(* Only traefik swaps its provider, once, and gains one if it had the socket. *)
Swapped(d) ==
  IF d.kind = "traefik" /\ (DockerProvider \in d.command \/ "socket" \in d.volumes)
  THEN {IngressProvider} \cup (d.command \ {DockerProvider}) ELSE d.command

CommandFor(d) == {ArgForKubernetes(arg, KnownEnv(d)) : arg \in Swapped(d)}

UnresolvedArgs(d) == {arg \in d.command : ~Resolved(arg, KnownEnv(d))}

\* Bug: only arguments that are a secret and nothing else get an entry.
CommandSecretsWhole(d) ==
  {arg[1].name : arg \in {a \in UnresolvedArgs(d) : Secrets(a) = DOMAIN a}}

(* _command_secret_env_names: what the arguments refer to with $(NAME).       *)
CommandSecrets(d) ==
  UNION {{arg[k].name : k \in Secrets(arg)} : arg \in UnresolvedArgs(d)}

ContainerEnv(d) ==
  LET known == KnownEnv(d)
      own == {EnvEntry(d.env[i], known) : i \in DOMAIN d.env}
  IN own \cup {[name |-> n, from |-> "secret", key |-> n] :
                 n \in CommandSecrets(d) \ {e.name : e \in own}}

(* A volume that is no absolute path is not rendered; the socket not for      *)
(* traefik.                                                                 *)
Mounts(d) == {v \in d.volumes : v # "named" /\ (v = "socket" => d.kind # "traefik")}

Deployment(d) ==
  [service |-> d.name, env |-> ContainerEnv(d), args |-> CommandFor(d), mounts |-> Mounts(d),
   gpu |-> "dri" \in d.devices, groups |-> d.groups \cap {"numeric"},
   seccomp |-> "seccomp" \in d.security]

-----------------------------------------------------------------------------
(* What is left out, and what is flagged                                   *)

(* The rerank service without a model: its default is empty, its command      *)
(* names it.                                                                *)
Unconfigured(d) ==
  /\ d.kind = "rerank"
  /\ \E i \in DOMAIN d.env :
       d.env[i].name = "RERANK" /\ Resolve(d.env[i].value, NothingKnown, TRUE) = "empty"
  /\ \E arg \in d.command : \E i \in DOMAIN arg : arg[i] = Hole("RERANK", "plain")

Omitted(d) == d.kind = "compose_only" \/ Unconfigured(d)

Warn(d, code, severity) == [service |-> d.name, code |-> code, severity |-> severity]
When(condition, warning) == IF condition THEN {warning} ELSE {}

UnmappedGroups(d) ==
  d.groups \ ({"numeric"} \cup IF "dri" \in d.devices THEN {"video"} ELSE {})

(* Of the arguments as they will be rendered.                               *)
FlaggedArgs(d) ==
  {arg \in CommandFor(d) : Holes(arg) # {} /\ ~Resolved(arg, KnownEnv(d))}

FlaggedEnv(d) ==
  LET known == KnownEnv(d) IN {i \in DOMAIN d.env : EnvEntry(d.env[i], known).from = "raw"}

Warnings(d) ==
  IF Omitted(d) THEN {Warn(d, "kubernetes-omitted", "warning")}
  ELSE When("dri" \in d.devices, Warn(d, "amd-gpu-device-plugin", "warning"))
    \cup When(d.devices \ {"dri"} # {}, Warn(d, "docker-device", "blocker"))
    \cup When(UnmappedGroups(d) # {}, Warn(d, "docker-group-add", "warning"))
    \cup When(d.security \ {"seccomp"} # {}, Warn(d, "docker-security-opt", "warning"))
    \cup When(FlaggedEnv(d) # {}, Warn(d, "env-interpolation", "warning"))
    \cup When(FlaggedArgs(d) # {}, Warn(d, "command-interpolation", "warning"))
    \cup When("socket" \in Mounts(d), Warn(d, "docker-socket", "blocker"))

RenderKubernetes(ds) ==
  [deployments |-> {Deployment(d) : d \in {x \in ds : ~Omitted(x)}},
   warnings |-> UNION {Warnings(d) : d \in ds}]

-----------------------------------------------------------------------------
(* The check of a target                                                   *)

(* _warning_is_expected: by its code, or by service and code.               *)
Expected(w, target) == w.code \in target.codes \/ <<w.service, w.code>> \in target.pairs

(* _validate_one_target                                                     *)
CheckTarget(result, target, strict) ==
  LET unexpected == {w \in result.warnings : ~Expected(w, target)}
  IN /\ result.deployments # {}
     /\ target.status # "research" => \A w \in result.warnings : w.severity # "blocker"
     /\ strict => unexpected = {}

-----------------------------------------------------------------------------
NotRendered == [descriptors |-> {}, result |-> [deployments |-> {}, warnings |-> {}],
                strict |-> FALSE]
NoVerdict == [target |-> [status |-> "none", codes |-> {}, pairs |-> {}], ok |-> FALSE,
              strict |-> FALSE]

RenderInit == rendered = NotRendered /\ verdict = NoVerdict

(* render_kubernetes; strict raises on any warning, and nothing is rendered.  *)
Render(ds, strict) ==
  LET result == RenderKubernetes(ds)
  IN /\ rendered = NotRendered
     /\ strict => result.warnings = {}
     /\ rendered' = [descriptors |-> ds, result |-> result, strict |-> strict]
     /\ UNCHANGED verdict

(* validate_kubernetes_render_targets, of one target that selects them.       *)
Check(target, strict) ==
  /\ rendered # NotRendered /\ verdict = NoVerdict
  /\ verdict' = [target |-> target, strict |-> strict,
                 ok |-> CheckTarget(rendered.result, target, strict)]
  /\ UNCHANGED rendered

RenderNext ==
  \/ \E ds \in Catalogs, strict \in BOOLEAN : Render(ds, strict)
  \/ \E target \in Targets, strict \in BOOLEAN : Check(target, strict)

RenderSpec == RenderInit /\ [][RenderNext]_renderVars
-----------------------------------------------------------------------------
HasWarning(service, code) ==
  \E w \in rendered.result.warnings : w.service = service /\ w.code = code

(* An argument that mixes a secret with a hole that would have resolved.     *)
Mixed(d) ==
  \E arg \in d.command :
    /\ Secrets(arg) # {}
    /\ \E j \in Holes(arg) \ Secrets(arg) : Resolved(<<arg[j]>>, KnownEnv(d))

(* No placeholder gets lost: a $(NAME) in an argument has its entry in the    *)
(* container's environment, a ${NAME} that Kubernetes will pass on as text    *)
(* is flagged for its service, and a strict render has none at all. Not so    *)
(* for an argument that mixes a secret with a hole that would have resolved: *)
(* the hole stays, and the warning is judged on the resolved form.          *)
PlaceholdersAccounted ==
  \A p \in rendered.result.deployments :
    /\ \A arg \in p.args : \A k \in DOMAIN arg :
         arg[k].is = "ref" => \E e \in p.env : e.name = arg[k].name
    /\ (\E arg \in p.args : Holes(arg) # {}) =>
         \/ HasWarning(p.service, "command-interpolation") /\ ~rendered.strict
         \/ \E d \in rendered.descriptors : d.name = p.service /\ Mixed(d)
    /\ (\E e \in p.env : e.from = "raw") =>
         HasWarning(p.service, "env-interpolation") /\ ~rendered.strict
=============================================================================
