----------------------------- MODULE ComposeRender -----------------------------
(***************************************************************************)
(* The catalog of service descriptors rendered for Docker Compose: what the *)
(* checks of a commit say of it, what the topology report says of a          *)
(* selection, what the renderer refuses, and the networks and routes of the *)
(* stack that it makes, in the default compose project or in another.       *)
(***************************************************************************)
EXTENDS Naturals, FiniteSets

CONSTANTS
  Commits,       \* catalogs of a commit: functions from services to descriptors
  Lanes,          \* ALL_PROFILE_SETS: one profile each
  StrictLanes,    \* DEFAULT_TOPOLOGY_PROFILE_SETS
  Router, Gate,    \* traefik, authelia
  Optional,       \* OPTIONAL_MISSING_CAPABILITIES
  Pulled,         \* CLOSURE_PULLED_CAPABILITIES
  Known,          \* KNOWN_CROSS_PROFILE_CONSUMES
  Registered,     \* _EXTRA_NETWORK_ATTRS
  CiGroups, HostGroups,  \* groups that the host of the checks, and the operator's, know
  Projects, DefaultProject,
  NoStack

(* A lane is a profile alone. The edge, authelia and what the edge routes to *)
(* are on the default network, every template of the catalog as it is.       *)
OnDefault(networks) == IsFiniteSet(networks) /\ (networks = {} \/ "default" \in networks)
ASSUME CatalogAssumption ==
  /\ \A lane \in Lanes : \E p \in lane : lane = {p}
  /\ {"full"} \in Lanes
  /\ \A c \in Commits : \A s \in DOMAIN c :
       s \in {Router, Gate} \/ c[s].chain # "none" => OnDefault(c[s].networks)

VARIABLES
  descriptors,    \* the catalog of the last commit
  passed,         \* its checks: "not yet", "passed" or "failed"
  stack           \* what the render made, with its selection

composeVars == <<descriptors, passed, stack>>
Service == DOMAIN descriptors

-----------------------------------------------------------------------------
(* Selections                                                              *)

AvailableProfiles == UNION {descriptors[s].profiles : s \in Service} \cup {"full"}

\* Bug: the services that every profile asked for has.
SelectServicesOfAll(profiles) ==
  IF "full" \in profiles THEN Service
  ELSE {s \in Service : profiles \subseteq descriptors[s].profiles}

SelectServices(profiles) ==
  IF "full" \in profiles THEN Service
  ELSE {s \in Service : descriptors[s].profiles \cap profiles # {}}

MissingDependencies(S) ==
  UNION {{<<s, d>> : d \in descriptors[s].depends \ S} : s \in S}

ProvidersIn(S, cap) == {s \in S : cap \in descriptors[s].provides}

-----------------------------------------------------------------------------
(* The topology report                                                     *)

Redundant(S) ==
  {cap \in UNION {descriptors[s].provides : s \in S} : Cardinality(ProvidersIn(S, cap)) > 1}

(* check_service_compatibility goes by capability: an error where a consumer *)
(* is not a known one.                                                      *)
CompatErrors(S) ==
  {cap \in (UNION {descriptors[s].consumes : s \in S}) \ (Optional \cup Pulled) :
     /\ ProvidersIn(S, cap) = {}
     /\ \E s \in S : cap \in descriptors[s].consumes /\ <<s, cap>> \notin Known}

TopologyWarnings(S) ==
  {<<"dependency", m>> : m \in MissingDependencies(S)}
    \cup {<<"missing", cap>> : cap \in CompatErrors(S)}
    \cup {<<"redundant", cap>> : cap \in Redundant(S)}

(* A lane of one profile is excused what the other profiles would bring.     *)
LaneOk(profiles, isolated) ==
  /\ profiles \subseteq AvailableProfiles
  /\ SelectServices(profiles) # {}
  /\ \/ isolated /\ Cardinality(profiles) = 1
     \/ TopologyWarnings(SelectServices(profiles)) = {}

(* check_depends_on_within_profile: one profile in common is enough.         *)
Share(s, t) == descriptors[s].profiles \cap descriptors[t].profiles # {}
DependsViolations ==
  {p \in UNION {{<<s, d>> : d \in descriptors[s].depends} : s \in Service} :
     p[2] \notin Service \/ ~Share(p[1], p[2])}

(* check_consumes_within_profile                                            *)
ConsumesViolations ==
  {p \in UNION {{<<s, cap>> : cap \in descriptors[s].consumes} : s \in Service} :
     p \notin Known /\ ~\E t \in ProvidersIn(Service, p[2]) : Share(p[1], t)}

-----------------------------------------------------------------------------
(* The renderer                                                            *)

(* _check_unresolved_consumes goes by consumer.                             *)
UnresolvedConsumes(S) ==
  {p \in UNION {{<<s, cap>> : cap \in descriptors[s].consumes \ (Optional \cup Pulled)} : s \in S} :
     p \notin Known /\ ProvidersIn(S, p[2]) = {}}

(* check_authelia_required: chain-llm and chain-internal.                   *)
Ungated(S) == IF Gate \in S THEN {} ELSE {s \in S : descriptors[s].chain = "gated"}

(* _resolve_group_add: numbers, groups of the host, and the two of the GPU.  *)
UnknownGroups(S, groups) ==
  (UNION {descriptors[s].groups : s \in S}) \ ({"numeric", "video", "render"} \cup groups)

Refuses(S, labels, groups) ==
  \/ S = {}
  \/ MissingDependencies(S) # {}
  \/ UnresolvedConsumes(S) # {}
  \/ (labels /\ Ungated(S) # {})
  \/ (UNION {descriptors[s].networks : s \in S}) \ (Registered \cup {"default"}) # {}
  \/ UnknownGroups(S, groups) # {}

\* Bug: the label names the network of the default project.
PinnedDefaultProject(s, project) ==
  IF Cardinality(descriptors[s].networks) > 1 THEN {<<DefaultProject, "default">>} ELSE {}

(* traefik.docker.network of a service on several networks (AUTH-1).         *)
Pinned(s, project) ==
  IF Cardinality(descriptors[s].networks) > 1 THEN {<<project, "default">>} ELSE {}

(* descriptor_to_compose_service: only the networks it names, else default.  *)
NetworksOf(s, project) ==
  {<<project, n>> : n \in IF descriptors[s].networks = {} THEN {"default"}
                          ELSE descriptors[s].networks}

(* render_traefik_labels: a router for each service that has routing.        *)
RoutedOf(S, labels) == IF labels THEN {s \in S : descriptors[s].chain # "none"} ELSE {}

(* Networks and routes of a stack.                                          *)
RenderCompose(S, labels, project) ==
  [services |-> S,
   networks |-> [s \in S |-> NetworksOf(s, project)],
   routed |-> RoutedOf(S, labels),
   gated |-> {s \in RoutedOf(S, labels) : descriptors[s].chain = "gated"},
   pinned |-> [s \in S |-> Pinned(s, project)]]

-----------------------------------------------------------------------------
(* Operations                                                              *)

(* The checks of a commit: topology_check, compose_profile_check and the      *)
(* tests of the profile closure and of the lanes, which are all profiles.    *)
CheckCatalog ==
  /\ passed = "not yet"
  /\ passed' =
       IF /\ \A lane \in Lanes : LaneOk(lane, TRUE)
          /\ \A lane \in StrictLanes : LaneOk(lane, FALSE)
          /\ \A lane \in Lanes : ~Refuses(SelectServices(lane), FALSE, CiGroups)
          /\ DependsViolations = {} /\ ConsumesViolations = {}
          /\ AvailableProfiles = UNION Lanes
       THEN "passed" ELSE "failed"
  /\ UNCHANGED <<descriptors, stack>>

(* render_to_string: routing labels where the edge is selected, unless the   *)
(* operator says yes or no.                                                 *)
RenderToString(by, S, flag, project) ==
  LET labels == IF flag = "derived" THEN Router \in S ELSE flag = "yes"
  IN /\ passed # "not yet" /\ stack.by = "nothing"
     /\ stack' = [by |-> by, selected |-> S, labels |-> labels,
                  refused |-> Refuses(S, labels, HostGroups),
                  made |-> IF Refuses(S, labels, HostGroups) THEN NoStack
                           ELSE RenderCompose(S, labels, project)]
     /\ UNCHANGED <<descriptors, passed>>

(* `deploy --profile` and `render compose`, in the default project.          *)
RenderProfiles(profiles, flag) ==
  RenderToString("profiles", SelectServices(profiles), flag, DefaultProject)

(* `render scenario`: services that the selection has closed, of which the    *)
(* dependencies are modelled here, in a project of the scenario's name.      *)
RenderScenario(S, flag, project) ==
  /\ MissingDependencies(S) = {}
  /\ RenderToString("scenario", S, flag, project)

-----------------------------------------------------------------------------
ComposeInit ==
  /\ descriptors \in Commits
  /\ passed = "not yet"
  /\ stack = [by |-> "nothing", selected |-> {}, labels |-> FALSE, refused |-> FALSE,
              made |-> NoStack]

ComposeNext ==
  \/ CheckCatalog
  \/ \E profiles \in (SUBSET AvailableProfiles) \ {{}}, flag \in {"derived", "yes", "no"} :
       RenderProfiles(profiles, flag)
  \/ \E S \in (SUBSET Service) \ {{}}, flag \in {"derived", "yes", "no"}, project \in Projects :
       RenderScenario(S, flag, project)

ComposeSpec == ComposeInit /\ [][ComposeNext]_composeVars

-----------------------------------------------------------------------------
(* A commit whose checks passed renders for the operator, whatever profiles  *)
(* are combined, though the checks look at one profile at a time: a render   *)
(* is refused only where routes need authelia, or for a group that the       *)
(* operator's host does not have.                                           *)
CheckedRenders ==
  (passed = "passed" /\ stack.by = "profiles" /\ stack.refused) =>
    \/ (stack.labels /\ Ungated(stack.selected) # {})
    \/ UnknownGroups(stack.selected, HostGroups) # {}

(* The edge reaches each service it routes to, on whichever network Docker    *)
(* gives it when none is pinned, and reaches authelia before a gated one      *)
(* (AUTH-1 was an outage of every gated route), in the default project and   *)
(* in another.                                                              *)
RoutesReach ==
  (stack.by # "nothing" /\ ~stack.refused /\ Router \in stack.selected) =>
    LET networks == stack.made.networks
    IN \A s \in stack.made.routed :
         /\ \A n \in IF stack.made.pinned[s] = {} THEN networks[s] ELSE stack.made.pinned[s] :
              n \in networks[s] \cap networks[Router]
         /\ s \in stack.made.gated =>
              Gate \in stack.made.services /\ networks[Gate] \cap networks[Router] # {}
=============================================================================
