---------------------------- MODULE ServiceSelection ----------------------------
(***************************************************************************)
(* What a selection of services means: the closure the setup flows expand  *)
(* it to, and the gates the renderer puts every selection through. Pure    *)
(* functions of the catalog (templates/services, templates/components).    *)
(***************************************************************************)
EXTENDS Naturals, FiniteSets, Sequences

CONSTANTS
  Service,        \* the catalog
  Rank,           \* service -> its place by name
  SortKey,        \* service -> its place among the unselected providers
  DependsOn,      \* service -> the services it depends on
  Provides,       \* service -> the capabilities it provides
  Consumes,       \* service -> the capabilities it consumes
  StackOf,        \* service -> the component stacks it is a part of
  StackNeeds,     \* stack -> the capabilities the component requires
  Optional,       \* OPTIONAL_MISSING_CAPABILITIES
  CrossProfile    \* KNOWN_CROSS_PROFILE_CONSUMES: <<consumer, capability>>

ASSUME ServiceAssumption ==
  /\ IsFiniteSet(Service)
  /\ Rank \in [Service -> Nat] /\ SortKey \in [Service -> Nat]
  /\ DependsOn \in [Service -> SUBSET Service]

Providers(c) == {s \in Service : c \in Provides[s]}
First(S, order) == CHOOSE s \in S : \A t \in S : order[s] <= order[t]

(* A provider that is selected already, the first by name; else the         *)
(* preferred one; none for a capability that no service provides.           *)
Chosen(S, c) ==
  IF Providers(c) = {} THEN {}
  ELSE IF Providers(c) \cap S # {} THEN {First(Providers(c) \cap S, Rank)}
  ELSE {First(Providers(c), SortKey)}

(* The catalog has a provider for what a service cannot do without.          *)
ASSUME NeedsAssumption ==
  \A s \in Service : \A c \in Consumes[s] \ Optional : Providers(c) # {}

Stacks(S) == UNION {StackOf[s] : s \in S}
Siblings(S) == S \cup {s \in Service : StackOf[s] \cap Stacks(S) # {}}
Dependencies(S) == S \cup UNION {DependsOn[s] : s \in S}
Needed(S) == (UNION {Consumes[s] : s \in S}) \ Optional
Required(S) == UNION {StackNeeds[k] : k \in Stacks(S)}
WithProviders(S, caps) == S \cup UNION {Chosen(S, c) : c \in caps}

\* Bug: only the stack and depends_on, as before the consumes were resolved.
PassIgnoresConsumes(S) == Dependencies(Siblings(S))

(* One turn of the loop. The code adds provider by provider; the order is   *)
(* visible only where one service provides two needed capabilities, which   *)
(* none in the catalog does.                                               *)
Pass(S) ==
  LET deps == Dependencies(Siblings(S))
      fed == WithProviders(deps, Needed(deps))
  IN WithProviders(fed, Required(S))

(* resolve_service_selection: until nothing changes.                        *)
Grown[S \in SUBSET Service] == LET more == Pass(S) IN IF more = S THEN S ELSE Grown[more]
Closure(S) == Grown[S]

-----------------------------------------------------------------------------
(* The renderer refuses a missing dependency, and a consumed capability     *)
(* with no provider unless the pair is a known one.                         *)
MissingDependencies(S) == {p \in S \X Service : p[2] \in DependsOn[p[1]] \ S}

Unresolved(S) ==
  {p \in UNION {{s} \X Consumes[s] : s \in S} :
     p[2] \notin Optional /\ p \notin CrossProfile /\ Providers(p[2]) \cap S = {}}

Renders(S) == S # {} /\ MissingDependencies(S) = {} /\ Unresolved(S) = {}

(* check_service_compatibility: the capabilities whose lack blocks Apply.   *)
MissingCapabilities(S) == {u[2] : u \in Unresolved(S)}
=============================================================================
