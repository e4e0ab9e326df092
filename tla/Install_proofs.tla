---------------------------- MODULE Install_proofs ----------------------------
(***************************************************************************)
(* The two halves of an install. For any catalog, model roles and screens:   *)
(* what the wizard or a headless run hands over is served, the provider      *)
(* picked last stands, and a run that changes nothing keeps the services of  *)
(* the last. For any workers, steps and number of retries: one worker at a   *)
(* time, and no secret left behind.                                         *)
(***************************************************************************)
EXTENDS SetupWizard, InstallRun, FiniteSetTheorems, SequenceTheorems, WellFoundedInduction, TLAPS

(* A set of numbers has a least one.                                        *)
LEMMA LeastExists ==
  ASSUME NEW N \in SUBSET Nat, N # {}
  PROVE  \E m \in N : \A n \in N : m <= n
<1>1. PICK m \in N : \A n \in N : ~(<<n, m>> \in OpToRel(<, Nat))
  BY NatLessThanWellFounded, WFMin, Zenon
<1>2. ASSUME NEW n \in N, ~(m <= n) PROVE FALSE
  <2>1. m \in Nat /\ n \in Nat /\ n < m
    BY <1>2
  <2>2. <<n, m>> \in OpToRel(<, Nat)
    BY <2>1 DEF OpToRel
  <2> QED BY <1>1, <2>2
<1> QED BY <1>2

(* Of a family of selections, one has no larger one in the family: what makes *)
(* an argument by the largest counterexample possible.                      *)
LEMMA LargestExists ==
  ASSUME NEW B \in SUBSET (SUBSET Service), B # {}
  PROVE  \E S \in B : \A T \in B : S \subseteq T => S = T
<1> DEFINE C == {Service \ S : S \in B}
<1>1. IsWellFoundedOn(StrictSubsetOrdering(Service), SUBSET Service)
  BY ServiceAssumption, FS_FiniteSubsetsOfFinite, FS_StrictSubsetOrderingWellFounded, Zenon
<1>2. C \subseteq SUBSET Service /\ C # {}
  <2>1. PICK S \in B : TRUE
    OBVIOUS
  <2>2. Service \ S \in C
    OBVIOUS
  <2>3. \A x \in C : x \in SUBSET Service
    OBVIOUS
  <2> QED BY <2>2, <2>3
<1> HIDE DEF C
<1>3. PICK x \in C : \A y \in C : ~(<<y, x>> \in StrictSubsetOrdering(Service))
  BY <1>1, <1>2, WFMin, Zenon
<1> USE DEF C
<1>4. PICK S \in B : x = Service \ S
  BY <1>2 DEF C
<1>5. ASSUME NEW T \in B, S \subseteq T PROVE S = T
  <2>1. <<Service \ T, Service \ S>> \notin StrictSubsetOrdering(Service)
    BY <1>3, <1>4
  <2>2. Service \ T \subseteq Service \ S
    BY <1>5
  <2>3. Service \ T = Service \ S
    BY <2>1, <2>2 DEF StrictSubsetOrdering
  <2> QED BY <2>3
<1> QED BY <1>5

(* The first by an order.                                                   *)
LEMMA FirstIsOne ==
  ASSUME NEW S \in SUBSET Service, S # {}, NEW order \in [Service -> Nat]
  PROVE  First(S, order) \in S
<1>1. PICK m \in {order[s] : s \in S} : \A n \in {order[s] : s \in S} : m <= n
  <2>1. {order[s] : s \in S} \in SUBSET Nat /\ {order[s] : s \in S} # {}
    OBVIOUS
  <2> QED BY <2>1, LeastExists, Zenon
<1>2. \E s \in S : \A t \in S : order[s] <= order[t]
  BY <1>1
<1> QED BY <1>2 DEF First

(* A chosen provider is one, and a selected one if there is any.            *)
LEMMA ChosenProvides ==
  ASSUME NEW S \in SUBSET Service, NEW c
  PROVE  /\ Chosen(S, c) \subseteq Providers(c)
         /\ Providers(c) \cap S # {} => Chosen(S, c) \subseteq S
         /\ Providers(c) # {} => Chosen(S, c) # {}
<1>1. Providers(c) \in SUBSET Service
  BY DEF Providers
<1>2. Providers(c) \cap S # {} => First(Providers(c) \cap S, Rank) \in Providers(c) \cap S
  BY <1>1, FirstIsOne, ServiceAssumption
<1>3. Providers(c) # {} => First(Providers(c), SortKey) \in Providers(c)
  BY <1>1, FirstIsOne, ServiceAssumption
<1> QED BY <1>2, <1>3 DEF Chosen

(* Providers are services of the catalog, and nothing is taken out for them. *)
LEMMA WithProvidersGrows ==
  ASSUME NEW S \in SUBSET Service, NEW caps
  PROVE  S \subseteq WithProviders(S, caps) /\ WithProviders(S, caps) \in SUBSET Service
<1>1. \A c : Chosen(S, c) \subseteq Service
  BY ChosenProvides DEF Providers
<1> QED BY <1>1 DEF WithProviders

(* A turn of the loop only adds services of the catalog.                    *)
LEMMA PassGrows ==
  ASSUME NEW S \in SUBSET Service
  PROVE  S \subseteq Pass(S) /\ Pass(S) \in SUBSET Service
<1> DEFINE deps == Dependencies(Siblings(S))
<1>1. S \subseteq deps /\ deps \in SUBSET Service
  BY ServiceAssumption DEF Dependencies, Siblings
<1> DEFINE fed == WithProviders(deps, Needed(deps))
<1> HIDE DEF deps
<1>2. deps \subseteq fed /\ fed \in SUBSET Service
  BY <1>1, WithProvidersGrows
<1> HIDE DEF fed
<1>3. /\ fed \subseteq WithProviders(fed, Required(S))
      /\ WithProviders(fed, Required(S)) \in SUBSET Service
  BY <1>2, WithProvidersGrows
<1>4. Pass(S) = WithProviders(fed, Required(S))
  BY DEF Pass, fed, deps
<1> QED BY <1>1, <1>2, <1>3, <1>4

-----------------------------------------------------------------------------
(* Where the turns of the loop lead: run[n] is reached after n of them, each   *)
(* but the last a change.                                                  *)
Leads(S, T) ==
  \E n \in Nat : \E run \in [0 .. n -> SUBSET Service] :
    /\ run[0] = S /\ run[n] = T /\ Pass(T) = T
    /\ \A i \in 0 .. n - 1 : run[i + 1] = Pass(run[i]) /\ run[i + 1] # run[i]

(* A selection that is complete leads to itself, another where its next turn *)
(* leads.                                                                    *)
LEMMA LeadsHere ==
  ASSUME NEW S \in SUBSET Service, Pass(S) = S, NEW T \in SUBSET Service
  PROVE  Leads(S, T) <=> T = S
<1>1. ASSUME Leads(S, T) PROVE T = S
  <2>0. PICK n \in Nat : \E run \in [0 .. n -> SUBSET Service] :
          /\ run[0] = S /\ run[n] = T
          /\ \A i \in 0 .. n - 1 : run[i + 1] = Pass(run[i]) /\ run[i + 1] # run[i]
    BY <1>1 DEF Leads
  <2>1. PICK run \in [0 .. n -> SUBSET Service] :
          /\ run[0] = S /\ run[n] = T
          /\ \A i \in 0 .. n - 1 : run[i + 1] = Pass(run[i]) /\ run[i + 1] # run[i]
    BY <2>0
  <2>2. n = 0
    <3>1. SUFFICES ASSUME 0 \in 0 .. n - 1 PROVE FALSE
      OBVIOUS
    <3> QED BY <2>1, <3>1
  <2> QED BY <2>1, <2>2
<1>2. Leads(S, S)
  <2>1. [i \in 0 .. 0 |-> S] \in [0 .. 0 -> SUBSET Service]
    OBVIOUS
  <2>2. \A i \in 0 .. 0 - 1 : FALSE
    OBVIOUS
  <2> DEFINE run == [i \in 0 .. 0 |-> S]
  <2>3. run[0] = S
    OBVIOUS
  <2> QED BY <2>1, <2>2, <2>3 DEF Leads
<1> QED BY <1>1, <1>2

LEMMA LeadsOn ==
  ASSUME NEW S \in SUBSET Service, Pass(S) # S, NEW T \in SUBSET Service
  PROVE  Leads(S, T) <=> Leads(Pass(S), T)
<1>1. ASSUME Leads(S, T) PROVE Leads(Pass(S), T)
  <2>0. PICK n \in Nat : \E run \in [0 .. n -> SUBSET Service] :
          /\ run[0] = S /\ run[n] = T /\ Pass(T) = T
          /\ \A i \in 0 .. n - 1 : run[i + 1] = Pass(run[i]) /\ run[i + 1] # run[i]
    BY <1>1 DEF Leads
  <2>1. PICK run \in [0 .. n -> SUBSET Service] :
          /\ run[0] = S /\ run[n] = T /\ Pass(T) = T
          /\ \A i \in 0 .. n - 1 : run[i + 1] = Pass(run[i]) /\ run[i + 1] # run[i]
    BY <2>0
  <2>2. n # 0 /\ n - 1 \in Nat
    BY <2>1
  <2> DEFINE rest == [i \in 0 .. n - 1 |-> run[i + 1]]
  <2>3. rest \in [0 .. n - 1 -> SUBSET Service]
    BY <2>2
  <2>4. rest[0] = Pass(S) /\ rest[n - 1] = T
    BY <2>1, <2>2
  <2>5. \A i \in 0 .. (n - 1) - 1 : rest[i + 1] = Pass(rest[i]) /\ rest[i + 1] # rest[i]
    BY <2>1, <2>2
  <2> HIDE DEF rest
  <2> QED BY <2>1, <2>2, <2>3, <2>4, <2>5 DEF Leads
<1>2. ASSUME Leads(Pass(S), T) PROVE Leads(S, T)
  <2>0. PICK n \in Nat : \E run \in [0 .. n -> SUBSET Service] :
          /\ run[0] = Pass(S) /\ run[n] = T /\ Pass(T) = T
          /\ \A i \in 0 .. n - 1 : run[i + 1] = Pass(run[i]) /\ run[i + 1] # run[i]
    BY <1>2 DEF Leads
  <2>1. PICK run \in [0 .. n -> SUBSET Service] :
          /\ run[0] = Pass(S) /\ run[n] = T /\ Pass(T) = T
          /\ \A i \in 0 .. n - 1 : run[i + 1] = Pass(run[i]) /\ run[i + 1] # run[i]
    BY <2>0
  <2> DEFINE whole == [i \in 0 .. n + 1 |-> IF i = 0 THEN S ELSE run[i - 1]]
  <2>2. whole \in [0 .. n + 1 -> SUBSET Service]
    OBVIOUS
  <2>3. whole[0] = S /\ whole[n + 1] = T
    BY <2>1
  <2>4. \A i \in 0 .. (n + 1) - 1 : whole[i + 1] = Pass(whole[i]) /\ whole[i + 1] # whole[i]
    <3> SUFFICES ASSUME NEW i \in 0 .. n
                 PROVE  whole[i + 1] = Pass(whole[i]) /\ whole[i + 1] # whole[i]
      OBVIOUS
    <3>1. CASE i = 0
      BY <2>1, <3>1
    <3>2. CASE i # 0
      <4>1. i - 1 \in 0 .. n - 1 /\ whole[i + 1] = run[(i - 1) + 1] /\ whole[i] = run[i - 1]
        BY <3>2
      <4> QED BY <2>1, <4>1
    <3> QED BY <3>1, <3>2
  <2> HIDE DEF whole
  <2>5. n + 1 \in Nat
    OBVIOUS
  <2> QED BY <2>1, <2>2, <2>3, <2>4, <2>5 DEF Leads
<1> QED BY <1>1, <1>2

(* The loop computes a function: what the definition of Grown says of it is   *)
(* true of some function, and so of Grown.                                  *)
LEMMA GrownUnfolds ==
  ASSUME NEW S \in SUBSET Service
  PROVE  Grown[S] = IF Pass(S) = S THEN S ELSE Grown[Pass(S)]
<1> DEFINE Ends(T) == {U \in SUBSET Service : Leads(T, U)}
           g == [T \in SUBSET Service |-> CHOOSE U \in Ends(T) : TRUE]
           Body(f, T) == LET more == Pass(T) IN IF more = T THEN T ELSE f[more]
<1>1. ASSUME NEW T \in SUBSET Service PROVE g[T] = Body(g, T)
  <2>1. CASE Pass(T) = T
    <3>1. Ends(T) = {T}
      BY <2>1, LeadsHere
    <3> QED BY <2>1, <3>1
  <2>2. CASE Pass(T) # T
    <3>1. Ends(T) = Ends(Pass(T))
      BY <2>2, LeadsOn
    <3>2. Pass(T) \in SUBSET Service
      BY PassGrows
    <3> HIDE DEF Ends
    <3> QED BY <2>2, <3>1, <3>2
  <2> QED BY <2>1, <2>2
<1> HIDE DEF g
<1>2. g = [T \in SUBSET Service |-> Body(g, T)]
  <2>1. g = [T \in SUBSET Service |-> g[T]]
    BY DEF g
  <2> QED BY <1>1, <2>1
<1>3. Grown = CHOOSE f : f = [T \in SUBSET Service |-> Body(f, T)]
  BY DEF Grown
<1>4. Grown = [T \in SUBSET Service |-> Body(Grown, T)]
  BY <1>2, <1>3
<1> QED BY <1>4

(* The closure of a selection contains it, is a selection, and the loop would  *)
(* add nothing to it.                                                       *)
LEMMA ClosureIsClosed ==
  ASSUME NEW S \in SUBSET Service
  PROVE  S \subseteq Closure(S) /\ Closure(S) \in SUBSET Service /\ Pass(Closure(S)) = Closure(S)
<1> DEFINE Good(T) ==
             /\ T \subseteq Grown[T] /\ Grown[T] \in SUBSET Service
             /\ Pass(Grown[T]) = Grown[T]
           bad == {T \in SUBSET Service : ~Good(T)}
<1>1. SUFFICES ASSUME bad # {} PROVE FALSE
  BY DEF Closure
<1>2. PICK T \in bad : \A U \in bad : T \subseteq U => T = U
  <2>1. bad \in SUBSET (SUBSET Service)
    OBVIOUS
  <2> HIDE DEF bad
  <2> QED BY <1>1, <2>1, LargestExists, Zenon
<1>3. T \subseteq Pass(T) /\ Pass(T) \in SUBSET Service
  BY PassGrows
<1>4. Grown[T] = IF Pass(T) = T THEN T ELSE Grown[Pass(T)]
  BY GrownUnfolds
<1>5. Pass(T) # T
  BY <1>4
<1>6. Good(Pass(T))
  BY <1>2, <1>3, <1>5
<1> QED BY <1>3, <1>4, <1>5, <1>6

(* What holds of a selection and stays true when the loop turns holds of its   *)
(* closure.                                                                *)
LEMMA ClosureKeeps ==
  ASSUME NEW Kept \in SUBSET (SUBSET Service), \A S \in Kept : Pass(S) \in Kept, NEW S \in Kept
  PROVE  Closure(S) \in Kept
<1> DEFINE bad == {T \in Kept : Grown[T] \notin Kept}
<1>1. SUFFICES ASSUME bad # {} PROVE FALSE
  BY DEF Closure
<1>2. PICK T \in bad : \A U \in bad : T \subseteq U => T = U
  <2>1. bad \in SUBSET (SUBSET Service)
    OBVIOUS
  <2> HIDE DEF bad
  <2> QED BY <1>1, <2>1, LargestExists, Zenon
<1>3. T \subseteq Pass(T) /\ Pass(T) \in SUBSET Service
  BY PassGrows
<1>4. Grown[T] = IF Pass(T) = T THEN T ELSE Grown[Pass(T)]
  BY GrownUnfolds
<1> QED BY <1>2, <1>3, <1>4

-----------------------------------------------------------------------------
(* What the renderer asks of a selection and what the closure gives it.       *)
LEMMA ClosedIsServed ==
  ASSUME NEW S \in SUBSET Service, Pass(S) = S
  PROVE  /\ Siblings(S) = S
         /\ \A s \in S : DependsOn[s] \subseteq S
         /\ \A s \in S : \A c \in Consumes[s] \ Optional : Providers(c) \cap S # {}
<1> DEFINE deps == Dependencies(Siblings(S))
           fed == WithProviders(deps, Needed(deps))
<1>1. /\ S \subseteq Siblings(S) /\ Siblings(S) \subseteq deps
      /\ Siblings(S) \in SUBSET Service /\ deps \in SUBSET Service
  BY ServiceAssumption DEF Dependencies, Siblings
<1> HIDE DEF deps
<1>2. deps \subseteq fed /\ fed \in SUBSET Service
  BY <1>1, WithProvidersGrows
<1> HIDE DEF fed
<1>3. fed \subseteq WithProviders(fed, Required(S))
  BY <1>2, WithProvidersGrows
<1>4. Pass(S) = WithProviders(fed, Required(S))
  BY DEF Pass, fed, deps
<1>5. Siblings(S) = S /\ deps = S /\ fed = S
  BY <1>1, <1>2, <1>3, <1>4
<1>6. Dependencies(S) = S
  BY <1>5 DEF deps
<1>7. \A s \in S : DependsOn[s] \subseteq S
  BY <1>6 DEF Dependencies
<1>8. WithProviders(S, Needed(S)) = S
  BY <1>5 DEF fed
<1>9. ASSUME NEW s \in S, NEW c \in Consumes[s] \ Optional PROVE Providers(c) \cap S # {}
  <2>1. c \in Needed(S) /\ Providers(c) # {}
    BY NeedsAssumption DEF Needed
  <2>2. Chosen(S, c) \subseteq S
    BY <1>8, <2>1 DEF WithProviders
  <2> QED BY <2>1, <2>2, ChosenProvides
<1> QED BY <1>5, <1>7, <1>9

(* A closed selection without the servers of some roles.                     *)
LEMMA WithoutServers ==
  ASSUME NEW C \in SUBSET Service, Pass(C) = C,
         NEW R \in SUBSET Role, NEW S \in SUBSET C, S # {}, C \ {ServiceOf[r] : r \in R} \subseteq S
  PROVE  /\ Renders(S)
         /\ \A s \in S : \A c \in Consumes[s] \ Optional :
              Providers(c) \cap (S \cup {ServiceOf[r] : r \in R}) # {}
<1>1. MissingDependencies(S) = {}
  <2> SUFFICES ASSUME NEW s \in S, NEW d \in DependsOn[s], d \notin S PROVE FALSE
    BY DEF MissingDependencies
  <2>1. d \in C
    BY ClosedIsServed
  <2>2. \A r \in Role : d # ServiceOf[r]
    BY ServersAssumption
  <2> QED BY <2>1, <2>2
<1>2. ASSUME NEW s \in S, NEW c \in Consumes[s] \ Optional
      PROVE  \E p \in Providers(c) : p \in S \/ \E r \in R : p = ServiceOf[r]
  <2>1. PICK p \in Providers(c) : p \in C
    BY ClosedIsServed
  <2> QED BY <2>1
<1>3. Unresolved(S) = {}
  <2> SUFFICES ASSUME NEW s \in S, NEW c \in Consumes[s] \ Optional, <<s, c>> \notin CrossProfile,
                      Providers(c) \cap S = {}
               PROVE  FALSE
    BY DEF Unresolved
  <2>1. PICK r \in R : ServiceOf[r] \in Providers(c)
    BY <1>2
  <2>2. c \in Consumes[s] \cap Provides[ServiceOf[r]]
    BY <2>1 DEF Providers
  <2> QED BY <2>2, ServersAssumption
<1> QED BY <1>1, <1>2, <1>3 DEF Renders

-----------------------------------------------------------------------------
(* Types                                                                   *)

ModelValue == [id : {"skip", "catalog", "custom"}, file : {None, "catalog", "typed"}]

StateValue ==
  [domain : BOOLEAN, secrets : {"missing", "ok"}, services : SUBSET Service,
   models : [Role -> ModelValue]]

WizardTypeOK ==
  /\ dept \in DOMAIN Departments
  /\ state \in StateValue /\ saved \in StateValue
  /\ boxes \in [DOMAIN Departments -> SUBSET Service]
  /\ DOMAIN queue = DOMAIN Departments

(* There is a service screen, and each shows services of the catalog.        *)
LEMMA DepartmentServices ==
  /\ FinalDept \in Nat \ {0} /\ DOMAIN Departments = 1 .. FinalDept
  /\ \A d \in DOMAIN Departments : Visible(d) \in SUBSET Service
<1>1. /\ FinalDept \in Nat /\ DOMAIN Departments = 1 .. FinalDept
      /\ \A d \in DOMAIN Departments : Departments[d] \in Seq(Service)
  BY SelectionAssumption DEF FinalDept
<1>2. FinalDept # 0
  BY SelectionAssumption DEF FinalDept
<1>3. ASSUME NEW d \in DOMAIN Departments PROVE Visible(d) \in SUBSET Service
  <2>1. \A i \in DOMAIN Departments[d] : Departments[d][i] \in Service
    BY <1>1
  <2> QED BY <2>1 DEF Visible
<1> QED BY <1>1, <1>2, <1>3

(* A model file resolves to one of three values.                             *)
LEMMA ModelKeepsType ==
  ASSUME NEW m \in ModelValue PROVE ResolvedFile(m) \in {None, "catalog", "typed"}
BY DEF ModelValue, ResolvedFile, None

(* What the steps of the normalisation do, field by field.                   *)
LEMMA WithFilesDoes ==
  ASSUME NEW st \in StateValue
  PROVE  /\ WithFiles(st) \in StateValue /\ WithFiles(st).services = st.services
         /\ WithFiles(st).domain = st.domain
         /\ \A r \in Role : /\ WithFiles(st).models[r].id = st.models[r].id
                            /\ WithFiles(st).models[r].file = ResolvedFile(st.models[r])
<1>1. \A r \in Role : [st.models[r] EXCEPT !.file = ResolvedFile(st.models[r])] \in ModelValue
  BY ModelKeepsType DEF StateValue, ModelValue
<1>2. Resolved(st.models) \in [Role -> ModelValue]
  BY <1>1 DEF Resolved
<1>3. \A r \in Role : /\ Resolved(st.models)[r].id = st.models[r].id
                      /\ Resolved(st.models)[r].file = ResolvedFile(st.models[r])
  BY DEF Resolved, StateValue, ModelValue
<1> QED BY <1>2, <1>3 DEF WithFiles, StateValue

LEMMA DropFilesDoes ==
  ASSUME NEW st \in StateValue
  PROVE  /\ DropFiles(st) \in StateValue /\ DropFiles(st).services = st.services
         /\ DropFiles(st).domain = st.domain
         /\ \A r \in Role :
              /\ DropFiles(st).models[r].id = st.models[r].id
              /\ DropFiles(st).models[r].file =
                   IF ServiceOf[r] \in st.services THEN st.models[r].file ELSE None
<1> DEFINE models == [r \in Role |-> IF ServiceOf[r] \in st.services THEN st.models[r]
                                     ELSE [st.models[r] EXCEPT !.file = None]]
<1>1. models \in [Role -> ModelValue]
  BY DEF StateValue, ModelValue
<1>2. \A r \in Role : /\ models[r].id = st.models[r].id
                      /\ models[r].file = IF ServiceOf[r] \in st.services THEN st.models[r].file
                                          ELSE None
  BY DEF StateValue, ModelValue
<1>3. DropFiles(st) = [st EXCEPT !.models = models]
  BY DEF DropFiles
<1> HIDE DEF models
<1> QED BY <1>1, <1>2, <1>3 DEF StateValue

LEMMA DropServicesDoes ==
  ASSUME NEW st \in StateValue
  PROVE  /\ DropServices(st) \in StateValue /\ DropServices(st).models = st.models
         /\ DropServices(st).domain = st.domain
         /\ DropServices(st).services =
              st.services \ {ServiceOf[r] : r \in {q \in Role : st.models[q].file = None}}
BY DEF DropServices, StateValue

(* The roles whose model has no file.                                       *)
Unfiled(st) == {r \in Role : ResolvedFile(st.models[r]) = None}
Servers(R) == {ServiceOf[r] : r \in R}

LEMMA NormalizeDoes ==
  ASSUME NEW st \in StateValue
  PROVE  /\ Normalize(st) \in StateValue
         /\ Normalize(st).domain = st.domain
         /\ Normalize(st).services = st.services \ Servers(Unfiled(st))
         /\ \A r \in Role : /\ Normalize(st).models[r].id = st.models[r].id
                            /\ Normalize(st).models[r].file = ResolvedFile(st.models[r])
<1>1. /\ WithFiles(st) \in StateValue /\ WithFiles(st).services = st.services
      /\ WithFiles(st).domain = st.domain
      /\ \A r \in Role : /\ WithFiles(st).models[r].id = st.models[r].id
                         /\ WithFiles(st).models[r].file = ResolvedFile(st.models[r])
  BY WithFilesDoes
<1>2. {q \in Role : WithFiles(st).models[q].file = None} = Unfiled(st)
  BY <1>1 DEF Unfiled
<1> QED BY <1>1, <1>2, DropServicesDoes DEF Normalize, Servers

LEMMA NormalizeDropDoes ==
  ASSUME NEW st \in StateValue
  PROVE  /\ NormalizeDrop(st) \in StateValue
         /\ NormalizeDrop(st).domain = st.domain
         /\ NormalizeDrop(st).services = st.services \ Servers(Unfiled(st))
         /\ \A r \in Role :
              /\ NormalizeDrop(st).models[r].id = st.models[r].id
              /\ NormalizeDrop(st).models[r].file =
                   IF ServiceOf[r] \in st.services THEN ResolvedFile(st.models[r]) ELSE None
<1> DEFINE w == WithFiles(st)
           f == DropFiles(w)
<1>1. /\ w \in StateValue /\ w.services = st.services /\ w.domain = st.domain
      /\ \A r \in Role : /\ w.models[r].id = st.models[r].id
                         /\ w.models[r].file = ResolvedFile(st.models[r])
  BY WithFilesDoes
<1> HIDE DEF w
<1>2. /\ f \in StateValue /\ f.services = st.services /\ f.domain = st.domain
      /\ \A r \in Role :
           /\ f.models[r].id = st.models[r].id
           /\ f.models[r].file = IF ServiceOf[r] \in st.services THEN ResolvedFile(st.models[r])
                                 ELSE None
  BY <1>1, DropFilesDoes
<1> HIDE DEF f
<1>3. /\ DropServices(f) \in StateValue /\ DropServices(f).models = f.models
      /\ DropServices(f).domain = f.domain
      /\ DropServices(f).services =
           f.services \ {ServiceOf[r] : r \in {q \in Role : f.models[q].file = None}}
  BY <1>2, DropServicesDoes
<1>4. NormalizeDrop(st) = DropServices(f)
  BY DEF NormalizeDrop, f, w
<1>5. st.services \ {ServiceOf[r] : r \in {q \in Role : f.models[q].file = None}}
        = st.services \ Servers(Unfiled(st))
  BY <1>2 DEF Servers, Unfiled
<1> QED BY <1>2, <1>3, <1>4, <1>5

(* Only a model that is not from the catalog can lack its file.              *)
LEMMA CatalogHasModels == \A st \in StateValue : Unfiled(st) = NoModel(st)
BY DEF Unfiled, NoModel, ResolvedFile, StateValue, ModelValue, None

(* A state whose services are a closure.                                    *)
Expand(st) == [st EXCEPT !.services = Closure(@)]

(* It contains the services before, and the rest of the state is as it was.  *)
LEMMA ExpandDoes ==
  ASSUME NEW st \in StateValue
  PROVE  /\ Expand(st) \in StateValue /\ Expand(st).services = Closure(st.services)
         /\ Expand(st).models = st.models /\ Expand(st).domain = st.domain
         /\ st.services \subseteq Expand(st).services
         /\ Pass(Expand(st).services) = Expand(st).services
<1>1. st.services \in SUBSET Service
  BY DEF StateValue
<1>2. /\ Closure(st.services) \in SUBSET Service /\ st.services \subseteq Closure(st.services)
      /\ Pass(Closure(st.services)) = Closure(st.services)
  BY <1>1, ClosureIsClosed
<1> QED BY <1>2 DEF Expand, StateValue

(* An expanded state, normalised: what is left is served.                    *)
LEMMA ExpandedIsServed ==
  ASSUME NEW st \in StateValue, NEW t, t = NormalizeDrop(Expand(st)), t.services # {}
  PROVE  /\ Renders(t.services)
         /\ NoModel(st) \subseteq NoModel(t)
         /\ \A s \in t.services : \A c \in Consumes[s] \ Optional :
              Providers(c) \cap (t.services \cup Servers(NoModel(st))) # {}
<1> DEFINE x == Expand(st)
<1>1. x \in StateValue /\ x.models = st.models /\ Pass(x.services) = x.services
  BY ExpandDoes
<1> HIDE DEF x
<1>2. Unfiled(x) = NoModel(st)
  BY <1>1, CatalogHasModels DEF NoModel
<1>3. /\ t.services = x.services \ Servers(Unfiled(x))
      /\ \A r \in Role : /\ t.models[r].id = x.models[r].id
                         /\ t.models[r].file = IF ServiceOf[r] \in x.services
                                               THEN ResolvedFile(x.models[r]) ELSE None
  BY <1>1, NormalizeDropDoes DEF x
<1>4. NoModel(st) \subseteq NoModel(t)
  <2> SUFFICES ASSUME NEW r \in NoModel(st) PROVE r \in NoModel(t)
    OBVIOUS
  <2>1. r \in Role /\ st.models[r].id # "catalog" /\ ResolvedFile(st.models[r]) = None
    BY DEF NoModel
  <2>2. t.models[r].id = st.models[r].id /\ t.models[r].file = None
    BY <1>1, <1>3, <2>1
  <2> QED BY <2>1, <2>2 DEF NoModel, ResolvedFile
<1>5. /\ x.services \in SUBSET Service /\ NoModel(st) \in SUBSET Role
      /\ t.services \in SUBSET x.services
      /\ x.services \ {ServiceOf[r] : r \in NoModel(st)} \subseteq t.services
  BY <1>1, <1>2, <1>3 DEF StateValue, NoModel, Servers
<1> QED BY <1>1, <1>4, <1>5, WithoutServers DEF Servers

(* A closure, as it is.                                                     *)
LEMMA ClosureIsServed ==
  ASSUME NEW S \in SUBSET Service, Closure(S) # {}, NEW more
  PROVE  /\ Renders(Closure(S))
         /\ \A s \in Closure(S) : \A c \in Consumes[s] \ Optional :
              Providers(c) \cap (Closure(S) \cup more) # {}
<1>1. Closure(S) \in SUBSET Service /\ Pass(Closure(S)) = Closure(S)
  BY ClosureIsClosed
<1>2. Closure(S) \ {ServiceOf[r] : r \in {}} \subseteq Closure(S)
  OBVIOUS
<1>3. /\ Renders(Closure(S))
      /\ \A s \in Closure(S) : \A c \in Consumes[s] \ Optional :
           Providers(c) \cap (Closure(S) \cup {ServiceOf[r] : r \in {}}) # {}
  BY <1>1, <1>2, WithoutServers
<1> QED BY <1>3

-----------------------------------------------------------------------------
(* A first run starts from the defaults.                                     *)
LEMMA FreshTyped == Fresh \in StateValue /\ Fresh.services = Defaults
BY SelectionAssumption DEF Fresh, StateValue, ModelValue

(* What a screen reads from its boxes are services of the catalog.           *)
LEMMA SyncedTyped ==
  ASSUME WizardTypeOK, NEW S \in SUBSET Service, NEW d
  PROVE  Synced(d, S) \in SUBSET Service
BY DEF Synced, WizardTypeOK, StateValue

(* The types hold at the start ...                                           *)
LEMMA WizardInitTyped == WizardInit => WizardTypeOK
<1> SUFFICES ASSUME WizardInit PROVE WizardTypeOK
  OBVIOUS
<1>1. [Fresh EXCEPT !.services = {}] \in StateValue
  BY FreshTyped DEF StateValue
<1>2. 1 \in DOMAIN Departments
  BY DepartmentServices
<1> QED BY <1>1, <1>2, FreshTyped DEF WizardInit, WizardTypeOK

(* ... when a screen is put on the stack ...                                 *)
LEMMA PushTyped ==
  ASSUME NEW d \in DOMAIN Departments, NEW S \in SUBSET Service, WizardTypeOK, Push(d, S)
  PROVE  /\ dept' \in DOMAIN Departments /\ boxes' \in [DOMAIN Departments -> SUBSET Service]
         /\ DOMAIN queue' = DOMAIN Departments
BY DEF WizardTypeOK, Push

(* ... when the state is submitted ...                                       *)
LEMMA SubmitTyped == ASSUME WizardTypeOK, NEW by, Submit(by) PROVE WizardTypeOK'
<1>1. ForSubmit(state) = NormalizeDrop(Expand(state))
  BY DEF ForSubmit, Expand
<1>2. state' = ForSubmit(state) /\ state' \in StateValue
  BY <1>1, ExpandDoes, NormalizeDropDoes DEF Submit, WizardTypeOK
<1>3. saved' \in StateValue
  BY <1>2 DEF Submit, WizardTypeOK, StateValue
<1> QED BY <1>2, <1>3 DEF Submit, WizardTypeOK

(* ... and after every step.                                                 *)
LEMMA WizardStepTyped == WizardTypeOK /\ [WizardNext]_wizardVars => WizardTypeOK'
<1> SUFFICES ASSUME WizardTypeOK, [WizardNext]_wizardVars PROVE WizardTypeOK'
  OBVIOUS
<1>1. CASE Launch
  <2>1. [Fresh EXCEPT !.services = saved.services, !.domain = saved.domain] \in StateValue
    BY FreshTyped DEF StateValue, WizardTypeOK
  <2> QED BY <1>1, <2>1, FreshTyped DEF Launch, WizardTypeOK
<1>2. CASE Back
  <2>1. dept' \in DOMAIN Departments
    BY <1>2, DepartmentServices DEF Back, WizardTypeOK
  <2>2. boxes' \in [DOMAIN Departments -> SUBSET Service] /\ DOMAIN queue' = DOMAIN Departments
    BY <1>2 DEF Back, Gone, WizardTypeOK
  <2> QED BY <1>2, <2>1, <2>2 DEF Back, WizardTypeOK
<1>3. CASE Exit /\ saved' = saved
  <2>1. 1 \in DOMAIN Departments
    BY DepartmentServices
  <2> QED BY <1>3, <2>1, FreshTyped DEF Exit, WizardTypeOK
<1>4. CASE ServicesDone
  <2>1. FinalDept \in DOMAIN Departments
    BY DepartmentServices
  <2>2. Synced(FinalDept, boxes[FinalDept]) \in SUBSET Service
    BY <2>1, SyncedTyped DEF WizardTypeOK
  <2> DEFINE checked == Synced(FinalDept, boxes[FinalDept])
  <2>3. Closure(checked) \in SUBSET Service
    BY <2>2, ClosureIsClosed
  <2> HIDE DEF checked
  <2>4. [state EXCEPT !.services = Closure(checked)] \in StateValue
    BY <2>3 DEF WizardTypeOK, StateValue
  <2>5. state' \in StateValue
    BY <1>4, <2>4, NormalizeDoes, NormalizeDropDoes DEF ServicesDone, checked
  <2> QED BY <1>4, <2>5 DEF ServicesDone, WizardTypeOK
<1>5. ASSUME NEW by, Submit(by) PROVE WizardTypeOK'
  BY <1>5, SubmitTyped
<1>6. ASSUME NEW fromState, NEW cliModel, Headless(fromState, cliModel) PROVE WizardTypeOK'
  BY <1>6 DEF Headless, WizardTypeOK
<1>7. ASSUME NEW domain \in BOOLEAN, NEW secrets, DomainNext(domain, secrets) PROVE WizardTypeOK'
  <2>1. state' \in StateValue
    BY <1>7 DEF DomainNext, WizardTypeOK, StateValue
  <2> QED BY <1>7, <2>1 DEF DomainNext, WizardTypeOK
<1>8. ASSUME NEW models \in [Role -> Model], ModelNext(models) PROVE WizardTypeOK'
  <2>1. models \in [Role -> ModelValue]
    BY DEF Model, ModelValue
  <2>2. [state EXCEPT !.models = models] \in StateValue
    BY <2>1 DEF WizardTypeOK, StateValue
  <2>3. state' \in StateValue
    BY <1>8, <2>2, NormalizeDoes DEF ModelNext
  <2>4. 1 \in DOMAIN Departments /\ state'.services \in SUBSET Service
    BY <2>3, DepartmentServices DEF StateValue
  <2> QED BY <1>8, <2>3, <2>4, PushTyped DEF ModelNext, WizardTypeOK
<1>9. ASSUME NEW d \in DOMAIN Departments, NEW s \in Visible(d), Toggle(d, s) PROVE WizardTypeOK'
  <2>1. s \in Service
    BY DepartmentServices
  <2>2. boxes' \in [DOMAIN Departments -> SUBSET Service]
    BY <1>9, <2>1 DEF Toggle, WizardTypeOK
  <2> QED BY <1>9, <2>2 DEF Toggle, WizardTypeOK
<1>10. ASSUME NEW d \in DOMAIN Departments, CheckboxChanged(d) PROVE WizardTypeOK'
  <2> DEFINE chosen == AfterPick(d, Head(queue[d]), Synced(d, boxes[d]))
  <2>1. chosen \in SUBSET Service
    BY SyncedTyped DEF AfterPick, WizardTypeOK
  <2>2. Closure(chosen) \in SUBSET Service
    BY <2>1, ClosureIsClosed
  <2>3. /\ state' = [state EXCEPT !.services = Closure(chosen)]
        /\ boxes' = [boxes EXCEPT ![d] = Closure(chosen) \cap Visible(d)]
    BY <1>10 DEF CheckboxChanged
  <2> HIDE DEF chosen
  <2>4. state' \in StateValue /\ boxes' \in [DOMAIN Departments -> SUBSET Service]
    BY <2>2, <2>3 DEF WizardTypeOK, StateValue
  <2> QED BY <1>10, <2>4 DEF CheckboxChanged, WizardTypeOK
<1>11. ASSUME NEW d \in DOMAIN Departments, d < FinalDept, ServicesNext(d) PROVE WizardTypeOK'
  <2> DEFINE checked == Synced(d, boxes[d])
  <2>1. checked \in SUBSET Service
    BY SyncedTyped DEF WizardTypeOK
  <2>2. Closure(checked) \in SUBSET Service
    BY <2>1, ClosureIsClosed
  <2> HIDE DEF checked
  <2>3. [state EXCEPT !.services = Closure(checked)] \in StateValue
    BY <2>2 DEF WizardTypeOK, StateValue
  <2>4. state' \in StateValue
    BY <1>11, <2>3, NormalizeDoes DEF ServicesNext, checked
  <2>5. d + 1 \in DOMAIN Departments /\ state'.services \in SUBSET Service
    BY <1>11, <2>4, DepartmentServices DEF StateValue
  <2> QED BY <1>11, <2>4, <2>5, PushTyped DEF ServicesNext, WizardTypeOK
<1>12. CASE UNCHANGED wizardVars
  BY <1>12 DEF wizardVars, WizardTypeOK
<1>13. (Quit \/ Finished) => Exit /\ saved' = saved
  BY DEF Quit, Finished, Exit
<1>14. (Apply => Submit("confirm")) /\ (CtrlS => Submit("ctrl+s"))
  BY DEF Apply, CtrlS
<1> QED BY <1>1, <1>2, <1>3, <1>4, <1>5, <1>6, <1>7, <1>8, <1>9, <1>10, <1>11, <1>12, <1>13,
           <1>14 DEF WizardNext

-----------------------------------------------------------------------------
(* applied changes only in Submit and Headless.                             *)
LEMMA SubmitServes == ASSUME WizardTypeOK, AppliedServed, NEW by, Submit(by) PROVE AppliedServed'
<1>1. state' = NormalizeDrop(Expand(state)) /\ state \in StateValue
  BY DEF Submit, ForSubmit, Expand, WizardTypeOK
<1>2. CASE Valid(state')
  <2>1. saved' = [state' EXCEPT !.secrets = "missing"] /\ applied' = ConfigOf(state', by)
    BY <1>2 DEF Submit
  <2>2. state'.services # {} /\ state' \in StateValue
    BY <1>1, <1>2, ExpandDoes, NormalizeDropDoes DEF Valid
  <2>3. applied'.services = state'.services /\ saved'.models = state'.models
    BY <2>1, <2>2 DEF ConfigOf, StateValue
  <2>4. NoModel(saved') = NoModel(state')
    BY <2>3 DEF NoModel
  <2>5. /\ Renders(state'.services) /\ NoModel(state) \subseteq NoModel(state')
        /\ \A s \in state'.services : \A c \in Consumes[s] \ Optional :
             Providers(c) \cap (state'.services \cup Servers(NoModel(state))) # {}
    BY <1>1, <2>2, ExpandedIsServed
  <2> QED BY <2>3, <2>4, <2>5 DEF AppliedServed, Servers
<1>3. CASE ~Valid(state')
  <2>1. applied' = applied /\ saved' = saved
    BY <1>3 DEF Submit
  <2> QED BY <2>1 DEF AppliedServed, Exists, NoModel
<1> QED BY <1>2, <1>3

(* A headless run takes no more from its closure than the servers of the models *)
(* that the operator left out.                                               *)
LEMMA HeadlessServes ==
  ASSUME WizardTypeOK, NEW fromState \in BOOLEAN, NEW cliModel \in BOOLEAN,
         Headless(fromState, cliModel)
  PROVE  AppliedServed'
<1> DEFINE base == IF fromState THEN saved ELSE [saved EXCEPT !.models = Fresh.models]
           loaded == Expand(base)
           ready == IF cliModel THEN WithFiles(loaded) ELSE NormalizeDrop(loaded)
<1>1. /\ base \in StateValue /\ base.services = saved.services
      /\ base.models = IF fromState THEN saved.models ELSE Fresh.models
  BY FreshTyped DEF WizardTypeOK, StateValue
<1>2. loaded \in StateValue
  BY <1>1, ExpandDoes
<1>3. ready \in StateValue
  BY <1>2, WithFilesDoes, NormalizeDropDoes
<1>4. /\ applied'.services = DropFiles(ready).services /\ applied'.services # {}
      /\ saved' = saved
  BY DEF Headless, ConfigOf, Expand
<1> HIDE DEF base
<1>5. applied'.services = ready.services
  BY <1>3, <1>4, DropFilesDoes
<1>6. CASE cliModel
  <2>1. applied'.services = Closure(saved.services) /\ saved.services \in SUBSET Service
    BY <1>1, <1>2, <1>5, <1>6, ExpandDoes, WithFilesDoes DEF WizardTypeOK, StateValue
  <2> QED BY <1>4, <2>1, ClosureIsServed DEF AppliedServed
<1>7. CASE ~cliModel
  <2>1. ready = NormalizeDrop(Expand(base))
    BY <1>7
  <2>2. /\ Renders(ready.services)
        /\ \A s \in ready.services : \A c \in Consumes[s] \ Optional :
             Providers(c) \cap (ready.services \cup Servers(NoModel(base))) # {}
    BY <1>1, <1>4, <1>5, <2>1, ExpandedIsServed
  <2>3. NoModel(base) \subseteq NoModel(saved)
    BY <1>1 DEF NoModel, Fresh
  <2> QED BY <1>4, <1>5, <2>2, <2>3 DEF AppliedServed, Servers
<1> QED BY <1>6, <1>7

(* Whatever way through the screens, Ctrl+S or an unattended run has led there, *)
(* the renderer accepts what is installed, and each service finds what it consumes *)
(* unless the operator gave its model server no model: the closure, and its  *)
(* normalisation after it, are enough in every state they are applied to.    *)
THEOREM WhatIsAppliedIsServed == WizardSpec => []AppliedServed
<1>1. WizardInit => AppliedServed
  BY DEF WizardInit, AppliedServed, Exists, NoConfig
<1>2. WizardTypeOK /\ AppliedServed /\ [WizardNext]_wizardVars => AppliedServed'
  <2> SUFFICES ASSUME WizardTypeOK, AppliedServed, [WizardNext]_wizardVars PROVE AppliedServed'
    OBVIOUS
  <2>1. CASE \E by : Submit(by)
    BY <2>1, SubmitServes
  <2>2. CASE \E fromState, cliModel \in BOOLEAN : Headless(fromState, cliModel)
    BY <2>2, HeadlessServes
  <2>3. CASE applied' = applied /\ saved' = saved
    BY <2>3 DEF AppliedServed, Exists, NoModel
  <2>4. \/ \E by : Submit(by)
        \/ \E fromState, cliModel \in BOOLEAN : Headless(fromState, cliModel)
        \/ applied' = applied /\ saved' = saved
    BY DEF WizardNext, wizardVars, Launch, Back, Quit, Exit, ServicesDone, Apply, CtrlS, Finished,
           DomainNext, ModelNext, Toggle, CheckboxChanged, ServicesNext
  <2> QED BY <2>1, <2>2, <2>3, <2>4
<1> QED BY <1>1, <1>2, WizardInitTyped, WizardStepTyped, PTL DEF WizardSpec

-----------------------------------------------------------------------------
(* Induction on a set of numbers.                                            *)
LEMMA SetInduction ==
  ASSUME NEW P \in SUBSET Nat, 0 \in P, \A n \in P : n + 1 \in P
  PROVE  \A n \in Nat : n \in P
<1> SUFFICES ASSUME Nat \ P # {} PROVE FALSE
  OBVIOUS
<1>1. PICK m \in Nat \ P : \A n \in Nat \ P : m <= n
  <2>1. Nat \ P \in SUBSET Nat
    OBVIOUS
  <2> QED BY <2>1, LeastExists, Zenon
<1>2. m # 0 /\ m - 1 \in Nat
  BY <1>1
<1>3. m - 1 \in P
  BY <1>1, <1>2
<1>4. (m - 1) + 1 \in P
  BY <1>3
<1> QED BY <1>1, <1>4

(* A function on 0 .. n that each value determines the next one of exists.    *)
Follows(n, X, c, step) ==
  \E f \in [0 .. n -> X] : f[0] = c /\ \A i \in 1 .. n : f[i] = step[<<i, f[i - 1]>>]

(* It is built up one value at a time.                                       *)
LEMMA RecursionExists ==
  ASSUME NEW n \in Nat, NEW X, NEW c \in X, NEW step,
         \A i \in 1 .. n : \A x \in X : step[<<i, x>>] \in X
  PROVE  Follows(n, X, c, step)
<1> DEFINE OK(k, f) == f[0] = c /\ \A i \in 1 .. k : f[i] = step[<<i, f[i - 1]>>]
           P == {k \in Nat : k <= n => \E f \in [0 .. k -> X] : OK(k, f)}
<1>1. 0 \in P
  <2> DEFINE f == [i \in 0 .. 0 |-> c]
  <2>1. f \in [0 .. 0 -> X] /\ OK(0, f)
    OBVIOUS
  <2> HIDE DEF f
  <2> QED BY <2>1
<1>2. ASSUME NEW k \in P PROVE k + 1 \in P
  <2> SUFFICES ASSUME k + 1 <= n PROVE \E f \in [0 .. k + 1 -> X] : OK(k + 1, f)
    OBVIOUS
  <2>1. PICK f \in [0 .. k -> X] : OK(k, f)
    OBVIOUS
  <2> DEFINE g == [i \in 0 .. k + 1 |-> IF i <= k THEN f[i] ELSE step[<<k + 1, f[k]>>]]
  <2>2. step[<<k + 1, f[k]>>] \in X
    <3>1. k + 1 \in 1 .. n /\ f[k] \in X
      BY <2>1
    <3> QED BY <3>1
  <2>3. g \in [0 .. k + 1 -> X]
    BY <2>1, <2>2
  <2>4. g[0] = c
    BY <2>1
  <2>5. ASSUME NEW i \in 1 .. k + 1 PROVE g[i] = step[<<i, g[i - 1]>>]
    <3>1. g[i - 1] = f[i - 1]
      OBVIOUS
    <3>2. CASE i = k + 1
      <4>1. i - 1 = k /\ ~(i <= k)
        BY <3>2
      <4>2. g[i] = step[<<k + 1, f[k]>>]
        BY <4>1
      <4> QED BY <3>1, <3>2, <4>1, <4>2
    <3>3. CASE i <= k
      BY <2>1, <3>1, <3>3
    <3> QED BY <3>2, <3>3
  <2> HIDE DEF g
  <2> QED BY <2>3, <2>4, <2>5
<1> HIDE DEF P
<1>3. P \in SUBSET Nat
  BY DEF P
<1>4. n \in P
  BY <1>1, <1>2, <1>3, SetInduction
<1> QED BY <1>4 DEF P, Follows

(* The events a turn of boxes posts: each for a box of the screen, marked as   *)
(* the program's, with what the box holds now.                              *)
PostedBy(d, new) == {e \in Visible(d) \X BOOLEAN \X {FALSE} : e[2] => e[1] \in new}

(* The loop over the boxes of the screen posts no other events.              *)
LEMMA PostedIsOwn ==
  ASSUME NEW d \in DOMAIN Departments, NEW old, NEW new
  PROVE  Posted(d, old, new) \in Seq(PostedBy(d, new))
<1> DEFINE n == Len(Departments[d])
           X == Seq(PostedBy(d, new))
           service(i) == Departments[d][i]
           next(i, q) == IF (service(i) \in old) # (service(i) \in new)
                           THEN Append(q, <<service(i), service(i) \in new, FALSE>>)
                           ELSE q
           body(f, i) == IF i = 0 THEN <<>>
                         ELSE LET s == Departments[d][i]
                              IN IF (s \in old) # (s \in new)
                                   THEN Append(f[i - 1], <<s, s \in new, FALSE>>)
                                   ELSE f[i - 1]
           step == [p \in (1 .. n) \X X |-> next(p[1], p[2])]
           upTo == CHOOSE f : f = [i \in 0 .. n |-> body(f, i)]
<1>1. n \in Nat /\ DOMAIN Departments[d] = 1 .. n
  BY SelectionAssumption
<1>2. ASSUME NEW i \in 1 .. n, NEW q \in X PROVE next(i, q) \in X
  <2>1. service(i) \in Visible(d)
    BY <1>1 DEF Visible
  <2> DEFINE e == <<service(i), service(i) \in new, FALSE>>
  <2>2. e \in PostedBy(d, new)
    <3>1. CASE service(i) \in new
      <4>1. e = <<service(i), TRUE, FALSE>>
        BY <3>1
      <4> QED BY <2>1, <3>1, <4>1 DEF PostedBy
    <3>2. CASE service(i) \notin new
      <4>1. e = <<service(i), FALSE, FALSE>>
        <5>1. (service(i) \in new) = FALSE
          BY <3>2
        <5> QED BY <5>1, Zenon
      <4> QED BY <2>1, <4>1 DEF PostedBy
    <3> QED BY <3>1, <3>2
  <2> HIDE DEF e
  <2>3. Append(q, e) \in X
    BY <2>2, AppendProperties
  <2> QED BY <2>3 DEF e
<1>3. <<>> \in X
  BY EmptySeq
<1> HIDE DEF X
<1>4. \A i \in 1 .. n, q \in X : step[<<i, q>>] = next(i, q)
  OBVIOUS
<1>5. \A i \in 1 .. n : \A q \in X : step[<<i, q>>] \in X
  BY <1>2, <1>4
<1> HIDE DEF step
<1>6. PICK f \in [0 .. n -> X] : f[0] = <<>> /\ \A i \in 1 .. n : f[i] = step[<<i, f[i - 1]>>]
  <2> HIDE DEF n
  <2>1. Follows(n, X, <<>>, step)
    BY <1>1, <1>3, <1>5, RecursionExists, Zenon
  <2> QED BY <2>1 DEF Follows
<1>7. ASSUME NEW i \in 0 .. n PROVE f[i] = body(f, i)
  <2>1. CASE i = 0
    BY <1>6, <2>1
  <2>2. CASE i # 0
    <3>1. i \in 1 .. n /\ i - 1 \in 0 .. n
      BY <1>1, <2>2
    <3>2. f[i] = next(i, f[i - 1])
      BY <1>4, <1>6, <3>1
    <3> QED BY <2>2, <3>2
  <2> QED BY <2>1, <2>2
<1>8. f = [i \in 0 .. n |-> body(f, i)]
  BY <1>7
<1> HIDE DEF n
<1>9. upTo = [i \in 0 .. n |-> body(upTo, i)]
  BY <1>8
<1> HIDE DEF upTo
<1>10. ASSUME NEW i \in 0 .. n PROVE upTo[i] = body(upTo, i)
  <2> DEFINE g == [k \in 0 .. n |-> body(upTo, k)]
  <2>1. g[i] = body(upTo, i)
    OBVIOUS
  <2>2. upTo = g
    BY <1>9
  <2> HIDE DEF g
  <2> QED BY <2>1, <2>2, Zenon
<1> DEFINE P == {i \in Nat : i <= n => upTo[i] \in X}
<1>11. 0 \in P
  BY <1>1, <1>3, <1>9
<1>12. ASSUME NEW i \in P PROVE i + 1 \in P
  <2> SUFFICES ASSUME i + 1 <= n PROVE upTo[i + 1] \in X
    OBVIOUS
  <2>1. upTo[i] \in X /\ i + 1 \in 1 .. n /\ i + 1 # 0 /\ (i + 1) - 1 = i
    BY <1>1
  <2>2. upTo[i + 1] = body(upTo, i + 1)
    <3>1. i + 1 \in 0 .. n
      BY <1>1, <2>1
    <3> QED BY <1>10, <3>1, Zenon
  <2>3. body(upTo, i + 1) = next(i + 1, upTo[i])
    BY <2>1
  <2> QED BY <1>2, <2>1, <2>2, <2>3
<1> HIDE DEF P
<1>13. n \in P
  <2>1. P \in SUBSET Nat
    BY DEF P
  <2> QED BY <1>1, <1>11, <1>12, <2>1, SetInduction
<1>14. upTo[n] \in X
  BY <1>1, <1>13 DEF P
<1>15. Posted(d, old, new) = upTo[n]
  BY DEF Posted, upTo, n
<1> QED BY <1>14, <1>15 DEF X

-----------------------------------------------------------------------------
(* The screens that are on the stack, each over the ones before it; below an *)
(* install screen only those matter on which an event waits.                 *)
OnStack(d) ==
  \/ at \in {"services", "confirm"} /\ d <= dept
  \/ at = "install" /\ queue[d] # <<>>
Open == at # "off"

(* The services that were saved have their models.                          *)
SavedHasModels ==
  \A r \in Role : ServiceOf[r] \in saved.services => ResolvedFile(saved.models[r]) # None

NothingWaits == \A d \in DOMAIN Departments : queue[d] = <<>>
AllFromCatalog == \A r \in Role : state.models[r].id = "catalog"

(* While nothing is changed, the last run's services stay selected, and their  *)
(* boxes checked on every screen that is open.                              *)
SavedIsSelected ==
  /\ saved.services \subseteq state.services
  /\ AllFromCatalog /\ NothingWaits
  /\ \A d \in DOMAIN Departments :
       OnStack(d) => saved.services \cap Visible(d) \subseteq boxes[d]

RerunInv ==
  /\ SavedHasModels
  /\ at = "off" => NothingWaits
  /\ untouched /\ Open => AllFromCatalog /\ NothingWaits
  /\ untouched /\ Open /\ Exists(saved) => SavedIsSelected

-----------------------------------------------------------------------------
(* A model from the catalog has a file, and its server stays.                *)
LEMMA CatalogIsFiled ==
  ASSUME NEW st \in StateValue, \A r \in Role : st.models[r].id = "catalog"
  PROVE  Unfiled(st) = {} /\ Servers(Unfiled(st)) = {}
BY DEF Unfiled, Servers, ResolvedFile, None

(* After the normalisation each server that is left has its model.           *)
LEMMA NormalizedHasModels ==
  ASSUME NEW st \in StateValue, NEW r \in Role,
         ServiceOf[r] \in NormalizeDrop(st).services
  PROVE  ResolvedFile(NormalizeDrop(st).models[r]) # None
<1>1. ServiceOf[r] \in st.services /\ ResolvedFile(st.models[r]) # None
  BY NormalizeDropDoes DEF Unfiled, Servers
<1>2. /\ NormalizeDrop(st).models[r].id = st.models[r].id
      /\ NormalizeDrop(st).models[r].file = ResolvedFile(st.models[r])
  BY <1>1, NormalizeDropDoes
<1> QED BY <1>1, <1>2 DEF ResolvedFile

(* A selection read from a screen whose boxes show the saved services has them. *)
LEMMA CheckedHasSaved ==
  ASSUME WizardTypeOK, SavedIsSelected, NEW d \in DOMAIN Departments, OnStack(d)
  PROVE  LET st == [state EXCEPT !.services = Closure(Synced(d, boxes[d]))]
         IN  /\ st \in StateValue /\ saved.services \subseteq st.services
             /\ Normalize(st) \in StateValue
             /\ saved.services \subseteq Normalize(st).services
             /\ \A r \in Role : Normalize(st).models[r].id = "catalog"
<1> DEFINE checked == Synced(d, boxes[d])
           st == [state EXCEPT !.services = Closure(checked)]
<1>1. checked \in SUBSET Service
  BY SyncedTyped DEF WizardTypeOK
<1>2. saved.services \subseteq checked
  BY DEF SavedIsSelected, Synced
<1>3. Closure(checked) \in SUBSET Service /\ checked \subseteq Closure(checked)
  BY <1>1, ClosureIsClosed
<1> HIDE DEF checked
<1>4. /\ st \in StateValue /\ st.services = Closure(checked)
      /\ \A r \in Role : st.models[r].id = "catalog"
  BY <1>3 DEF WizardTypeOK, StateValue, SavedIsSelected, AllFromCatalog
<1> HIDE DEF st
<1>5. Servers(Unfiled(st)) = {}
  BY <1>4, CatalogIsFiled
<1>6. /\ Normalize(st) \in StateValue /\ Normalize(st).services = st.services
      /\ \A r \in Role : Normalize(st).models[r].id = "catalog"
  BY <1>4, <1>5, NormalizeDoes
<1> QED BY <1>2, <1>3, <1>4, <1>6 DEF st, checked

(* The last expansion and normalisation take no saved service out ...        *)
LEMMA SubmitKeeps ==
  ASSUME WizardTypeOK, SavedIsSelected, NEW by, Submit(by)
  PROVE  /\ saved.services \subseteq state'.services
         /\ \A r \in Role : state'.models[r].id = "catalog"
<1>1. state' = NormalizeDrop(Expand(state)) /\ state \in StateValue
  BY DEF Submit, ForSubmit, Expand, WizardTypeOK
<1>2. /\ Expand(state) \in StateValue /\ state.services \subseteq Expand(state).services
      /\ Expand(state).models = state.models
  BY <1>1, ExpandDoes
<1>3. Servers(Unfiled(Expand(state))) = {}
  BY <1>2, CatalogIsFiled DEF SavedIsSelected, AllFromCatalog
<1>4. /\ state'.services = Expand(state).services
      /\ \A r \in Role : state'.models[r].id = state.models[r].id
  BY <1>1, <1>2, <1>3, NormalizeDropDoes
<1> QED BY <1>2, <1>4 DEF SavedIsSelected, AllFromCatalog

(* ... and save a state in which the servers have their models.              *)
LEMMA SubmitSaves ==
  ASSUME WizardTypeOK, SavedHasModels, NEW by, Submit(by) PROVE SavedHasModels'
<1>1. CASE saved' = saved
  BY <1>1 DEF SavedHasModels
<1>2. CASE saved' = [state' EXCEPT !.secrets = "missing"]
  <2>1. state' = NormalizeDrop(Expand(state)) /\ Expand(state) \in StateValue
    BY ExpandDoes DEF Submit, ForSubmit, Expand, WizardTypeOK
  <2>2. state' \in StateValue
    BY <2>1, NormalizeDropDoes
  <2>3. saved'.services = state'.services /\ saved'.models = state'.models
    BY <1>2, <2>2 DEF StateValue
  <2> QED BY <2>1, <2>3, NormalizedHasModels DEF SavedHasModels
<1> QED BY <1>1, <1>2 DEF Submit

(* A submitted state keeps its model ids.                                    *)
LEMMA SubmitKeepsCatalog ==
  ASSUME WizardTypeOK, AllFromCatalog, NEW by, Submit(by) PROVE AllFromCatalog'
<1>1. state' = NormalizeDrop(Expand(state)) /\ state \in StateValue
  BY DEF Submit, ForSubmit, Expand, WizardTypeOK
<1>2. Expand(state) \in StateValue /\ Expand(state).models = state.models
  BY <1>1, ExpandDoes
<1> QED BY <1>1, <1>2, NormalizeDropDoes DEF AllFromCatalog

(* The second conjunct and SavedIsSelected are kept by each step but Submit and *)
(* Headless, which keep saved.                                              *)
LEMMA RerunStep == WizardTypeOK /\ RerunInv /\ [WizardNext]_wizardVars => RerunInv'
<1> SUFFICES ASSUME WizardTypeOK, RerunInv, [WizardNext]_wizardVars PROVE RerunInv'
  OBVIOUS
<1> DEFINE Kept == untouched' /\ Open' /\ Exists(saved') => SavedIsSelected'
<1>a. saved' = saved => SavedHasModels'
  BY DEF RerunInv, SavedHasModels
<1>1. CASE Launch
  <2>1. saved' = saved /\ at' = "domain" /\ queue' = queue /\ NothingWaits
    BY <1>1 DEF Launch, RerunInv
  <2>2. ASSUME Exists(saved) PROVE saved.services \subseteq state'.services
    BY <1>1, <2>2, FreshTyped DEF Launch, StateValue
  <2>3. \A r \in Role : state'.models[r].id = "catalog"
    BY <1>1 DEF Launch, Fresh
  <2> QED BY <1>a, <2>1, <2>2, <2>3
        DEF RerunInv, SavedIsSelected, AllFromCatalog, NothingWaits, OnStack, Exists
<1>2. CASE Back
  <2>1. /\ saved' = saved /\ state' = state /\ untouched' = untouched
        /\ at \in {"model", "services", "confirm"} /\ at' \in {"domain", "model", "services"}
    BY <1>2 DEF Back
  <2>2. ASSUME NEW d \in DOMAIN Departments, OnStack(d)'
        PROVE  OnStack(d) /\ boxes'[d] = boxes[d]
    BY <1>2, <2>2, DepartmentServices DEF Back, OnStack, Gone, WizardTypeOK
  <2>3. NothingWaits => NothingWaits'
    <3>1. queue' = queue \/ Gone(1) \/ Gone(dept)
      BY <1>2 DEF Back
    <3> QED BY <3>1 DEF NothingWaits, Gone, WizardTypeOK
  <2> QED BY <1>a, <2>1, <2>2, <2>3
        DEF RerunInv, SavedIsSelected, AllFromCatalog, Open, Exists
<1>3. CASE Exit
  <2>1. NothingWaits' /\ saved' = saved /\ at' = "off"
    BY <1>3 DEF Exit, NothingWaits
  <2> QED BY <1>a, <2>1 DEF RerunInv, Open
<1>4. CASE ServicesDone
  <2>1. /\ saved' = saved /\ untouched' = untouched /\ boxes' = boxes /\ queue' = queue
        /\ at = "services" /\ dept = FinalDept /\ dept' = dept /\ at' \in {"services", "confirm"}
    BY <1>4 DEF ServicesDone
  <2>2. ASSUME SavedIsSelected
        PROVE  saved.services \subseteq state'.services /\ AllFromCatalog'
    <3> DEFINE st == [state EXCEPT !.services = Closure(Synced(FinalDept, boxes[FinalDept]))]
    <3>1. FinalDept \in DOMAIN Departments /\ OnStack(FinalDept)
      BY <2>1, DepartmentServices DEF OnStack
    <3>2. /\ Normalize(st) \in StateValue /\ saved.services \subseteq Normalize(st).services
          /\ \A r \in Role : Normalize(st).models[r].id = "catalog"
      BY <2>2, <3>1, CheckedHasSaved
    <3>3. state' = NormalizeDrop(Normalize(st))
      BY <1>4 DEF ServicesDone
    <3> HIDE DEF st
    <3>4. Servers(Unfiled(Normalize(st))) = {}
      BY <3>2, CatalogIsFiled
    <3> QED BY <3>2, <3>3, <3>4, NormalizeDropDoes DEF AllFromCatalog
  <2> QED BY <1>a, <2>1, <2>2
        DEF RerunInv, SavedIsSelected, NothingWaits, OnStack, Open, Exists
<1>5. ASSUME NEW by, Submit(by), Open, by # "confirm" \/ at = "confirm" PROVE RerunInv'
  <2>1. SavedHasModels'
    BY <1>5, SubmitSaves DEF RerunInv
  <2>2. /\ dept' = dept /\ boxes' = boxes /\ queue' = queue /\ untouched' = untouched
        /\ at' # "off" /\ (at' = at \/ at' = "install" \/ (at = "confirm" /\ at' = "services"))
        /\ saved' = saved \/ saved' = [state' EXCEPT !.secrets = "missing"]
    BY <1>5 DEF Submit, Open
  <2>3. untouched => AllFromCatalog' /\ NothingWaits'
    BY <1>5, <2>2, SubmitKeepsCatalog DEF RerunInv, NothingWaits
  <2>4. ASSUME untouched, Exists(saved') PROVE saved'.services \subseteq state'.services
    <3>1. CASE saved' = saved
      BY <1>5, <2>4, <3>1, SubmitKeeps DEF RerunInv
    <3>2. CASE saved' = [state' EXCEPT !.secrets = "missing"]
      <4>1. state' \in StateValue
        BY <1>5, ExpandDoes, NormalizeDropDoes DEF Submit, ForSubmit, Expand, WizardTypeOK
      <4> QED BY <3>2, <4>1 DEF StateValue
    <3> QED BY <2>2, <3>1, <3>2
  <2>5. ASSUME untouched, Exists(saved') PROVE SavedIsSelected'
    <3>1. CASE at' = "install"
      BY <2>3, <2>4, <2>5, <3>1 DEF SavedIsSelected, NothingWaits, OnStack
    <3>2. CASE at' # "install"
      <4>1. saved' = saved /\ SavedIsSelected
        BY <1>5, <2>2, <2>5, <3>2 DEF Submit, RerunInv
      <4> QED BY <2>2, <2>3, <2>4, <2>5, <3>2, <4>1 DEF SavedIsSelected, OnStack
    <3> QED BY <3>1, <3>2
  <2> QED BY <2>1, <2>2, <2>3, <2>5 DEF RerunInv
<1>6. ASSUME NEW fromState, NEW cliModel, Headless(fromState, cliModel) PROVE RerunInv'
  <2>1. saved' = saved /\ at = "off" /\ at' = at /\ queue' = queue
    BY <1>6 DEF Headless
  <2> QED BY <1>a, <2>1 DEF RerunInv, NothingWaits, Open
<1>7. ASSUME NEW domain, NEW secrets, DomainNext(domain, secrets) PROVE RerunInv'
  <2>1. /\ saved' = saved /\ untouched' = untouched /\ queue' = queue
        /\ at = "domain" /\ at' \in {"domain", "model"}
    BY <1>7 DEF DomainNext
  <2>2. state'.services = state.services /\ state'.models = state.models
    BY <1>7 DEF DomainNext, WizardTypeOK, StateValue
  <2> QED BY <1>a, <2>1, <2>2
        DEF RerunInv, SavedIsSelected, AllFromCatalog, NothingWaits, OnStack, Open, Exists
<1>8. ASSUME NEW models \in [Role -> Model], ModelNext(models) PROVE RerunInv'
  <2> DEFINE st == [state EXCEPT !.models = models]
  <2>1. models \in [Role -> ModelValue]
    BY DEF Model, ModelValue
  <2>2. st \in StateValue /\ st.services = state.services /\ st.models = models
    BY <2>1 DEF WizardTypeOK, StateValue
  <2>3. /\ saved' = saved /\ at = "model" /\ at' = "services" /\ dept' = 1
        /\ state' = Normalize(st) /\ Push(1, state'.services)
        /\ untouched' => untouched /\ \A r \in Role : models[r].id = state.models[r].id
    BY <1>8 DEF ModelNext, Push
  <2> HIDE DEF st
  <2>4. ASSUME untouched'
        PROVE  AllFromCatalog' /\ NothingWaits' /\ state'.services = state.services
    <3>1. AllFromCatalog /\ NothingWaits
      BY <2>3, <2>4 DEF RerunInv, Open
    <3>2. \A r \in Role : st.models[r].id = "catalog"
      BY <2>2, <2>3, <2>4, <3>1 DEF AllFromCatalog
    <3>3. Servers(Unfiled(st)) = {}
      BY <2>2, <3>2, CatalogIsFiled
    <3>4. state'.services = state.services /\ AllFromCatalog'
      BY <2>2, <2>3, <3>2, <3>3, NormalizeDoes DEF AllFromCatalog
    <3>5. NothingWaits'
      BY <2>3, <3>1 DEF Push, NothingWaits, WizardTypeOK
    <3> QED BY <3>4, <3>5
  <2>5. ASSUME SavedIsSelected, untouched' PROVE SavedIsSelected'
    <3>1. \A d \in DOMAIN Departments : OnStack(d)' => d = 1
      BY <2>3, DepartmentServices DEF OnStack
    <3>2. boxes'[1] = state'.services \cap Visible(1)
      BY <2>3, DepartmentServices DEF Push, WizardTypeOK
    <3> QED BY <2>3, <2>4, <2>5, <3>1, <3>2 DEF SavedIsSelected
  <2> QED BY <1>a, <2>3, <2>4, <2>5 DEF RerunInv, Open, Exists
<1>9. ASSUME NEW d, NEW s, Toggle(d, s) PROVE RerunInv'
  BY <1>a, <1>9 DEF RerunInv, Toggle
<1>10. ASSUME NEW d \in DOMAIN Departments, CheckboxChanged(d) PROVE RerunInv'
  <2>1. /\ ~NothingWaits /\ saved' = saved /\ at' = at /\ untouched' = untouched
        /\ at # "off"
    BY <1>10 DEF CheckboxChanged, NothingWaits
  <2> QED BY <1>a, <2>1 DEF RerunInv, SavedIsSelected, Open, Exists
<1>11. ASSUME NEW d \in DOMAIN Departments, d < FinalDept, ServicesNext(d) PROVE RerunInv'
  <2> DEFINE st == [state EXCEPT !.services = Closure(Synced(d, boxes[d]))]
  <2>1. /\ saved' = saved /\ untouched' = untouched /\ at = "services" /\ at' = "services"
        /\ dept = d /\ dept' = d + 1 /\ state' = Normalize(st) /\ Push(d + 1, state'.services)
    BY <1>11 DEF ServicesNext, Push
  <2>2. d + 1 \in DOMAIN Departments
    BY <1>11, DepartmentServices
  <2>3. ASSUME SavedIsSelected PROVE SavedIsSelected'
    <3>1. OnStack(d)
      BY <2>1, DepartmentServices DEF OnStack
    <3>2. saved.services \subseteq state'.services /\ AllFromCatalog'
      BY <2>1, <2>3, <3>1, CheckedHasSaved DEF AllFromCatalog
    <3>3. NothingWaits' /\ boxes'[d + 1] = state'.services \cap Visible(d + 1)
      BY <2>1, <2>2, <2>3 DEF Push, NothingWaits, SavedIsSelected, WizardTypeOK
    <3>4. ASSUME NEW e \in DOMAIN Departments, OnStack(e)', e # d + 1
          PROVE  OnStack(e) /\ boxes'[e] = boxes[e]
      BY <2>1, <3>4, DepartmentServices DEF Push, OnStack, WizardTypeOK
    <3> QED BY <2>1, <2>3, <3>2, <3>3, <3>4 DEF SavedIsSelected
  <2>4. ASSUME untouched, AllFromCatalog, NothingWaits PROVE AllFromCatalog' /\ NothingWaits'
    <3>1. st \in StateValue /\ st.models = state.models
      BY <2>1, SyncedTyped, ClosureIsClosed DEF WizardTypeOK, StateValue
    <3> HIDE DEF st
    <3>2. AllFromCatalog'
      BY <2>1, <2>4, <3>1, NormalizeDoes DEF AllFromCatalog
    <3>3. NothingWaits'
      BY <2>1, <2>4 DEF Push, NothingWaits, WizardTypeOK
    <3> QED BY <3>2, <3>3
  <2> QED BY <1>a, <2>1, <2>3, <2>4 DEF RerunInv, Open, Exists
<1>12. CASE UNCHANGED wizardVars
  BY <1>12 DEF wizardVars, RerunInv, SavedHasModels, SavedIsSelected, AllFromCatalog, NothingWaits,
               OnStack, Open, Exists
<1>13. (Quit \/ Finished) => Exit
  BY DEF Quit, Finished
<1>14. /\ Apply => Submit("confirm") /\ Open /\ at = "confirm"
       /\ CtrlS => Submit("ctrl+s") /\ Open
  BY DEF Apply, CtrlS, Open
<1>15. (Apply \/ CtrlS) => RerunInv'
  BY <1>5, <1>14
<1> QED BY <1>1, <1>2, <1>3, <1>4, <1>6, <1>7, <1>8, <1>9, <1>10, <1>11, <1>12, <1>13,
           <1>15 DEF WizardNext

(* An unattended run without a model flag reads the saved services back.     *)
LEMMA HeadlessKeeps ==
  ASSUME WizardTypeOK, SavedHasModels, NEW fromState \in BOOLEAN, NEW cliModel \in BOOLEAN,
         ~cliModel, Headless(fromState, cliModel)
  PROVE  saved.services \subseteq applied'.services
<1> DEFINE base == IF fromState THEN saved ELSE [saved EXCEPT !.models = Fresh.models]
           loaded == Expand(base)
           ready == NormalizeDrop(loaded)
<1>1. /\ base \in StateValue /\ base.services = saved.services
      /\ base.models = IF fromState THEN saved.models ELSE Fresh.models
  BY FreshTyped DEF WizardTypeOK, StateValue
<1>2. applied'.services = DropFiles(ready).services
  BY DEF Headless, ConfigOf, Expand
<1> HIDE DEF base
<1>3. /\ loaded \in StateValue /\ loaded.models = base.models
      /\ saved.services \subseteq loaded.services
  BY <1>1, ExpandDoes
<1> HIDE DEF loaded
<1>4. ready \in StateValue /\ ready.services = loaded.services \ Servers(Unfiled(loaded))
  BY <1>3, NormalizeDropDoes
<1> HIDE DEF ready
<1>5. applied'.services = ready.services
  BY <1>2, <1>4, DropFilesDoes
<1>6. ASSUME NEW r \in Unfiled(loaded) PROVE ServiceOf[r] \notin saved.services
  <2>1. r \in Role /\ ResolvedFile(base.models[r]) = None
    BY <1>3, <1>6 DEF Unfiled
  <2>2. CASE fromState
    BY <1>1, <2>1, <2>2 DEF SavedHasModels
  <2>3. CASE ~fromState
    <3>1. base.models[r].id = "catalog"
      BY <1>1, <2>1, <2>3 DEF Fresh
    <3> QED BY <2>1, <3>1 DEF ResolvedFile, None
  <2> QED BY <2>2, <2>3
<1> QED BY <1>3, <1>4, <1>5, <1>6 DEF Servers

(* A run in which the operator changes nothing, on the screens or unattended, *)
(* removes no service of the last one: what was saved keeps its models, and every *)
(* screen that is opened shows it as checked.                                *)
THEOREM RerunsKeepServices == WizardSpec => RerunKeeps
<1> DEFINE Keeps ==
      applied' # applied /\ untouched' /\ Exists(saved) =>
        saved.services \subseteq applied'.services
<1>1. WizardInit => RerunInv
  BY DEF WizardInit, RerunInv, SavedHasModels, NothingWaits, Open
<1>2. WizardTypeOK /\ RerunInv /\ [WizardNext]_wizardVars => [Keeps]_wizardVars
  <2> SUFFICES ASSUME WizardTypeOK, RerunInv, [WizardNext]_wizardVars PROVE Keeps
    OBVIOUS
  <2>1. ASSUME NEW by, Submit(by), Open PROVE Keeps
    <3> SUFFICES ASSUME applied' # applied, untouched', Exists(saved)
                 PROVE  saved.services \subseteq applied'.services
      OBVIOUS
    <3>1. SavedIsSelected
      BY <2>1 DEF Submit, RerunInv
    <3>2. applied'.services = state'.services
      BY <2>1 DEF Submit, ConfigOf
    <3> QED BY <2>1, <3>1, <3>2, SubmitKeeps
  <2>2. ASSUME NEW fromState \in BOOLEAN, NEW cliModel \in BOOLEAN, Headless(fromState, cliModel)
        PROVE  Keeps
    <3>1. untouched' => ~cliModel
      BY <2>2 DEF Headless
    <3> QED BY <2>2, <3>1, HeadlessKeeps DEF RerunInv
  <2>3. (Apply => Submit("confirm") /\ Open) /\ (CtrlS => Submit("ctrl+s") /\ Open)
    BY DEF Apply, CtrlS, Open
  <2>4. CASE applied' = applied
    BY <2>4
  <2>5. \/ Apply \/ CtrlS \/ applied' = applied
        \/ \E fromState, cliModel \in BOOLEAN : Headless(fromState, cliModel)
    BY DEF WizardNext, wizardVars, Launch, Back, Quit, Exit, ServicesDone, Finished,
           DomainNext, ModelNext, Toggle, CheckboxChanged, ServicesNext
  <2> QED BY <2>1, <2>2, <2>3, <2>4, <2>5
<1> QED BY <1>1, <1>2, WizardInitTyped, WizardStepTyped, RerunStep, PTL DEF WizardSpec, RerunKeeps

-----------------------------------------------------------------------------
(* A sequence over a set is one over any larger set.                         *)
LEMMA WiderSeq ==
  ASSUME NEW A, NEW B, A \subseteq B, NEW q \in Seq(A)
  PROVE  q \in Seq(B)
<1>1. Len(q) \in Nat /\ q \in [1 .. Len(q) -> A]
  BY LenProperties
<1>2. q \in [1 .. Len(q) -> B]
  BY <1>1
<1> QED BY <1>1, <1>2, SeqDef

(* Neither the closure nor the normalisation brings in or takes out a vector   *)
(* provider beside one that is there.                                       *)
LEMMA ProvidersKeepPick ==
  ASSUME NEW S \in SUBSET Service, NEW p \in Exclusive, S \cap Exclusive = {p}, NEW caps
  PROVE  WithProviders(S, caps) \cap Exclusive = {p}
<1>1. ASSUME NEW c \in caps, NEW e \in Chosen(S, c), e \in Exclusive PROVE e \in S
  <2>1. Provides[e] = Provides[p]
    BY <1>1, ExclusiveAssumption
  <2>2. e \in Providers(c)
    BY <1>1, ChosenProvides
  <2>3. p \in Providers(c) \cap S
    BY <2>1, <2>2 DEF Providers
  <2>4. Chosen(S, c) \subseteq S
    BY <2>3, ChosenProvides
  <2> QED BY <2>4
<1> QED BY <1>1 DEF WithProviders

(* By induction on the turns of its loop.                                    *)
LEMMA ClosureKeepsPick ==
  ASSUME NEW S \in SUBSET Service, NEW p \in Exclusive, S \cap Exclusive = {p}
  PROVE  Closure(S) \cap Exclusive = {p}
<1> DEFINE Kept == {T \in SUBSET Service : T \cap Exclusive = {p}}
<1>1. ASSUME NEW T \in Kept PROVE Pass(T) \in Kept
  <2> DEFINE deps == Dependencies(Siblings(T))
             fed == WithProviders(deps, Needed(deps))
  <2>1. Siblings(T) \in SUBSET Service /\ Siblings(T) \cap Exclusive = {p}
    BY ExclusiveAssumption DEF Siblings
  <2>2. deps \in SUBSET Service /\ deps \cap Exclusive = {p}
    BY <2>1, ExclusiveAssumption, ServiceAssumption DEF Dependencies
  <2> HIDE DEF deps
  <2>3. fed \in SUBSET Service /\ fed \cap Exclusive = {p}
    BY <2>2, WithProvidersGrows, ProvidersKeepPick
  <2> HIDE DEF fed
  <2>4. WithProviders(fed, Required(T)) \cap Exclusive = {p}
    BY <2>3, ProvidersKeepPick
  <2>5. Pass(T) = WithProviders(fed, Required(T))
    BY DEF Pass, fed, deps
  <2> QED BY <2>4, <2>5, PassGrows
<1>2. Kept \in SUBSET (SUBSET Service) /\ S \in Kept
  OBVIOUS
<1> HIDE DEF Kept
<1>3. Closure(S) \in Kept
  BY <1>1, <1>2, ClosureKeeps
<1> QED BY <1>3 DEF Kept

(* A vector provider serves no model.                                        *)
LEMMA NormalizeKeepsPick ==
  ASSUME NEW st \in StateValue
  PROVE  /\ Normalize(st).services \cap Exclusive = st.services \cap Exclusive
         /\ NormalizeDrop(st).services \cap Exclusive = st.services \cap Exclusive
<1>1. \A R \in SUBSET Role : Servers(R) \cap Exclusive = {}
  BY ExclusiveAssumption DEF Servers
<1>2. Unfiled(st) \in SUBSET Role
  BY DEF Unfiled
<1> QED BY <1>1, <1>2, NormalizeDoes, NormalizeDropDoes

-----------------------------------------------------------------------------
(* The events that the program posted: none checks a vector provider but the   *)
(* picked one.                                                              *)
OwnEvents(d, p) ==
  {e \in Visible(d) \X BOOLEAN \X {FALSE} :
     p # None /\ e[2] /\ e[1] \in Exclusive => e[1] = p}

ShowsPick(d) == picked # None /\ picked \in Visible(d) /\ OnStack(d)

(* A screen's boxes agree with the pick, and so does what waits there.        *)
Settling(d) ==
  /\ queue[d] \in Seq(OwnEvents(d, picked))
  /\ ShowsPick(d) => boxes[d] \cap Exclusive = {picked}

(* The operator has turned the box of s and nothing else waits.              *)
Turned(d, s) ==
  /\ queue[d] = <<<<s, s \in boxes[d], TRUE>>>>
  /\ dept = d /\ at \in {"services", "install"}
  /\ ShowsPick(d) => (boxes[d] \cap Exclusive) \ {s} = {picked} \ {s}

ScreenOK(d) == Settling(d) \/ \E s \in Visible(d) : Turned(d, s)

PickIsSelected ==
  picked # None =>
    /\ picked \in Exclusive /\ state.services \cap Exclusive = {picked}
    /\ \E d \in DOMAIN Departments : picked \in Visible(d)

BoxesAreVisible == \A d \in DOMAIN Departments : boxes[d] \subseteq Visible(d)
GoneAreEmpty ==
  \A d \in DOMAIN Departments : ~OnStack(d) => queue[d] = <<>>

PickInv ==
  /\ BoxesAreVisible /\ GoneAreEmpty
  /\ at = "off" => picked = None
  /\ ~hasty => PickIsSelected /\ \A d \in DOMAIN Departments : ScreenOK(d)

(* A screen on which nothing waits, and which does not show the pick.        *)
LEMMA EmptySettles ==
  ASSUME NEW d, queue[d] = <<>>, ~ShowsPick(d) PROVE Settling(d)
BY EmptySeq DEF Settling

(* Where the pick is on a settling screen, a reading of its boxes keeps it.    *)
LEMMA SyncedKeepsPick ==
  ASSUME WizardTypeOK, BoxesAreVisible, PickIsSelected, picked # None,
         NEW d \in DOMAIN Departments, OnStack(d),
         ShowsPick(d) => boxes[d] \cap Exclusive = {picked}
  PROVE  Synced(d, boxes[d]) \cap Exclusive = {picked}
<1>1. /\ boxes[d] \subseteq Visible(d) /\ picked \in Exclusive
      /\ state.services \cap Exclusive = {picked}
  BY DEF BoxesAreVisible, PickIsSelected
<1>2. CASE picked \in Visible(d)
  BY <1>1, <1>2 DEF ShowsPick, Synced
<1>3. CASE picked \notin Visible(d)
  <2>1. Visible(d) \cap Exclusive = {}
    BY <1>1, <1>3, ExclusiveAssumption DEF PickIsSelected
  <2> QED BY <1>1, <2>1 DEF Synced
<1> QED BY <1>2, <1>3

(* So does the selection that Next reads and normalises.                     *)
LEMMA CheckedKeepsPick ==
  ASSUME WizardTypeOK, BoxesAreVisible, PickIsSelected, NEW d \in DOMAIN Departments, OnStack(d),
         ShowsPick(d) => boxes[d] \cap Exclusive = {picked}
  PROVE  LET st == [state EXCEPT !.services = Closure(Synced(d, boxes[d]))]
         IN  /\ st \in StateValue /\ Normalize(st) \in StateValue
             /\ picked # None => Normalize(st).services \cap Exclusive = {picked}
<1> DEFINE checked == Synced(d, boxes[d])
           st == [state EXCEPT !.services = Closure(checked)]
<1>1. checked \in SUBSET Service
  BY SyncedTyped DEF WizardTypeOK
<1>2. picked # None => checked \cap Exclusive = {picked} /\ picked \in Exclusive
  BY SyncedKeepsPick DEF PickIsSelected
<1> HIDE DEF checked
<1>3. /\ Closure(checked) \in SUBSET Service
      /\ picked # None => Closure(checked) \cap Exclusive = {picked}
  BY <1>1, <1>2, ClosureIsClosed, ClosureKeepsPick
<1>4. st \in StateValue /\ st.services = Closure(checked)
  BY <1>3 DEF WizardTypeOK, StateValue
<1> HIDE DEF st
<1>5. /\ Normalize(st) \in StateValue
      /\ Normalize(st).services \cap Exclusive = st.services \cap Exclusive
  BY <1>4, NormalizeDoes, NormalizeKeepsPick
<1> QED BY <1>3, <1>4, <1>5 DEF st, checked

-----------------------------------------------------------------------------
(* The expansion and normalisation of a submitted state keep the pick.       *)
LEMMA SubmitKeepsPick ==
  ASSUME WizardTypeOK, PickIsSelected, NEW by, Submit(by)
  PROVE  PickIsSelected'
<1>1. picked' = picked /\ state' = NormalizeDrop(Expand(state)) /\ state \in StateValue
  BY DEF Submit, ForSubmit, Expand, WizardTypeOK
<1>2. Expand(state) \in StateValue /\ Expand(state).services = Closure(state.services)
  BY <1>1, ExpandDoes
<1>3. state'.services \cap Exclusive = Expand(state).services \cap Exclusive
  BY <1>1, <1>2, NormalizeKeepsPick
<1>4. state.services \in SUBSET Service
  BY <1>1 DEF StateValue
<1> QED BY <1>1, <1>2, <1>3, <1>4, ClosureKeepsPick DEF PickIsSelected

(* A screen that a step leaves as it is.                                     *)
LEMMA StillSettling ==
  ASSUME NEW d, Settling(d), queue'[d] = queue[d], boxes'[d] = boxes[d], picked' = picked,
         OnStack(d)' => OnStack(d)
  PROVE  Settling(d)'
BY DEF Settling, ShowsPick

(* A queue of one event, and the fields of the event of a turned box.        *)
LEMMA OnlyEvent ==
  ASSUME NEW event, NEW q, q = <<event>>
  PROVE  Head(q) = event /\ Tail(q) = <<>>
OBVIOUS

LEMMA TurnedEvent ==
  ASSUME NEW s, NEW S, NEW q, q = <<<<s, s \in S, TRUE>>>>
  PROVE  Tail(q) = <<>> /\ Head(q)[1] = s /\ (Head(q)[2] <=> s \in S) /\ Head(q)[3]
<1>1. CASE s \in S
  <2>1. (s \in S) = TRUE
    BY <1>1
  <2>2. q = <<<<s, TRUE, TRUE>>>>
    BY <2>1, Zenon
  <2>3. Head(q) = <<s, TRUE, TRUE>> /\ Tail(q) = <<>>
    BY <2>2, OnlyEvent, Zenon
  <2>4. <<s, TRUE, TRUE>>[1] = s /\ <<s, TRUE, TRUE>>[2] = TRUE /\ <<s, TRUE, TRUE>>[3] = TRUE
    BY Zenon
  <2> QED BY <1>1, <2>3, <2>4, Zenon
<1>2. CASE s \notin S
  <2>1. (s \in S) = FALSE
    BY <1>2
  <2>2. q = <<<<s, FALSE, TRUE>>>>
    BY <2>1, Zenon
  <2>3. Head(q) = <<s, FALSE, TRUE>> /\ Tail(q) = <<>>
    BY <2>2, OnlyEvent, Zenon
  <2>4. <<s, FALSE, TRUE>>[1] = s /\ <<s, FALSE, TRUE>>[2] = FALSE /\ <<s, FALSE, TRUE>>[3] = TRUE
    BY Zenon
  <2> QED BY <1>2, <2>3, <2>4, Zenon
<1> QED BY <1>1, <1>2

(* What on_checkbox_changed leaves when it handles one of its own events, or   *)
(* the only event that the operator's turn has posted.                       *)
LEMMA HandlingKeeps ==
  ASSUME WizardTypeOK, PickInv, ~hasty, NEW d \in DOMAIN Departments, CheckboxChanged(d)
  PROVE  /\ PickIsSelected'
         /\ \A e \in DOMAIN Departments : ScreenOK(e)'
<1> DEFINE event == Head(queue[d])
           chosen == AfterPick(d, event, Synced(d, boxes[d]))
           new == Closure(chosen) \cap Visible(d)
           posted == Posted(d, boxes[d], chosen)
           posted2 == Posted(d, chosen, new)
           Own == OwnEvents(d, picked')
<1>1. /\ state' = [state EXCEPT !.services = Closure(chosen)]
      /\ boxes' = [boxes EXCEPT ![d] = new]
      /\ queue' = [queue EXCEPT ![d] = Tail(@) \o posted \o posted2]
      /\ picked' = CASE event[1] \in Exclusive /\ event[2] /\ event[3] -> event[1]
                     [] event[1] = picked /\ ~event[2] /\ event[3] -> None
                     [] OTHER -> picked
      /\ queue[d] # <<>> /\ at # "off" /\ at' = at /\ dept' = dept
  BY DEF CheckboxChanged
<1>2. BoxesAreVisible /\ PickIsSelected /\ OnStack(d) /\ ScreenOK(d)
  BY <1>1 DEF PickInv, GoneAreEmpty
<1>3. Synced(d, boxes[d]) \in SUBSET Service /\ chosen \in SUBSET Service
  BY SyncedTyped DEF WizardTypeOK, AfterPick
<1>4. None \notin Service /\ Visible(d) \in SUBSET Service /\ Exclusive \subseteq Service
  BY SelectionAssumption, ExclusiveAssumption, DepartmentServices DEF None
(* The selection has the pick; what waits is the program's; on the other       *)
(* screens there is nothing new to show.                                    *)
<1>5. /\ picked' # None => chosen \cap Exclusive = {picked'}
      /\ picked' # None =>
           picked' \in Exclusive /\ \E e \in DOMAIN Departments : picked' \in Visible(e)
      /\ Tail(queue[d]) \in Seq(Own)
      /\ \A e \in DOMAIN Departments \ {d} : ScreenOK(e)'
  <2>1. ASSUME NEW e \in DOMAIN Departments \ {d}
        PROVE  queue'[e] = queue[e] /\ boxes'[e] = boxes[e] /\ OnStack(e)' = OnStack(e)
    BY <1>1, <2>1 DEF OnStack, WizardTypeOK
  <2>2. CASE Settling(d)
    <3>1. /\ queue[d] \in Seq(OwnEvents(d, picked))
          /\ ShowsPick(d) => boxes[d] \cap Exclusive = {picked}
      BY <2>2 DEF Settling
    <3>2. event \in OwnEvents(d, picked) /\ Tail(queue[d]) \in Seq(OwnEvents(d, picked))
      BY <1>1, <3>1, HeadTailProperties
    <3>3. /\ event[3] = FALSE
          /\ picked # None /\ event[2] /\ event[1] \in Exclusive => event[1] = picked
      BY <3>2 DEF OwnEvents
    <3>4. picked' = picked
      BY <1>1, <3>3
    <3>5. picked # None => Synced(d, boxes[d]) \cap Exclusive = {picked}
      BY <1>2, <3>1, SyncedKeepsPick DEF PickInv
    <3>6. picked # None => chosen \cap Exclusive = {picked}
      BY <3>3, <3>5 DEF AfterPick
    <3>7. \A e \in DOMAIN Departments \ {d} : ScreenOK(e)'
      <4> SUFFICES ASSUME NEW e \in DOMAIN Departments \ {d} PROVE ScreenOK(e)'
        OBVIOUS
      <4>1. CASE Settling(e)
        BY <2>1, <3>4, <4>1, StillSettling DEF ScreenOK
      <4>2. ASSUME NEW s, Turned(e, s) PROVE Turned(e, s)'
        BY <1>1, <2>1, <3>4, <4>2 DEF Turned, ShowsPick
      <4> QED BY <4>1, <4>2 DEF PickInv, ScreenOK
    <3> QED BY <1>2, <3>2, <3>4, <3>6, <3>7 DEF PickIsSelected
  <2>3. CASE \E s \in Visible(d) : Turned(d, s)
    <3>1. PICK s \in Visible(d) : Turned(d, s)
      BY <2>3
    <3>2. dept = d /\ queue[d] = <<<<s, s \in boxes[d], TRUE>>>>
      BY <3>1 DEF Turned
    <3>3. /\ Tail(queue[d]) = <<>>
          /\ event[1] = s /\ event[3] /\ (event[2] <=> s \in boxes[d])
      BY <3>2, TurnedEvent
    <3>4. Tail(queue[d]) \in Seq(Own)
      BY <3>3, EmptySeq
    <3>5. \A e \in DOMAIN Departments \ {d} : Settling(e)
      BY <3>2 DEF PickInv, ScreenOK, Turned
    <3>6. CASE s \in Exclusive /\ s \in boxes[d]
      <4>1. picked' = s
        BY <1>1, <3>3, <3>6
      <4>2. chosen \cap Exclusive = {s}
        BY <3>3, <3>6 DEF AfterPick, Synced
      <4>3. ASSUME NEW e \in DOMAIN Departments \ {d} PROVE ScreenOK(e)'
        <5>1. Visible(e) \cap Exclusive = {}
          BY <3>6, ExclusiveAssumption
        <5>2. OwnEvents(e, picked) \subseteq OwnEvents(e, picked')
          BY <5>1 DEF OwnEvents
        <5>3. queue'[e] \in Seq(OwnEvents(e, picked'))
          BY <2>1, <3>5, <5>2, WiderSeq DEF Settling
        <5> QED BY <3>6, <4>1, <5>1, <5>3 DEF Settling, ShowsPick, ScreenOK
      <4> QED BY <3>4, <3>6, <4>1, <4>2, <4>3
    <3>7. CASE ~(s \in Exclusive /\ s \in boxes[d]) /\ s = picked
      <4>1. picked' = None
        <5>1. s # None /\ s \notin boxes[d]
          BY <1>2, <1>4, <3>7 DEF PickIsSelected
        <5> QED BY <1>1, <3>3, <3>7, <5>1
      <4>2. ASSUME NEW e \in DOMAIN Departments \ {d} PROVE ScreenOK(e)'
        <5>1. OwnEvents(e, picked) \subseteq OwnEvents(e, picked')
          BY <4>1 DEF OwnEvents
        <5>2. queue'[e] \in Seq(OwnEvents(e, picked'))
          BY <2>1, <3>5, <5>1, WiderSeq DEF Settling
        <5> QED BY <4>1, <5>2 DEF Settling, ShowsPick, ScreenOK
      <4> QED BY <3>4, <4>1, <4>2
    <3>8. CASE ~(s \in Exclusive /\ s \in boxes[d]) /\ s # picked
      <4>1. picked' = picked
        BY <1>1, <3>3, <3>8
      <4>2. ShowsPick(d) => boxes[d] \cap Exclusive = {picked}
        BY <3>1, <3>8 DEF Turned
      <4>3. picked # None => Synced(d, boxes[d]) \cap Exclusive = {picked}
        BY <1>2, <4>2, SyncedKeepsPick
      <4>4. chosen = Synced(d, boxes[d])
        BY <3>3, <3>8 DEF AfterPick
      <4>5. \A e \in DOMAIN Departments \ {d} : ScreenOK(e)'
        BY <2>1, <3>5, <4>1, StillSettling DEF ScreenOK
      <4> QED BY <1>2, <3>4, <4>1, <4>3, <4>4, <4>5 DEF PickIsSelected
    <3> QED BY <3>6, <3>7, <3>8
  <2> QED BY <1>2, <2>2, <2>3 DEF ScreenOK
<1>6. posted \in Seq(PostedBy(d, chosen)) /\ posted2 \in Seq(PostedBy(d, new))
  BY PostedIsOwn
<1> HIDE DEF posted, posted2, new, chosen, event
<1>7. picked' # None => /\ Closure(chosen) \cap Exclusive = {picked'}
                        /\ new \cap Exclusive = {picked'} \cap Visible(d)
  <2> SUFFICES ASSUME picked' # None
               PROVE  /\ Closure(chosen) \cap Exclusive = {picked'}
                      /\ new \cap Exclusive = {picked'} \cap Visible(d)
    OBVIOUS
  <2>1. Closure(chosen) \cap Exclusive = {picked'}
    BY <1>3, <1>5, ClosureKeepsPick
  <2> QED BY <1>5, <2>1 DEF new
<1>8. posted \in Seq(Own) /\ posted2 \in Seq(Own)
  <2>1. PostedBy(d, chosen) \subseteq Own
    BY <1>5 DEF PostedBy, OwnEvents
  <2>2. PostedBy(d, new) \subseteq Own
    BY <1>7 DEF PostedBy, OwnEvents
  <2> QED BY <1>6, <2>1, <2>2, WiderSeq
<1>9. queue'[d] \in Seq(Own) /\ boxes'[d] = new /\ state'.services = Closure(chosen)
  <2>1. Tail(queue[d]) \o posted \in Seq(Own)
    BY <1>5, <1>8, ConcatProperties
  <2>2. (Tail(queue[d]) \o posted) \o posted2 \in Seq(Own)
    BY <1>8, <2>1, ConcatProperties
  <2> QED BY <1>1, <2>2 DEF WizardTypeOK, StateValue
<1>10. Settling(d)'
  BY <1>5, <1>7, <1>9 DEF Settling, ShowsPick
<1> QED BY <1>5, <1>7, <1>9, <1>10 DEF PickIsSelected, ScreenOK

-----------------------------------------------------------------------------
(* Where no turn of the operator's waits, all screens are settling.           *)
LEMMA NoneTurned ==
  ASSUME PickInv, ~hasty, at = "services" => TogglesHandled(dept), at # "install"
  PROVE  \A d \in DOMAIN Departments : Settling(d)
<1> SUFFICES ASSUME NEW d \in DOMAIN Departments, NEW s, Turned(d, s) PROVE FALSE
  BY DEF PickInv, ScreenOK
<1>1. queue[d] = <<<<s, s \in boxes[d], TRUE>>>> /\ dept = d /\ at = "services"
  BY DEF Turned
<1>2. Head(queue[d])[3] /\ Head(queue[d]) = queue[d][1] /\ 1 \in DOMAIN queue[d]
  <2>1. Head(queue[d])[3]
    BY <1>1, TurnedEvent
  <2> DEFINE event == <<s, s \in boxes[d], TRUE>>
  <2>2. queue[d] = <<event>>
    BY <1>1
  <2> HIDE DEF event
  <2> QED BY <2>1, <2>2
<1> QED BY <1>1, <1>2 DEF TogglesHandled

(* A screen that is put on the stack shows the pick.                         *)
LEMMA PushSettles ==
  ASSUME WizardTypeOK, NEW d \in DOMAIN Departments, Push(d, state'.services), PickIsSelected'
  PROVE  Settling(d)' /\ boxes'[d] \subseteq Visible(d)
<1>1. queue'[d] = <<>> /\ boxes'[d] = state'.services \cap Visible(d)
  BY DEF Push, WizardTypeOK
<1> QED BY <1>1, EmptySeq DEF Settling, ShowsPick, PickIsSelected

(* A box turned while nothing waits on its screen posts one event; handling it *)
(* makes the pick, and every event that is posted then agrees with it.       *)
LEMMA PickStep == WizardTypeOK /\ PickInv /\ [WizardNext]_wizardVars => PickInv'
<1> SUFFICES ASSUME WizardTypeOK, PickInv, [WizardNext]_wizardVars PROVE PickInv'
  OBVIOUS
<1> USE DEF ScreenOK
<1>0. FinalDept \in DOMAIN Departments /\ DOMAIN Departments = 1 .. FinalDept /\ FinalDept \in Nat
  BY DepartmentServices
<1>a. ASSUME boxes' = boxes, queue' = queue, at \in {"off", "domain", "model"},
             at' \in {"off", "domain", "model"}, picked' = picked, hasty' = hasty,
             state'.services = state.services, at' = "off" => at = "off"
      PROVE  PickInv'
  <2>1. \A d \in DOMAIN Departments : ~OnStack(d) /\ ~OnStack(d)'
    BY <1>a DEF OnStack
  <2>2. \A d \in DOMAIN Departments : queue[d] = <<>>
    BY <1>a, <2>1 DEF PickInv, GoneAreEmpty
  <2>3. \A d \in DOMAIN Departments : Settling(d)'
    BY <1>a, <2>1, <2>2, EmptySeq DEF Settling, ShowsPick
  <2> QED BY <1>a, <2>2, <2>3 DEF PickInv, BoxesAreVisible, GoneAreEmpty, PickIsSelected
<1>1. CASE Launch
  <2>1. picked = None /\ at = "off"
    BY <1>1 DEF Launch, PickInv
  <2>2. \A d \in DOMAIN Departments : queue[d] = <<>>
    BY <2>1 DEF PickInv, GoneAreEmpty, OnStack
  <2>3. /\ boxes' = boxes /\ queue' = queue /\ picked' = picked /\ at' = "domain" /\ hasty' = hasty
    BY <1>1 DEF Launch
  <2>4. \A d \in DOMAIN Departments : Settling(d)'
    BY <2>1, <2>2, <2>3, EmptySeq DEF Settling, ShowsPick
  <2> QED BY <2>1, <2>2, <2>3, <2>4 DEF PickInv, BoxesAreVisible, GoneAreEmpty, PickIsSelected
<1>2. CASE Back
  <2>1. /\ state' = state /\ picked' = picked /\ hasty' = hasty /\ at # "install" /\ at' # "install"
        /\ at' # "off" /\ (at = "services" => TogglesHandled(dept))
    BY <1>2 DEF Back
  <2>2. ASSUME NEW d \in DOMAIN Departments, OnStack(d)'
        PROVE  OnStack(d) /\ boxes'[d] = boxes[d] /\ queue'[d] = queue[d]
    BY <1>0, <1>2, <2>2 DEF Back, OnStack, Gone, WizardTypeOK
  <2>3. ASSUME NEW d \in DOMAIN Departments, ~OnStack(d)'
        PROVE  queue'[d] = <<>>
    <3>1. CASE OnStack(d)
      BY <1>0, <1>2, <2>3, <3>1 DEF Back, OnStack, Gone, WizardTypeOK
    <3>2. CASE ~OnStack(d)
      <4>1. queue[d] = <<>>
        BY <2>1, <3>2 DEF PickInv, GoneAreEmpty
      <4>2. queue' = queue \/ Gone(1) \/ Gone(dept)
        BY <1>2 DEF Back
      <4> QED BY <4>1, <4>2 DEF Gone, WizardTypeOK
    <3> QED BY <3>1, <3>2
  <2>4. ASSUME NEW d \in DOMAIN Departments PROVE boxes'[d] \subseteq Visible(d)
    <3>1. boxes' = boxes \/ Gone(1) \/ Gone(dept)
      BY <1>2 DEF Back
    <3> QED BY <3>1 DEF Gone, WizardTypeOK, PickInv, BoxesAreVisible
  <2>5. ASSUME ~hasty, NEW d \in DOMAIN Departments PROVE Settling(d)'
    <3>1. CASE OnStack(d)'
      BY <2>1, <2>2, <2>5, <3>1, NoneTurned, StillSettling
    <3>2. CASE ~OnStack(d)'
      BY <2>3, <3>2, EmptySeq DEF Settling, ShowsPick
    <3> QED BY <3>1, <3>2
  <2> QED BY <2>1, <2>3, <2>4, <2>5 DEF PickInv, BoxesAreVisible, GoneAreEmpty, PickIsSelected
<1>3. CASE Exit
  <2>1. picked' = None /\ \A d \in DOMAIN Departments : queue'[d] = <<>> /\ boxes'[d] = {}
    BY <1>3 DEF Exit
  <2>2. \A d \in DOMAIN Departments : Settling(d)'
    BY <2>1, EmptySeq DEF Settling, ShowsPick
  <2> QED BY <2>1, <2>2 DEF PickInv, BoxesAreVisible, GoneAreEmpty, PickIsSelected
<1>4. CASE ServicesDone
  <2>1. /\ boxes' = boxes /\ queue' = queue /\ at = "services" /\ dept = FinalDept /\ dept' = dept
        /\ at' \in {"services", "confirm"} /\ TogglesHandled(dept)
        /\ picked' = picked /\ hasty' = hasty
    BY <1>4 DEF ServicesDone
  <2>2. \A d \in DOMAIN Departments : OnStack(d)' = OnStack(d)
    BY <2>1 DEF OnStack
  <2>3. ASSUME ~hasty PROVE PickIsSelected' /\ \A d \in DOMAIN Departments : Settling(d)'
    <3> DEFINE st == [state EXCEPT !.services = Closure(Synced(FinalDept, boxes[FinalDept]))]
    <3>1. \A d \in DOMAIN Departments : Settling(d)
      BY <2>1, <2>3, NoneTurned
    <3>2. OnStack(FinalDept) /\ (ShowsPick(FinalDept) => boxes[FinalDept] \cap Exclusive = {picked})
      BY <1>0, <2>1, <3>1 DEF OnStack, Settling
    <3>3. /\ Normalize(st) \in StateValue
          /\ picked # None => Normalize(st).services \cap Exclusive = {picked}
      BY <1>0, <2>3, <3>2, CheckedKeepsPick DEF PickInv
    <3>4. state' = NormalizeDrop(Normalize(st))
      BY <1>4 DEF ServicesDone
    <3> HIDE DEF st
    <3>5. picked # None => state'.services \cap Exclusive = {picked}
      BY <3>3, <3>4, NormalizeKeepsPick
    <3>6. PickIsSelected'
      BY <2>1, <2>3, <3>5 DEF PickInv, PickIsSelected
    <3> QED BY <2>1, <2>2, <3>1, <3>6, StillSettling
  <2> QED BY <2>1, <2>2, <2>3 DEF PickInv, BoxesAreVisible, GoneAreEmpty
<1>5. ASSUME NEW by, Submit(by), Open, by # "confirm" \/ at = "confirm" PROVE PickInv'
  <2>1. /\ dept' = dept /\ boxes' = boxes /\ queue' = queue /\ picked' = picked /\ hasty' = hasty
        /\ at' = "install" \/ at' = at \/ (at = "confirm" /\ at' = "services")
    BY <1>5 DEF Submit
  <2>2. \A d \in DOMAIN Departments : OnStack(d)' => OnStack(d)
    BY <2>1 DEF OnStack, PickInv, GoneAreEmpty
  <2>3. ~hasty => PickIsSelected'
    BY <1>5, SubmitKeepsPick DEF PickInv
  <2>4. ASSUME ~hasty, NEW d \in DOMAIN Departments PROVE ScreenOK(d)'
    <3>1. CASE Settling(d)
      BY <2>1, <2>2, <3>1, StillSettling
    <3>2. ASSUME NEW s \in Visible(d), Turned(d, s) PROVE Turned(d, s)'
      <4>1. ShowsPick(d)' => ShowsPick(d)
        BY <2>1, <2>2 DEF ShowsPick
      <4>2. at' \in {"services", "install"}
        BY <2>1, <3>2 DEF Turned
      <4> QED BY <2>1, <3>2, <4>1, <4>2 DEF Turned
    <3> QED BY <2>4, <3>1, <3>2 DEF PickInv
  <2>5. GoneAreEmpty'
    BY <2>1 DEF PickInv, GoneAreEmpty, OnStack
  <2> QED BY <1>5, <2>1, <2>3, <2>4, <2>5 DEF PickInv, BoxesAreVisible, Open
<1>6. ASSUME NEW fromState, NEW cliModel, Headless(fromState, cliModel) PROVE PickInv'
  BY <1>6, <1>a DEF Headless
<1>7. ASSUME NEW domain, NEW secrets, DomainNext(domain, secrets) PROVE PickInv'
  <2>1. state'.services = state.services
    BY <1>7 DEF DomainNext, WizardTypeOK, StateValue
  <2> QED BY <1>7, <1>a, <2>1 DEF DomainNext
<1>8. ASSUME NEW models \in [Role -> Model], ModelNext(models) PROVE PickInv'
  <2> DEFINE st == [state EXCEPT !.models = models]
  <2>1. models \in [Role -> ModelValue]
    BY DEF Model, ModelValue
  <2>2. st \in StateValue /\ st.services = state.services
    BY <2>1 DEF WizardTypeOK, StateValue
  <2>3. /\ at = "model" /\ at' = "services" /\ dept' = 1 /\ picked' = picked /\ hasty' = hasty
        /\ state' = Normalize(st) /\ Push(1, state'.services)
    BY <1>8 DEF ModelNext, Push
  <2> HIDE DEF st
  <2>4. state'.services \cap Exclusive = state.services \cap Exclusive
    BY <2>2, <2>3, NormalizeKeepsPick
  <2>5. ~hasty => PickIsSelected'
    BY <2>3, <2>4 DEF PickInv, PickIsSelected
  <2>6. 1 \in DOMAIN Departments
    BY DepartmentServices
  <2>7. ASSUME NEW d \in DOMAIN Departments, d # 1
        PROVE  queue'[d] = <<>> /\ boxes'[d] = boxes[d] /\ ~OnStack(d)'
    <3>1. queue[d] = <<>>
      BY <2>3 DEF PickInv, GoneAreEmpty, OnStack
    <3> QED BY <1>0, <2>3, <2>7, <3>1 DEF Push, OnStack, WizardTypeOK
  <2>8. ASSUME NEW d \in DOMAIN Departments, d # 1 PROVE Settling(d)'
    BY <2>7, <2>8, EmptySeq DEF Settling, ShowsPick
  <2>9. boxes'[1] \subseteq Visible(1) /\ OnStack(1)'
    BY <1>0, <2>3, <2>6 DEF Push, WizardTypeOK, OnStack
  <2>10. ~hasty => Settling(1)'
    BY <2>3, <2>5, <2>6, PushSettles
  <2> QED BY <2>3, <2>5, <2>7, <2>8, <2>9, <2>10 DEF PickInv, BoxesAreVisible, GoneAreEmpty
<1>9. ASSUME NEW d \in DOMAIN Departments, NEW s \in Visible(d), Toggle(d, s) PROVE PickInv'
  <2>1. /\ at = "services" /\ dept = d /\ at' = at /\ dept' = dept /\ state' = state
        /\ picked' = picked /\ hasty' = (hasty \/ queue[d] # <<>>)
        /\ boxes' = [boxes EXCEPT ![d] = IF s \in @ THEN @ \ {s} ELSE @ \cup {s}]
        /\ queue' = [queue EXCEPT ![d] = Append(@, <<s, s \notin boxes[d], TRUE>>)]
    BY <1>9 DEF Toggle
  <2>2. /\ boxes'[d] = IF s \in boxes[d] THEN boxes[d] \ {s} ELSE boxes[d] \cup {s}
        /\ queue'[d] = Append(queue[d], <<s, s \notin boxes[d], TRUE>>)
        /\ \A e \in DOMAIN Departments \ {d} : boxes'[e] = boxes[e] /\ queue'[e] = queue[e]
        /\ \A e \in DOMAIN Departments : OnStack(e)' <=> OnStack(e)
        /\ OnStack(d)
    <3>1. OnStack(d) /\ \A e \in DOMAIN Departments : OnStack(e)' <=> OnStack(e)
      BY <1>0, <2>1 DEF OnStack
    <3>2. DOMAIN boxes = DOMAIN Departments /\ DOMAIN queue = DOMAIN Departments
      BY DEF WizardTypeOK
    <3> QED BY <2>1, <3>1, <3>2, Zenon
  <2>3. ASSUME ~hasty, queue[d] = <<>> PROVE Turned(d, s)'
    <3>1. Settling(d)
      <4>1. \A x : <<x>> # <<>>
        OBVIOUS
      <4> QED BY <2>3, <4>1 DEF PickInv, Turned
    <3>2. queue'[d] = <<<<s, s \notin boxes[d], TRUE>>>>
      BY <2>2, <2>3
    <3>3. (s \notin boxes[d]) = (s \in boxes'[d])
      BY <2>2
    <3>4. queue'[d] = <<<<s, s \in boxes'[d], TRUE>>>>
      BY <3>2, <3>3, Zenon
    <3>5. ShowsPick(d)' => (boxes'[d] \cap Exclusive) \ {s} = {picked} \ {s}
      BY <2>1, <2>2, <3>1 DEF Settling, ShowsPick
    <3> QED BY <2>1, <3>4, <3>5 DEF Turned
  <2>4. ASSUME ~hasty, NEW e \in DOMAIN Departments \ {d} PROVE Settling(e)'
    <3>1. Settling(e)
      BY <2>1, <2>4 DEF PickInv, Turned
    <3> QED BY <2>1, <2>2, <3>1, StillSettling
  <2>5. \A e \in DOMAIN Departments : boxes'[e] \subseteq Visible(e)
    BY <2>2 DEF PickInv, BoxesAreVisible
  <2>6. GoneAreEmpty'
    BY <2>1, <2>2 DEF PickInv, GoneAreEmpty
  <2>7. ~hasty => PickIsSelected'
    BY <2>1 DEF PickInv, PickIsSelected
  <2> QED BY <2>1, <2>3, <2>4, <2>5, <2>6, <2>7 DEF PickInv, BoxesAreVisible
<1>10. ASSUME NEW d \in DOMAIN Departments, CheckboxChanged(d) PROVE PickInv'
  <2>1. /\ at' = at /\ dept' = dept /\ hasty' = hasty
        /\ queue[d] # <<>> /\ at # "off"
        /\ boxes'[d] \subseteq Visible(d)
        /\ \A e \in DOMAIN Departments \ {d} : boxes'[e] = boxes[e] /\ queue'[e] = queue[e]
    BY <1>10 DEF CheckboxChanged, WizardTypeOK
  <2>2. \A e \in DOMAIN Departments : e # d => OnStack(e)' = OnStack(e)
    BY <2>1 DEF OnStack
  <2>3. OnStack(d)' \/ queue'[d] = <<>>
    BY <2>1 DEF PickInv, GoneAreEmpty, OnStack
  <2>4. BoxesAreVisible' /\ GoneAreEmpty'
    BY <2>1, <2>2, <2>3 DEF PickInv, BoxesAreVisible, GoneAreEmpty
  <2> QED BY <1>10, <2>1, <2>4, HandlingKeeps DEF PickInv
<1>11. ASSUME NEW d \in DOMAIN Departments, d < FinalDept, ServicesNext(d) PROVE PickInv'
  <2> DEFINE st == [state EXCEPT !.services = Closure(Synced(d, boxes[d]))]
  <2>1. /\ at = "services" /\ at' = "services" /\ dept = d /\ dept' = d + 1 /\ TogglesHandled(dept)
        /\ state' = Normalize(st) /\ Push(d + 1, state'.services)
        /\ picked' = picked /\ hasty' = hasty
    BY <1>11 DEF ServicesNext, Push
  <2>2. d + 1 \in DOMAIN Departments /\ OnStack(d) /\ OnStack(d + 1)'
    BY <1>0, <1>11, <2>1 DEF OnStack
  <2>3. ASSUME NEW e \in DOMAIN Departments, e # d + 1
        PROVE  queue'[e] = queue[e] /\ boxes'[e] = boxes[e] /\ OnStack(e)' = OnStack(e)
    BY <1>0, <2>1, <2>3 DEF Push, OnStack, WizardTypeOK
  <2>4. ASSUME ~hasty PROVE PickIsSelected' /\ \A e \in DOMAIN Departments : Settling(e)'
    <3>1. \A e \in DOMAIN Departments : Settling(e)
      BY <2>1, <2>4, NoneTurned
    <3>2. picked # None => state'.services \cap Exclusive = {picked}
      BY <2>1, <2>2, <2>4, <3>1, CheckedKeepsPick DEF PickInv, Settling
    <3>3. PickIsSelected'
      BY <2>1, <2>4, <3>2 DEF PickInv, PickIsSelected
    <3> QED BY <2>1, <2>2, <2>3, <3>1, <3>3, PushSettles, StillSettling
  <2>5. boxes'[d + 1] \subseteq Visible(d + 1)
    BY <2>1, <2>2 DEF Push, WizardTypeOK
  <2> QED BY <2>1, <2>2, <2>3, <2>4, <2>5 DEF PickInv, BoxesAreVisible, GoneAreEmpty
<1>12. CASE UNCHANGED wizardVars
  BY <1>12 DEF wizardVars, PickInv, BoxesAreVisible, GoneAreEmpty, PickIsSelected, Settling, Turned,
               ShowsPick, OnStack
<1>13. (Quit \/ Finished) => Exit
  BY DEF Quit, Finished
<1>14. /\ Apply => Submit("confirm") /\ Open /\ at = "confirm"
       /\ CtrlS => Submit("ctrl+s") /\ Open
  BY DEF Apply, CtrlS, Open
<1>15. (Apply \/ CtrlS) => PickInv'
  BY <1>5, <1>14
<1> QED BY <1>1, <1>2, <1>3, <1>4, <1>6, <1>7, <1>8, <1>9, <1>10, <1>11, <1>12, <1>13,
           <1>15 DEF WizardNext

(* The vector provider picked last is the only one selected, for any catalog in *)
(* which the providers are alike, while the operator turns no box before the event *)
(* of the last turn is handled.                                              *)
THEOREM ThePickStands == WizardSpec => []PickStands
<1>1. WizardInit => PickInv
  <2> SUFFICES ASSUME WizardInit PROVE PickInv
    OBVIOUS
  <2>1. picked = None /\ \A d \in DOMAIN Departments : queue[d] = <<>> /\ boxes[d] = {}
    BY DEF WizardInit
  <2>2. \A d \in DOMAIN Departments : Settling(d)
    BY <2>1, EmptySeq DEF Settling, ShowsPick
  <2> QED BY <2>1, <2>2 DEF PickInv, BoxesAreVisible, GoneAreEmpty, PickIsSelected, ScreenOK
<1>2. PickInv => PickStands
  BY DEF PickInv, PickIsSelected, PickStands, LastPickStands
<1> QED BY <1>1, <1>2, WizardInitTyped, WizardStepTyped, PickStep, PTL DEF WizardSpec

-----------------------------------------------------------------------------
(* Only a worker that runs a step has a child, or the deploy lock.           *)
WorkerState ==
  {r \in [at : {"idle", "loop", "start", "step", "finalize"}, screen : Nat, step : Nat,
          child : {"none", "runs", "hangs", "ended"}, locked : BOOLEAN] :
     r.child # "none" \/ r.locked => r.at = "step"}

RunTypeOK ==
  /\ worker \in [Worker -> WorkerState]
  /\ opened \in Nat /\ mounted \subseteq 1 .. opened /\ opened <= MaxScreens
  /\ runActive \in [Screen -> BOOLEAN]
  /\ secret \in [Screen -> BOOLEAN] /\ backup \in [Screen -> BOOLEAN]
  /\ \A w \in Worker : Busy(w) => worker[w].screen \in 1 .. opened

(* A worker that has not been finalized holds its screen's slot, alone.      *)
SlotHeld ==
  /\ \A w \in Worker : Busy(w) => runActive[worker[w].screen]
  /\ \A v, w \in Worker : Busy(v) /\ Busy(w) /\ worker[v].screen = worker[w].screen => v = w

(* The deploy lock has one holder, and the step's children are the holder's.  *)
LockHeld ==
  /\ \A v, w \in Worker : worker[v].locked /\ worker[w].locked => v = w
  /\ \A w \in Worker : Deploys(w) /\ worker[w].child # "none" => worker[w].locked

RunInv == RunTypeOK /\ SlotHeld /\ LockHeld /\ SecretsGone

-----------------------------------------------------------------------------
(* No screen is up and no worker runs at first.                              *)
LEMMA RunInitOK == RunInit => RunInv
<1> SUFFICES ASSUME RunInit PROVE RunInv
  OBVIOUS
<1>1. \A w \in Worker : worker[w] = Idle /\ ~Busy(w) /\ ~Deploys(w)
  BY DEF RunInit, Busy, Deploys, Idle
<1>2. RunTypeOK
  BY <1>1, ScreensAssumption DEF RunInit, RunTypeOK, WorkerState, Idle
<1> QED BY <1>1, <1>2 DEF RunInv, RunInit, SlotHeld, LockHeld, SecretsGone, Idle

(* A press that starts a worker on a screen finds none there.                *)
LEMMA DispatchTakesSlot ==
  ASSUME RunInv, NEW s \in Screen, BeginRun(s), runActive' = [runActive EXCEPT ![s] = TRUE],
         Dispatch(s), opened' \in Nat, opened <= opened', s \in 1 .. opened'
  PROVE  /\ SlotHeld' /\ LockHeld' /\ worker' \in [Worker -> WorkerState]
         /\ \A w \in Worker : Busy(w)' => worker'[w].screen \in 1 .. opened'
<1>1. PICK w \in Worker : ~Busy(w) /\ worker' = [worker EXCEPT ![w] = Looping(s, 1)]
  BY DEF Dispatch
<1>2. /\ worker \in [Worker -> WorkerState] /\ opened \in Nat
      /\ \A v \in Worker : Busy(v) => worker[v].screen \in 1 .. opened
      /\ runActive \in [Screen -> BOOLEAN] /\ ~runActive[s]
  BY DEF RunInv, RunTypeOK, BeginRun
<1>3. Looping(s, 1) \in WorkerState
  <2>1. s \in Nat
    BY ScreensAssumption DEF Screen
  <2> QED BY <2>1 DEF Looping, WorkerState
<1>4. /\ \A v \in Worker \ {w} : worker'[v] = worker[v]
      /\ worker'[w].at = "loop" /\ worker'[w].screen = s /\ ~worker'[w].locked
      /\ worker'[w].child = "none"
  BY <1>1, <1>2 DEF Looping
<1>5. \A v \in Worker : Busy(v) => worker[v].screen # s
  BY <1>2 DEF RunInv, SlotHeld
<1>6. worker' \in [Worker -> WorkerState]
  BY <1>1, <1>2, <1>3
<1>7. \A v \in Worker : Busy(v)' => worker'[v].screen \in 1 .. opened'
  BY <1>2, <1>4 DEF Busy
<1>8. SlotHeld'
  <2>1. \A v \in Worker : Busy(v)' => runActive'[worker'[v].screen]
    BY <1>2, <1>4 DEF Busy, RunInv, SlotHeld
  <2>2. \A v \in Worker \ {w} : Busy(v)' <=> Busy(v)
    BY <1>4 DEF Busy
  <2>3. \A u, v \in Worker : Busy(u)' /\ Busy(v)' /\ worker'[u].screen = worker'[v].screen => u = v
    BY <1>4, <1>5, <2>2 DEF RunInv, SlotHeld
  <2> QED BY <2>1, <2>3 DEF SlotHeld
<1>9. LockHeld'
  <2>1. \A v \in Worker : worker'[v].locked => v # w /\ worker[v].locked
    BY <1>4
  <2>2. \A v \in Worker : Deploys(v)' /\ worker'[v].child # "none" => v # w /\ Deploys(v)
    BY <1>4 DEF Deploys
  <2> QED BY <1>4, <2>1, <2>2 DEF RunInv, LockHeld
<1> QED BY <1>6, <1>7, <1>8, <1>9

(* What a worker does to its own record: it was busy before, its screen is    *)
(* still its screen, and it has the lock only if it had it or nobody else.    *)
LEMMA WorkerKeepsSlot ==
  ASSUME RunInv, NEW w \in Worker, Busy(w), runActive' = runActive, opened' = opened,
         NEW r \in WorkerState, worker' = [worker EXCEPT ![w] = r],
         r.screen = worker[w].screen,
         r.locked => worker[w].locked \/ LockFree,
         r.at = "step" /\ Steps[r.step] = Deploy /\ r.child # "none" => r.locked
  PROVE  /\ SlotHeld' /\ LockHeld' /\ worker' \in [Worker -> WorkerState]
         /\ \A v \in Worker : Busy(v)' => worker'[v].screen \in 1 .. opened'
<1>1. /\ worker \in [Worker -> WorkerState]
      /\ \A v \in Worker : Busy(v) => worker[v].screen \in 1 .. opened
  BY DEF RunInv, RunTypeOK
<1>2. worker'[w] = r /\ \A v \in Worker \ {w} : worker'[v] = worker[v]
  BY <1>1
<1>3. worker' \in [Worker -> WorkerState]
  BY <1>1
<1>4. \A v \in Worker : worker'[v].screen = worker[v].screen /\ (Busy(v)' => Busy(v))
  BY <1>2 DEF Busy
<1>5. SlotHeld'
  BY <1>4 DEF RunInv, SlotHeld
<1>6. LockHeld'
  <2>1. \A v \in Worker \ {w} : worker'[v].locked => worker[v].locked /\ ~r.locked
    BY <1>2 DEF RunInv, LockHeld, LockFree
  <2>2. \A u, v \in Worker : worker'[u].locked /\ worker'[v].locked => u = v
    BY <1>2, <2>1 DEF RunInv, LockHeld
  <2>3. \A v \in Worker : Deploys(v)' /\ worker'[v].child # "none" => worker'[v].locked
    BY <1>2 DEF RunInv, LockHeld, Deploys
  <2> QED BY <2>2, <2>3 DEF LockHeld
<1> QED BY <1>1, <1>3, <1>4, <1>5, <1>6

(* A step of the worker, of its child or of the watchdog writes that worker's *)
(* record, and the configuration is at most rid of its secrets.               *)
LEMMA WorkerWrites ==
  ASSUME RunInv, NEW w \in Worker,
         WorkerStep(w) \/ ChildHangs(w) \/ ChildEnds(w) \/ Watchdog(w)
  PROVE  /\ Busy(w) /\ UNCHANGED screenVars
         /\ \E gone \in SUBSET Screen : secret' = Without(secret, gone)
         /\ \E r \in WorkerState :
              /\ worker' = [worker EXCEPT ![w] = r]
              /\ r.screen = worker[w].screen /\ (r.locked => worker[w].locked \/ LockFree)
              /\ r.at = "step" /\ Steps[r.step] = Deploy /\ r.child # "none" => r.locked
<1>0. worker \in [Worker -> WorkerState] /\ worker[w] \in WorkerState /\ secret = Without(secret, {})
  BY DEF RunInv, RunTypeOK, Without
<1>1. CASE StepDone(w)
  <2> DEFINE r == Looping(worker[w].screen, worker[w].step + 1)
  <2>1. r \in WorkerState /\ r.screen = worker[w].screen /\ ~r.locked /\ r.at = "loop"
    <3>1. worker[w].screen \in Nat /\ worker[w].step + 1 \in Nat
      BY <1>0 DEF WorkerState
    <3> QED BY <3>1 DEF Looping, WorkerState
  <2>2. worker' = [worker EXCEPT ![w] = r] /\ Busy(w) /\ UNCHANGED screenVars /\ secret' = secret
    BY <1>1 DEF StepDone, StepReturns, Busy
  <2> QED BY <1>0, <2>1, <2>2
<1>2. CASE StepCancelled(w) \/ StepFails(w) \/ Completes(w) \/ CancelledBetweenSteps(w)
  <2> DEFINE r == [worker[w] EXCEPT !.at = "finalize", !.child = "none", !.locked = FALSE]
  <2>1. r \in WorkerState /\ r.screen = worker[w].screen /\ ~r.locked /\ r.at = "finalize"
    BY <1>0 DEF WorkerState
  <2>2. PICK result : Returns(w, result)
    BY <1>2 DEF StepCancelled, StepFails, Completes, CancelledBetweenSteps
  <2>3. worker' = [worker EXCEPT ![w] = r]
    BY <2>2 DEF Returns
  <2>4. \E gone \in SUBSET Screen : secret' = Without(secret, gone)
    <3>1. secret' = Without(secret, {worker[w].screen})
      BY <2>2 DEF Returns
    <3>2. secret' = Without(secret, {worker[w].screen} \cap Screen)
      BY <3>1 DEF Without
    <3> QED BY <3>2
  <2>5. Busy(w) /\ UNCHANGED screenVars
    BY <1>2 DEF StepCancelled, StepFails, Completes, CancelledBetweenSteps, StepReturns, Busy
  <2> QED BY <2>1, <2>3, <2>4, <2>5
<1>3. CASE PassGate(w) \/ StartStep(w)
  <2>1. PICK place \in {"start", "step"} : worker' = [worker EXCEPT ![w].at = place]
    BY <1>3 DEF PassGate, StartStep
  <2>2. worker[w].at \in {"loop", "start"} /\ UNCHANGED screenVars /\ secret' = secret
    BY <1>3 DEF PassGate, StartStep
  <2> DEFINE r == [worker[w] EXCEPT !.at = place]
  <2>3. /\ r \in WorkerState /\ worker' = [worker EXCEPT ![w] = r]
        /\ r.screen = worker[w].screen /\ r.locked = worker[w].locked /\ r.child = "none"
    BY <1>0, <2>1, <2>2 DEF WorkerState
  <2>4. Busy(w)
    BY <2>2 DEF Busy
  <2> QED BY <1>0, <2>2, <2>3, <2>4
<1>4. CASE SpawnChild(w) \/ ChildHangs(w) \/ ChildEnds(w) \/ Watchdog(w)
  <2>1. PICK life \in {"runs", "hangs", "ended"} : worker' = [worker EXCEPT ![w].child = life]
    BY <1>4 DEF SpawnChild, ChildHangs, ChildEnds, Watchdog
  <2>2. /\ worker[w].at = "step" /\ UNCHANGED screenVars /\ secret' = secret
        /\ Deploys(w) => worker[w].locked
    BY <1>0, <1>4 DEF SpawnChild, ChildHangs, ChildEnds, Watchdog, WorkerState, RunInv, LockHeld
  <2> DEFINE r == [worker[w] EXCEPT !.child = life]
  <2>3. /\ r \in WorkerState /\ worker' = [worker EXCEPT ![w] = r]
        /\ r.screen = worker[w].screen /\ r.locked = worker[w].locked /\ r.step = worker[w].step
    BY <1>0, <2>1, <2>2 DEF WorkerState
  <2>4. Busy(w)
    BY <2>2 DEF Busy
  <2> QED BY <1>0, <2>2, <2>3, <2>4 DEF Deploys
<1>5. CASE TakeLock(w)
  <2> DEFINE r == [worker[w] EXCEPT !.locked = TRUE]
  <2>1. /\ worker[w].at = "step" /\ worker[w].child = "none" /\ LockFree
        /\ UNCHANGED screenVars /\ secret' = secret /\ worker' = [worker EXCEPT ![w] = r]
    BY <1>5 DEF TakeLock, Deploys
  <2>2. r \in WorkerState /\ r.screen = worker[w].screen /\ r.child = "none"
    BY <1>0, <2>1 DEF WorkerState
  <2>3. Busy(w)
    BY <2>1 DEF Busy
  <2> QED BY <1>0, <2>1, <2>2, <2>3
<1> QED BY <1>1, <1>2, <1>3, <1>4, <1>5 DEF WorkerStep

(* Screens that go take their secrets along.                                 *)
LEMMA UnmountDrops ==
  ASSUME RunInv, NEW gone, Unmount(gone), opened' = opened, runActive' = runActive,
         worker' = worker
  PROVE  RunInv'
<1>1. /\ secret' \in [Screen -> BOOLEAN] /\ backup' \in [Screen -> BOOLEAN]
      /\ \A s \in Screen : /\ secret'[s] => secret[s] /\ s \notin gone
                           /\ backup'[s] => backup[s] /\ s \notin gone
  BY DEF Unmount, Without, RunInv, RunTypeOK
<1>2. mounted' = mounted \ gone
  BY DEF Unmount
<1>3. RunTypeOK'
  BY <1>1, <1>2 DEF RunInv, RunTypeOK, Busy
<1>4. SecretsGone'
  <2> SUFFICES ASSUME NEW s \in 1 .. opened, s \notin mounted' PROVE ~secret'[s] /\ ~backup'[s]
    BY DEF SecretsGone
  <2>1. s \in Screen
    <3>1. opened \in Nat /\ opened <= MaxScreens /\ MaxScreens \in Nat
      BY ScreensAssumption DEF RunInv, RunTypeOK
    <3> QED BY <3>1 DEF Screen
  <2>2. CASE s \in gone
    BY <1>1, <2>1, <2>2
  <2>3. CASE s \notin gone
    <3>1. s \notin mounted
      BY <1>2, <2>3
    <3>2. ~secret[s] /\ ~backup[s]
      BY <3>1, Zenon DEF RunInv, SecretsGone
    <3> QED BY <1>1, <2>1, <3>2
  <2> QED BY <2>2, <2>3
<1> QED BY <1>3, <1>4 DEF RunInv, SlotHeld, LockHeld, Busy, Deploys

(* Every step of a screen, of the app, of a worker or a finalizer keeps it.   *)
LEMMA RunStep == RunInv /\ [RunNext]_runVars => RunInv'
<1> SUFFICES ASSUME RunInv, [RunNext]_runVars PROVE RunInv'
  OBVIOUS
<1>0. RunTypeOK /\ MaxScreens \in Nat
  BY ScreensAssumption DEF RunInv
<1>1. CASE PushScreen
  <2> DEFINE s == opened + 1
  <2>1. s \in Screen /\ s \in Nat /\ opened < MaxScreens
    BY <1>0, <1>1 DEF PushScreen, Screen, RunTypeOK
  <2>2. /\ opened' = s /\ mounted' = mounted \cup {s}
        /\ secret' = [secret EXCEPT ![s] = TRUE] /\ backup' = [backup EXCEPT ![s] = TRUE]
        /\ BeginRun(s) /\ runActive' = [runActive EXCEPT ![s] = TRUE] /\ Dispatch(s)
    BY <1>1 DEF PushScreen
  <2>3. opened \in Nat /\ s \in 1 .. s /\ opened <= s
    BY <1>0 DEF RunTypeOK
  <2> HIDE DEF s
  <2>4. /\ SlotHeld' /\ LockHeld' /\ worker' \in [Worker -> WorkerState]
        /\ \A w \in Worker : Busy(w)' => worker'[w].screen \in 1 .. opened'
    BY <2>1, <2>2, <2>3, DispatchTakesSlot
  <2>5. mounted' \subseteq 1 .. opened' /\ opened' <= MaxScreens
    BY <1>0, <2>1, <2>2, <2>3 DEF RunTypeOK, s
  <2>6. RunTypeOK'
    BY <1>0, <2>1, <2>2, <2>4, <2>5 DEF RunTypeOK, Screen
  <2>7. SecretsGone'
    <3> SUFFICES ASSUME NEW t \in 1 .. s, t \notin mounted' PROVE ~secret'[t] /\ ~backup'[t]
      BY <2>2 DEF SecretsGone
    <3>1. t # s /\ t \notin mounted
      BY <2>2
    <3>2. t \in 1 .. opened
      BY <2>3, <3>1 DEF s
    <3>3. secret'[t] = secret[t] /\ backup'[t] = backup[t]
      BY <1>0, <2>2, <3>1, <3>2 DEF RunTypeOK, Screen
    <3> QED BY <3>1, <3>2, <3>3 DEF RunInv, SecretsGone
  <2> QED BY <2>4, <2>6, <2>7 DEF RunInv
<1>2. ASSUME NEW s \in Screen, ActionRetry(s) PROVE RunInv'
  <2>1. /\ opened' = opened /\ mounted' = mounted /\ s \in mounted /\ backup' = backup
        /\ secret' = [secret EXCEPT ![s] = backup[s]]
        /\ BeginRun(s) /\ runActive' = [runActive EXCEPT ![s] = TRUE] /\ Dispatch(s)
    BY <1>2 DEF ActionRetry, OnTop
  <2>2. /\ opened' \in Nat /\ s \in 1 .. opened' /\ opened <= opened'
        /\ s \in Screen /\ backup[s] \in BOOLEAN
    BY <1>0, <2>1 DEF RunTypeOK
  <2>3. /\ SlotHeld' /\ LockHeld' /\ worker' \in [Worker -> WorkerState]
        /\ \A w \in Worker : Busy(w)' => worker'[w].screen \in 1 .. opened'
    BY <2>1, <2>2, DispatchTakesSlot
  <2>4. RunTypeOK'
    BY <1>0, <2>1, <2>2, <2>3 DEF RunTypeOK
  <2>5. SecretsGone'
    BY <1>0, <2>1 DEF RunInv, RunTypeOK, SecretsGone
  <2> QED BY <2>3, <2>4, <2>5 DEF RunInv
<1>3. ASSUME NEW s \in Screen, ActionCancel(s) \/ Close(s) PROVE RunInv'
  BY <1>3, UnmountDrops DEF ActionCancel, Close, Dismiss
<1>4. CASE AppExits
  BY <1>4, UnmountDrops DEF AppExits
<1>5. ASSUME NEW w \in Worker, Finalize(w) PROVE RunInv'
  <2>1. /\ worker' = [worker EXCEPT ![w] = Idle] /\ Busy(w)
        /\ runActive' = [runActive EXCEPT ![worker[w].screen] = FALSE]
        /\ UNCHANGED <<opened, mounted, secret, backup>>
    BY <1>5 DEF Finalize, Busy
  <2>2. /\ \A v \in Worker \ {w} : worker'[v] = worker[v]
        /\ worker'[w] = Idle /\ worker[w].screen \in 1 .. opened
    BY <1>0, <2>1 DEF RunTypeOK
  <2>3. ~Busy(w)' /\ ~worker'[w].locked /\ ~Deploys(w)'
    BY <2>2 DEF Idle, Busy, Deploys
  <2>4. \A v \in Worker \ {w} : (Busy(v)' <=> Busy(v)) /\ (Deploys(v)' <=> Deploys(v))
    BY <2>2 DEF Busy, Deploys
  <2>5. \A v \in Worker \ {w} : Busy(v) => worker[v].screen # worker[w].screen
    BY <2>1 DEF RunInv, SlotHeld
  <2>6. Idle \in WorkerState
    BY DEF Idle, WorkerState
  <2>7. RunTypeOK'
    <3>1. worker' \in [Worker -> WorkerState] /\ runActive' \in [Screen -> BOOLEAN]
      BY <1>0, <2>1, <2>6 DEF RunTypeOK
    <3> QED BY <1>0, <2>1, <2>2, <2>3, <2>4, <3>1 DEF RunTypeOK
  <2>8. SlotHeld'
    <3>1. \A v \in Worker \ {w} : Busy(v) => runActive'[worker[v].screen]
      BY <1>0, <2>1, <2>5 DEF RunInv, SlotHeld, RunTypeOK, Screen
    <3> QED BY <2>2, <2>3, <2>4, <3>1 DEF RunInv, SlotHeld
  <2>9. LockHeld'
    BY <2>2, <2>3, <2>4 DEF RunInv, LockHeld
  <2>10. SecretsGone'
    BY <2>1 DEF RunInv, SecretsGone
  <2> QED BY <2>7, <2>8, <2>9, <2>10 DEF RunInv
<1>6. ASSUME NEW w \in Worker, WorkerStep(w) \/ ChildHangs(w) \/ ChildEnds(w) \/ Watchdog(w)
      PROVE  RunInv'
  <2>1. Busy(w) /\ UNCHANGED <<opened, mounted, runActive, backup>>
    BY <1>6, WorkerWrites DEF screenVars
  <2>2. /\ SlotHeld' /\ LockHeld' /\ worker' \in [Worker -> WorkerState]
        /\ \A v \in Worker : Busy(v)' => worker'[v].screen \in 1 .. opened'
    <3>1. PICK r \in WorkerState :
            /\ worker' = [worker EXCEPT ![w] = r]
            /\ r.screen = worker[w].screen /\ (r.locked => worker[w].locked \/ LockFree)
            /\ r.at = "step" /\ Steps[r.step] = Deploy /\ r.child # "none" => r.locked
      BY <1>6, WorkerWrites
    <3> QED BY <2>1, <3>1, WorkerKeepsSlot
  <2>3. secret' \in [Screen -> BOOLEAN] /\ \A s \in Screen : secret'[s] => secret[s]
    <3>1. PICK gone \in SUBSET Screen : secret' = Without(secret, gone)
      BY <1>6, WorkerWrites
    <3> QED BY <1>0, <3>1 DEF Without, RunTypeOK
  <2>4. RunTypeOK'
    BY <1>0, <2>1, <2>2, <2>3 DEF RunTypeOK
  <2>5. SecretsGone'
    BY <1>0, <2>1, <2>3 DEF RunInv, RunTypeOK, SecretsGone, Screen
  <2> QED BY <2>2, <2>4, <2>5 DEF RunInv
<1>7. CASE UNCHANGED runVars
  <2>1. UNCHANGED <<opened, mounted, runActive, worker, secret, backup>>
    BY <1>7 DEF runVars, screenVars
  <2> QED BY <2>1 DEF RunInv, RunTypeOK, SlotHeld, LockHeld, Busy, Deploys, SecretsGone
<1> QED BY <1>1, <1>2, <1>3, <1>4, <1>5, <1>6, <1>7 DEF RunNext

(* The type, the slots, the lock and the secrets, together.                   *)
THEOREM RunInvariant == RunSpec => []RunInv
  BY RunInitOK, RunStep, PTL DEF RunSpec

-----------------------------------------------------------------------------
(* A set whose elements are all the same.                                    *)
LEMMA AtMostOne ==
  ASSUME NEW B, \A v, w \in B : v = w PROVE Cardinality(B) <= 1
<1>1. CASE B = {}
  BY <1>1, FS_EmptySet
<1>2. CASE B # {}
  <2>1. PICK w \in B : B = {w}
    BY <1>2
  <2>2. Cardinality(B) = 1
    BY <2>1, FS_Singleton
  <2> QED BY <2>2
<1> QED BY <1>1, <1>2

(* Whatever the operator presses, no screen has two workers in the step loop: *)
(* the slot of _begin_run is enough, exclusive=True would not be. However     *)
(* many screens are up, one worker has a child of the deploy step: the slots  *)
(* do not see each other, the flock does.                                     *)
THEOREM WorkersStayApart == RunSpec => []WorkersApart
<1>1. ASSUME RunInv PROVE OneRunPerScreen
  <2> SUFFICES ASSUME NEW s \in Screen
               PROVE  Cardinality({w \in Worker : Busy(w) /\ worker[w].screen = s}) <= 1
    BY DEF OneRunPerScreen
  <2>1. \A v, w \in {x \in Worker : Busy(x) /\ worker[x].screen = s} : v = w
    BY <1>1 DEF RunInv, SlotHeld
  <2> QED BY <2>1, AtMostOne
<1>2. ASSUME RunInv PROVE OneComposeUp
  <2>1. \A v, w \in {x \in Worker : ComposeRuns(x)} : v = w
    BY <1>2 DEF RunInv, LockHeld, ComposeRuns
  <2> QED BY <2>1, AtMostOne DEF OneComposeUp
<1>3. RunInv => WorkersApart
  BY <1>1, <1>2 DEF WorkersApart
<1> QED BY <1>3, RunInvariant, PTL

(* Once a screen has gone, neither its configuration nor the copy that Retry   *)
(* restores has a secret, though its worker and other screens may still run.   *)
THEOREM SecretsGoWithTheScreen == RunSpec => []SecretsGone
  BY RunInvariant, PTL DEF RunInv
=============================================================================
