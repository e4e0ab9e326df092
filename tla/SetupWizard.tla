------------------------------ MODULE SetupWizard ------------------------------
(***************************************************************************)
(* The multi-step setup wizard and its unattended twin: what the screens    *)
(* save, what their checkboxes show, and the configuration that Apply,      *)
(* Ctrl+S and `install --no-tui` hand to the installer. The app handles one *)
(* message at a time; a screen's messages wait in its queue.                *)
(***************************************************************************)
EXTENDS ServiceSelection

CONSTANTS
  Role,           \* model roles
  ServiceOf,      \* role -> the service that serves its model
  MainRole,       \* the role of the main LLM, which may be skipped
  Departments,    \* sequence of the service screens, each a sequence of services
  Exclusive,      \* DIFY_VECTOR_PROVIDERS
  Defaults,       \* _DEFAULT_SERVICES
  MaxActs         \* bound: starts of the installer and toggles, together

VARIABLES
  at, dept,       \* the kind of the screen on top; the department of a service screen
  state,          \* the SetupState: domain, secrets, services, model ids and files
  boxes,          \* department -> the services its screen shows as checked
  queue,          \* department -> Changed events its screen has not handled
  saved,          \* setup-state.json
  applied,        \* the configuration of the last install
  shown,          \* what the Confirm screen shows
  acts,           \* starts and toggles so far
  picked,         \* ghost: the vector provider the operator checked last
  hasty,          \* ghost: in this session a box was turned while events waited
  untouched       \* ghost: nothing was changed in this session

(* A role has a server of its own, which nothing depends on, and a lack of    *)
(* what it serves is one the renderer lets pass.                           *)
ASSUME ServersAssumption ==
  /\ MainRole \in Role /\ ServiceOf \in [Role -> Service]
  /\ \A r \in Role, s \in Service :
       /\ ServiceOf[r] \notin DependsOn[s]
       /\ \A c \in Consumes[s] \cap Provides[ServiceOf[r]] :
            c \in Optional \/ <<s, c>> \in CrossProfile

ASSUME SelectionAssumption ==
  /\ Defaults \in SUBSET Service /\ "none" \notin Service
  /\ Departments \in Seq(Seq(Service)) /\ Departments # <<>>

wizardVars == <<at, dept, state, boxes, queue, saved, applied, shown, acts, picked, hasty,
                untouched>>

None == "none"
FinalDept == Len(Departments)
Visible(d) == {Departments[d][i] : i \in DOMAIN Departments[d]}

(* The vector providers are alike: no stack and no service brings one in, they *)
(* provide the same, and one screen shows them all.                          *)
ASSUME ExclusiveAssumption ==
  /\ Exclusive \subseteq Service \ {ServiceOf[r] : r \in Role}
  /\ \A e \in Exclusive : StackOf[e] = {} /\ \A s \in Service : e \notin DependsOn[s]
  /\ \A e, f \in Exclusive : Provides[e] = Provides[f]
  /\ \A d1, d2 \in DOMAIN Departments :
       Visible(d1) \cap Exclusive # {} /\ Visible(d2) \cap Exclusive # {} => d1 = d2

AllHandled == \A d \in DOMAIN Departments : queue[d] = <<>>

(* What a model selector and its file field can hold.                       *)
Model ==
  {[id |-> "skip", file |-> None], [id |-> "catalog", file |-> None],
   [id |-> "custom", file |-> None], [id |-> "custom", file |-> "typed"]}

-----------------------------------------------------------------------------
(* SetupState                                                              *)

(* _resolve_repo_file.                                                      *)
ResolvedFile(model) ==
  CASE model.id = "skip" -> None
    [] model.id = "catalog" -> "catalog"
    [] OTHER -> model.file

Resolved(models) == [r \in Role |-> [models[r] EXCEPT !.file = ResolvedFile(models[r])]]

WithFiles(st) == [st EXCEPT !.models = Resolved(st.models)]

DropFiles(st) ==
  [st EXCEPT !.models =
     [r \in Role |-> IF ServiceOf[r] \in st.services THEN st.models[r]
                     ELSE [st.models[r] EXCEPT !.file = None]]]

(* A service whose role has no model file is not deployed.                  *)
DropServices(st) ==
  [st EXCEPT !.services = @ \ {ServiceOf[r] : r \in {q \in Role : st.models[q].file = None}}]

(* normalize_model_fields_and_services, with and without                    *)
(* drop_unselected_model_files.                                            *)
Normalize(st) == DropServices(WithFiles(st))
NormalizeDrop(st) == DropServices(DropFiles(WithFiles(st)))

\* Bug: the services are expanded and their models not looked at again.
ForSubmitAsSaved(st) == [st EXCEPT !.services = Closure(@)]

(* _state_for_submit.                                                       *)
ForSubmit(st) == NormalizeDrop([st EXCEPT !.services = Closure(@)])

(* _validate. A missing LLM is accepted when the LLM is skipped.            *)
Valid(st) ==
  /\ st.domain /\ st.secrets = "ok"
  /\ st.services # {}
  /\ \A c \in MissingCapabilities(st.services) :
       st.models[MainRole].id = "skip" /\ c \in Provides[ServiceOf[MainRole]]

ConfigOf(st, by) ==
  [services |-> st.services, files |-> [r \in Role |-> st.models[r].file], by |-> by]

-----------------------------------------------------------------------------
NoConfig == [services |-> {}, files |-> [r \in Role |-> None], by |-> None]

(* A state that was saved, a configuration that was applied, has services.  *)
Exists(x) == x.services # {}

-----------------------------------------------------------------------------
(* Starting                                                                *)

Fresh ==
  [domain |-> FALSE, secrets |-> "missing", services |-> Defaults,
   models |-> [r \in Role |-> [id |-> "catalog", file |-> None]]]

\* Bug: a second run starts from the defaults.
LaunchDefaults ==
  /\ at = "off" /\ acts < MaxActs
  /\ acts' = acts + 1
  /\ at' = "domain"
  /\ state' = Fresh
  /\ untouched' = TRUE
  /\ UNCHANGED <<dept, boxes, queue, saved, applied, shown, picked, hasty>>

(* The services and the domain of the last run are preselected; models and  *)
(* secrets are asked for again.                                             *)
Launch ==
  /\ at = "off" /\ acts < MaxActs
  /\ acts' = acts + 1
  /\ at' = "domain"
  /\ state' = IF ~Exists(saved) THEN Fresh
              ELSE [Fresh EXCEPT !.services = saved.services, !.domain = saved.domain]
  /\ untouched' = TRUE
  /\ UNCHANGED <<dept, boxes, queue, saved, applied, shown, picked, hasty>>

(* `install --no-tui`, with --from-state or the last run's services: no     *)
(* screens and no compatibility check. A model given on the command line    *)
(* skips the normalisation.                                                 *)
Headless(fromState, cliModel) ==
  /\ at = "off" /\ acts < MaxActs /\ Exists(saved)
  /\ acts' = acts + 1
  /\ LET loaded == [(IF fromState THEN saved ELSE [saved EXCEPT !.models = Fresh.models])
                      EXCEPT !.services = Closure(@)]
         ready == IF cliModel THEN WithFiles(loaded) ELSE NormalizeDrop(loaded)
         config == ConfigOf(DropFiles(ready), IF cliModel THEN "override" ELSE "headless")
     IN /\ config.services # {}
        /\ applied' = IF cliModel
             THEN [config EXCEPT !.files[MainRole] =
                     IF ServiceOf[MainRole] \in config.services THEN "typed" ELSE @]
             ELSE config
  /\ untouched' = ~cliModel
  /\ UNCHANGED <<at, dept, state, boxes, queue, saved, shown, picked, hasty>>

-----------------------------------------------------------------------------
(* The screens                                                             *)

(* Secrets are saved before the domain is looked at; the sudo password is    *)
(* verified and a short token refused ("wrong"), an empty token passes       *)
(* ("missing").                                                             *)
DomainNext(domain, secrets) ==
  /\ at = "domain"
  /\ state' = [state EXCEPT !.domain = @ \/ domain,
                            !.secrets = IF secrets = "ok" THEN "ok" ELSE "missing"]
  /\ at' = IF domain /\ secrets # "wrong" THEN "model" ELSE at
  /\ UNCHANGED <<dept, boxes, queue, saved, applied, shown, acts, picked, hasty,
                 untouched>>

Push(d, services) ==
  /\ at' = "services" /\ dept' = d
  /\ boxes' = [boxes EXCEPT ![d] = services \cap Visible(d)]
  /\ queue' = [queue EXCEPT ![d] = <<>>]

(* What the selectors and inputs hold is saved; a curated id brings its     *)
(* file.                                                                   *)
ModelNext(models) ==
  /\ at = "model"
  /\ \A r \in Role \ {MainRole} : models[r].id # "skip"
  /\ state' = Normalize([state EXCEPT !.models = models])
  /\ untouched' = (untouched /\ \A r \in Role : models[r].id = state.models[r].id)
  /\ Push(1, state'.services)
  /\ UNCHANGED <<saved, applied, shown, acts, picked, hasty>>

(* Space on a checkbox: the box turns and an event is posted, marked as the  *)
(* operator's.                                                              *)
Toggle(d, s) ==
  /\ at = "services" /\ dept = d /\ s \in Visible(d)
  /\ acts < MaxActs /\ acts' = acts + 1
  /\ boxes' = [boxes EXCEPT ![d] = IF s \in @ THEN @ \ {s} ELSE @ \cup {s}]
  /\ queue' = [queue EXCEPT ![d] = Append(@, <<s, s \notin boxes[d], TRUE>>)]
  /\ hasty' = (hasty \/ queue[d] # <<>>) /\ untouched' = FALSE
  /\ UNCHANGED <<at, dept, state, saved, applied, shown, picked>>

(* A screen takes its messages in order: a key that leaves it comes after   *)
(* the toggles before it, but not after the events their handling posts.    *)
TogglesHandled(d) == \A i \in DOMAIN queue[d] : ~queue[d][i][3]

(* _sync_state_from_visible_checkboxes.                                     *)
Synced(d, shownBoxes) == (state.services \ Visible(d)) \cup shownBoxes

\* Bug: the other providers' boxes are cleared and the state is not.
AfterPickBoxesOnly(d, event, services) == services

(* _uncheck_other_vector_providers.                                         *)
AfterPick(d, event, services) ==
  IF event[2] /\ event[1] \in Exclusive THEN services \ (Exclusive \ {event[1]}) ELSE services

(* Boxes that the program turns post events of their own.                   *)
Posted(d, old, new) ==
  LET upTo[i \in 0 .. Len(Departments[d])] ==
        IF i = 0 THEN <<>>
        ELSE LET s == Departments[d][i]
             IN IF (s \in old) # (s \in new) THEN Append(upTo[i - 1], <<s, s \in new, FALSE>>)
                ELSE upTo[i - 1]
  IN upTo[Len(Departments[d])]

(* on_checkbox_changed.                                                     *)
CheckboxChanged(d) ==
  /\ queue[d] # <<>>
  /\ at # "off"
  /\ LET event == Head(queue[d])
         chosen == AfterPick(d, event, Synced(d, boxes[d]))
         expanded == Closure(chosen)
         new == expanded \cap Visible(d)
     IN /\ state' = [state EXCEPT !.services = expanded]
        /\ boxes' = [boxes EXCEPT ![d] = new]
        /\ queue' = [queue EXCEPT ![d] = Tail(@) \o Posted(d, boxes[d], chosen)
                                           \o Posted(d, chosen, new)]
        /\ picked' = CASE event[1] \in Exclusive /\ event[2] /\ event[3] -> event[1]
                       [] event[1] = picked /\ ~event[2] /\ event[3] -> None
                       [] OTHER -> picked
  /\ UNCHANGED <<at, dept, saved, applied, shown, acts, hasty, untouched>>

(* Next on a service screen that is not the last.                           *)
ServicesNext(d) ==
  /\ at = "services" /\ dept = d /\ d < FinalDept /\ TogglesHandled(d)
  /\ state' = Normalize([state EXCEPT !.services = Closure(Synced(d, boxes[d]))])
  /\ Push(d + 1, state'.services)
  /\ UNCHANGED <<saved, applied, shown, acts, picked, hasty, untouched>>

(* Next on the last one: the Confirm screen shows the selection.            *)
ServicesDone ==
  /\ at = "services" /\ dept = FinalDept /\ TogglesHandled(dept)
  /\ LET checked == Synced(FinalDept, boxes[FinalDept])
     IN state' = NormalizeDrop(Normalize([state EXCEPT !.services = Closure(checked)]))
  /\ at' = IF state'.services = {} THEN at ELSE "confirm"
  /\ shown' = ConfigOf(state', "confirm")
  /\ UNCHANGED <<dept, boxes, queue, saved, applied, acts, picked, hasty, untouched>>

(* The screen of department d has gone, and its messages with it.           *)
Gone(d) == boxes' = [boxes EXCEPT ![d] = {}] /\ queue' = [queue EXCEPT ![d] = <<>>]

(* pop_screen; the screen below is as it was left.                          *)
Back ==
  /\ at = "services" => TogglesHandled(dept)
  /\ \/ at = "model" /\ at' = "domain" /\ UNCHANGED <<dept, boxes, queue>>
     \/ at = "services" /\ dept = 1 /\ at' = "model" /\ UNCHANGED dept /\ Gone(1)
     \/ at = "services" /\ dept > 1 /\ dept' = dept - 1 /\ UNCHANGED at /\ Gone(dept)
     \/ at = "confirm" /\ at' = "services" /\ UNCHANGED <<dept, boxes, queue>>
  /\ shown' = NoConfig
  /\ UNCHANGED <<state, saved, applied, acts, picked, hasty, untouched>>

(* The process ends: only setup-state.json stays.                           *)
Exit ==
  /\ at' = "off" /\ dept' = 1 /\ state' = Fresh /\ shown' = NoConfig
  /\ picked' = None /\ hasty' = FALSE
  /\ boxes' = [d \in DOMAIN Departments |-> {}]
  /\ queue' = [d \in DOMAIN Departments |-> <<>>]
  /\ UNCHANGED <<saved, applied, acts, untouched>>

Quit == at = "domain" /\ Exit

-----------------------------------------------------------------------------
(* action_submit, reached from Confirm's Apply, which pops its screen, and  *)
(* by Ctrl+S from any screen. On the install screen it puts one more on top, *)
(* as InstallRun has it.                                                    *)

Submit(by) ==
  /\ state' = ForSubmit(state)
  /\ IF Valid(state')
       THEN /\ saved' = [state' EXCEPT !.secrets = "missing"]
            /\ applied' = ConfigOf(state', by)
            /\ at' = "install"
       ELSE /\ UNCHANGED <<saved, applied>>
            /\ at' = IF by = "confirm" THEN "services" ELSE at
  /\ shown' = NoConfig
  /\ UNCHANGED <<dept, boxes, queue, acts, picked, hasty, untouched>>

Apply == at = "confirm" /\ Submit("confirm")
CtrlS == at # "off" /\ Submit("ctrl+s")

(* The install screen has closed.                                           *)
Finished == at = "install" /\ Exit

-----------------------------------------------------------------------------
WizardInit ==
  /\ at = "off" /\ dept = 1 /\ state = Fresh
  /\ boxes = [d \in DOMAIN Departments |-> {}]
  /\ queue = [d \in DOMAIN Departments |-> <<>>]
  /\ saved = [Fresh EXCEPT !.services = {}] /\ applied = NoConfig /\ shown = NoConfig
  /\ acts = 0 /\ picked = None /\ hasty = FALSE /\ untouched = TRUE

WizardNext ==
  \/ Launch \/ Back \/ Quit \/ ServicesDone \/ Apply \/ CtrlS \/ Finished
  \/ \E fromState, cliModel \in BOOLEAN : Headless(fromState, cliModel)
  \/ \E domain \in BOOLEAN, secrets \in {"missing", "wrong", "ok"} :
       DomainNext(domain, secrets)
  \/ \E models \in [Role -> Model] : ModelNext(models)
  \/ \E d \in DOMAIN Departments :
       \/ \E s \in Visible(d) : Toggle(d, s)
       \/ CheckboxChanged(d) \/ (d < FinalDept /\ ServicesNext(d))

WizardSpec == WizardInit /\ [][WizardNext]_wizardVars
-----------------------------------------------------------------------------
(* What the setup flows let through, the renderer accepts, and every service *)
(* finds what it consumes: none points at a host that is not deployed,       *)
(* unless the operator gave its model server no model.                       *)
NoModel(st) == {r \in Role : st.models[r].id # "catalog" /\ ResolvedFile(st.models[r]) = None}

AppliedServed ==
  Exists(applied) =>
    /\ Renders(applied.services)
    /\ \A s \in applied.services : \A c \in Consumes[s] \ Optional :
         Providers(c) \cap (applied.services \cup {ServiceOf[r] : r \in NoModel(saved)}) # {}

(* Apply on the Confirm screen installs the services and the models it       *)
(* shows, although it expands and normalises the state once more.           *)
ConfirmedIsInstalled ==
  [][Apply /\ at' = "install" =>
       applied'.services = shown.services /\ applied'.files = shown.files]_wizardVars

(* The vector provider checked last is the only one, once the screen has    *)
(* handled its events.                                                      *)
LastPickStands ==
  at = "services" /\ AllHandled /\ picked # None => state.services \cap Exclusive = {picked}

(* It is, if the operator turns no box while events of the turns before wait: *)
(* neither the closure nor an event the program posted brings another back.   *)
PickStands == ~hasty => LastPickStands

(* A run in which nothing is changed keeps every service of the last one:   *)
(* `up --remove-orphans` has nothing to remove.                             *)
RerunKeeps ==
  [][applied' # applied /\ untouched' /\ Exists(saved) =>
       saved.services \subseteq applied'.services]_wizardVars
=============================================================================
