--------------------------- MODULE Operations_proofs ---------------------------
(***************************************************************************)
(* The commands that take no deploy lock: what holds of descriptors, backups, *)
(* the records of migrations, model files and what `gc` removes, for any       *)
(* services, members, versions and files.                                     *)
(***************************************************************************)
EXTENDS UpgradePins, Backup, BackupSchedule, Migrations, ModelStore, ModelCatalog, GarbageCollection,
        SequenceTheorems, TLAPS

-----------------------------------------------------------------------------
(***************************************************************************)
(* UpgradePins                                                              *)
(***************************************************************************)

Seen(p) == <<p.tag, PinnedDigest(p)>>

OldMatched(it) ==
  it.oldDigest = NoDigest \/ \E o \in Beside[it.svc] : it.oldDigest = DigestOf(o, it.oldTag)
NewMatched(it) ==
  it.newDigest = NoDigest \/ \E o \in Beside[it.svc] : it.newDigest = DigestOf(o, it.newTag)

(* What a plan says its descriptors had, it says of each one way only.        *)
ItemsFit(its) ==
  /\ \A i \in DOMAIN its : its[i].svc \in Descriptor /\ OldMatched(its[i])
  /\ \A i, j \in DOMAIN its : its[i].svc = its[j].svc =>
       its[i].oldTag = its[j].oldTag /\ its[i].oldDigest = its[j].oldDigest

SavedFit ==
  \A f \in saved : ItemsFit(f.items) /\ f.name \in UpgradeName /\ f.at \in Nat

(* What is left to write has a digest, or finds none.                        *)
CmdFits ==
  /\ DOMAIN cmd = {"at", "name", "items", "todo"}
  /\ cmd.at \in {"idle", "bump", "revert"}
  /\ cmd.at # "idle" =>
       /\ ItemsFit(cmd.items) /\ cmd.todo \subseteq DOMAIN cmd.items
       /\ cmd.name \in UpgradeName
  /\ cmd.at = "bump" =>
       /\ \A i \in cmd.todo : NewMatched(cmd.items[i])
       /\ \A i \in cmd.todo : cmd.items[i].newDigest = NoDigest =>
            PinnedDigest(pin[cmd.items[i].svc]) = NoDigest
       /\ \A i, j \in cmd.todo : cmd.items[i].newDigest = cmd.items[j].newDigest
  /\ cmd.at = "revert" =>
       \A i \in cmd.todo : cmd.items[i].oldDigest = NoDigest =>
         PinnedDigest(pin[cmd.items[i].svc]) = NoDigest

PinsInv ==
  /\ DOMAIN pin = Descriptor /\ MatchedPins
  /\ seconds \in Nat /\ SavedFit /\ CmdFits

-----------------------------------------------------------------------------
(* A pin is written with one digest at most, in its place: the new one, or    *)
(* the one on the line if there is none.                                     *)
LEMMA BumpedForm ==
  ASSUME NEW p, NEW v, NEW d
  PROVE  /\ BumpedPin(p, v, d).tag = v
         /\ BumpedPin(p, v, d).inline = NoDigest
         /\ BumpedPin(p, v, d).line = IF d = NoDigest THEN p.line ELSE d
         /\ PinnedDigest(BumpedPin(p, v, d)) = IF d = NoDigest THEN p.line ELSE d
<1>1. /\ BumpedPin(p, v, d).tag = v
      /\ BumpedPin(p, v, d).inline = NoDigest
      /\ BumpedPin(p, v, d).line = IF d = NoDigest THEN p.line ELSE d
  BY DEF BumpedPin
<1> QED
  BY <1>1 DEF PinnedDigest

(* Where no digest is written none was, the pin is seen as it was asked for.  *)
LEMMA BumpedSeen ==
  ASSUME NEW s, NEW p, NEW v, NEW d,
         p.inline = NoDigest \/ p.line = NoDigest,
         d = NoDigest => PinnedDigest(p) = NoDigest
  PROVE  /\ PinnedDigest(BumpedPin(p, v, d)) = d /\ BumpedPin(p, v, d).inline = NoDigest
         /\ BumpedPin(p, v, d).tag = v
<1>1. d = NoDigest => p.line = NoDigest
  BY DEF PinnedDigest
<1> QED
  BY <1>1, BumpedForm

(* The descriptors of a component or service.                                *)
LEMMA MembersFit ==
  ASSUME NEW name \in UpgradeName
  PROVE  /\ \A i \in DOMAIN MembersOf(name) : MembersOf(name)[i] \in Descriptor
         /\ Range(MembersOf(name)) \subseteq Descriptor
         /\ \A s, o \in Range(MembersOf(name)) : o \in Beside[s]
<1>1. CASE name \in Component
  <2>1. MembersOf(name) = Members[name] /\ Members[name] \in Seq(Descriptor)
    BY <1>1, PinsAssumption DEF MembersOf
  <2>2. \A i \in DOMAIN MembersOf(name) : MembersOf(name)[i] \in Descriptor
    <3>1. DOMAIN Members[name] = 1..Len(Members[name])
      BY <2>1, LenProperties
    <3>2. QED
      BY <2>1, <3>1, ElementOfSeq
  <2>3. Range(MembersOf(name)) \subseteq Descriptor
    BY <2>2 DEF Range
  <2>4. QED
    BY <1>1, <2>1, <2>2, <2>3 DEF Beside
<1>2. CASE name \notin Component
  <2>1. MembersOf(name) = <<name>> /\ name \in Descriptor
    BY <1>2 DEF MembersOf, UpgradeName
  <2>2. \A i \in DOMAIN <<name>> : <<name>>[i] = name
    OBVIOUS
  <2>3. \A s \in Range(MembersOf(name)) : s = name
    BY <2>1, <2>2 DEF Range
  <2>4. QED
    BY <2>1, <2>2, <2>3 DEF Beside
<1> QED
  BY <1>1, <1>2

(* A plan has an item for each descriptor: what it has, and what is asked of   *)
(* those that move.                                                         *)
LEMMA PlanForm ==
  ASSUME NEW name, NEW v, NEW d, NEW i \in DOMAIN MembersOf(name), NEW s, s = MembersOf(name)[i]
  PROVE  /\ Plan(name, v, d)[i].svc = s
         /\ Plan(name, v, d)[i].oldTag = pin[s].tag
         /\ Plan(name, v, d)[i].oldDigest = PinnedDigest(pin[s])
         /\ Divergent(name, s) => Plan(name, v, d)[i].newTag = pin[s].tag
         /\ ~Divergent(name, s) => /\ Plan(name, v, d)[i].newTag = v
                                   /\ Plan(name, v, d)[i].newDigest = d
<1>1. Plan(name, v, d)[i] = PlanItem(name, s, v, d)
  BY DEF Plan
<1> QED
  BY <1>1 DEF PlanItem

(* A plan covers the members of the component and nothing else.             *)
LEMMA PlanDomain ==
  ASSUME NEW name, NEW v, NEW d
  PROVE  DOMAIN Plan(name, v, d) = DOMAIN MembersOf(name)
BY DEF Plan

-----------------------------------------------------------------------------
(* A member is written: its pin has a digest of its new tag, no other pin      *)
(* changes.                                                                 *)
LEMMA MemberWritten ==
  ASSUME DOMAIN pin = Descriptor, MatchedPins,
         NEW s \in Descriptor, NEW v, NEW d,
         d = NoDigest => PinnedDigest(pin[s]) = NoDigest,
         d = NoDigest \/ \E o \in Beside[s] : d = DigestOf(o, v),
         DOMAIN pin' = Descriptor, pin'[s] = BumpedPin(pin[s], v, d),
         \A r \in Descriptor \ {s} : pin'[r] = pin[r]
  PROVE  /\ MatchedPins'
         /\ Seen(pin'[s]) = <<v, d>> /\ PinnedDigest(pin'[s]) = d
<1>2. /\ PinnedDigest(pin'[s]) = d /\ pin'[s].inline = NoDigest /\ pin'[s].tag = v
  BY BumpedSeen DEF MatchedPins, Matched
<1>4. Matched(s, pin'[s])
  BY <1>2 DEF Matched
<1>5. \A r \in Descriptor : Matched(r, pin'[r])
  BY <1>4 DEF MatchedPins
<1>6. MatchedPins'
  BY <1>5 DEF MatchedPins
<1> QED
  BY <1>2, <1>6 DEF Seen

(* Nothing is moved yet: the published pins stand.                          *)
LEMMA PinsInvInit == PinsInit => PinsInv
BY PinsAssumption DEF PinsInit, PinsInv, MatchedPins, SavedFit, CmdFits, NoCmd

(* What is asked for has no digest, or that of a member.                     *)
LEMMA AskedMatched ==
  ASSUME NEW name \in UpgradeName, NEW ask \in Asked(name),
         NEW s \in Range(MembersOf(name))
  PROVE  ask[2] = NoDigest \/ \E o \in Beside[s] : ask[2] = DigestOf(o, ask[1])
<1>1. PICK o \in Moving(name) :
        \/ \E v \in Published[ImageOf[o]] : ask = <<v, NoDigest>>
        \/ \E v \in Published[ImageOf[o]] : ask = <<v, DigestOf(o, v)>>
  BY DEF Asked
<1>2. o \in Range(MembersOf(name))
  BY DEF Moving
<1>3. o \in Beside[s]
  BY <1>2, MembersFit
<1> QED
  BY <1>1, <1>3

(* The plan of a bump that begins fits what is published.                   *)
LEMMA BeginBumpFits ==
  ASSUME PinsInv, NEW name \in UpgradeName, NEW force \in BOOLEAN, NEW ask \in Asked(name),
         BeginBump(name, ask[1], ask[2], force)
  PROVE  PinsInv'
<1> DEFINE v == ask[1]
           d == ask[2]
           its == Plan(name, v, d)
<1>0. DOMAIN its = DOMAIN MembersOf(name)
  BY PlanDomain
<1>1. /\ cmd' = [at |-> "bump", name |-> name, items |-> its,
                 todo |-> {i \in DOMAIN its : its[i].oldTag # its[i].newTag}]
      /\ ~TagOnlyRefused(name, v, d)
      /\ pin' = pin /\ saved' = saved /\ seconds' = seconds
  BY DEF BeginBump
<1>2. /\ cmd'.at = "bump" /\ cmd'.items = its /\ cmd'.name = name
      /\ cmd'.todo = {i \in DOMAIN its : its[i].oldTag # its[i].newTag}
  BY <1>1
<1>3. \A i \in DOMAIN its : /\ MembersOf(name)[i] \in Descriptor
                            /\ MembersOf(name)[i] \in Range(MembersOf(name))
  BY <1>0, MembersFit DEF Range
<1>4. ItemsFit(its)
  <2>1. ASSUME NEW i \in DOMAIN its
        PROVE  its[i].svc \in Descriptor /\ OldMatched(its[i])
    <3>1. Matched(MembersOf(name)[i], pin[MembersOf(name)[i]])
      BY <1>3 DEF PinsInv, MatchedPins
    <3>2. QED
      BY <1>0, <1>3, <3>1, PlanForm DEF Matched, OldMatched
  <2>2. ASSUME NEW i \in DOMAIN its, NEW j \in DOMAIN its, its[i].svc = its[j].svc
        PROVE  its[i].oldTag = its[j].oldTag /\ its[i].oldDigest = its[j].oldDigest
    BY <1>0, <2>2, PlanForm
  <2>3. QED
    BY <2>1, <2>2 DEF ItemsFit
<1>5. ASSUME NEW i \in cmd'.todo
      PROVE  /\ NewMatched(its[i]) /\ its[i].newDigest = d
             /\ its[i].newDigest = NoDigest => PinnedDigest(pin[its[i].svc]) = NoDigest
  <2>1. PICK s \in Descriptor : s = MembersOf(name)[i] /\ s \in Range(MembersOf(name))
    BY <1>2, <1>3
  <2>2. i \in DOMAIN MembersOf(name) /\ its[i].oldTag # its[i].newTag
    BY <1>0, <1>2
  <2>3. /\ its[i].svc = s /\ its[i].oldTag = pin[s].tag
        /\ Divergent(name, s) => its[i].newTag = pin[s].tag
        /\ ~Divergent(name, s) => its[i].newTag = v /\ its[i].newDigest = d
    BY <2>1, <2>2, PlanForm
  <2>4. ~Divergent(name, s) /\ its[i].newTag = v /\ its[i].newDigest = d
    BY <2>2, <2>3
  <2>5. NewMatched(its[i])
    BY <2>1, <2>3, <2>4, AskedMatched DEF NewMatched
  <2>6. d = NoDigest => PinnedDigest(pin[s]) = NoDigest
    BY <1>1, <2>1, <2>2, <2>3, <2>4 DEF TagOnlyRefused
  <2>7. QED
    BY <2>3, <2>4, <2>5, <2>6
<1>6. SavedFit'
  BY <1>1 DEF PinsInv, SavedFit
<1>7. CmdFits'
  BY <1>1, <1>2, <1>4, <1>5 DEF CmdFits
<1>8. MatchedPins'
  BY <1>1 DEF PinsInv, MatchedPins
<1> QED
  BY <1>1, <1>6, <1>7, <1>8 DEF PinsInv

(* A member of the plan is written, forth or back.                           *)
LEMMA ItemWritten ==
  ASSUME PinsInv, NEW i \in cmd.todo, NEW v, NEW d,
         cmd.at \in {"bump", "revert"},
         DOMAIN cmd' = DOMAIN cmd, cmd'.at = cmd.at, cmd'.items = cmd.items,
         cmd'.name = cmd.name, cmd'.todo = cmd.todo \ {i},
         saved' = saved, seconds' = seconds,
         cmd.at = "bump" => v = cmd.items[i].newTag /\ d = cmd.items[i].newDigest,
         cmd.at = "revert" => v = cmd.items[i].oldTag /\ d = cmd.items[i].oldDigest,
         NEW s, s = cmd.items[i].svc,
         DOMAIN pin' = DOMAIN pin, pin'[s] = BumpedPin(pin[s], v, d),
         \A r \in Descriptor \ {s} : pin'[r] = pin[r]
  PROVE  PinsInv' /\ Seen(pin'[s]) = <<v, d>>
<1>1. /\ ItemsFit(cmd.items) /\ cmd.todo \subseteq DOMAIN cmd.items /\ cmd.name \in UpgradeName
  BY DEF PinsInv, CmdFits
<1>2. /\ s \in Descriptor /\ OldMatched(cmd.items[i])
  BY <1>1 DEF ItemsFit
<1>3. d = NoDigest => PinnedDigest(pin[s]) = NoDigest
  BY DEF PinsInv, CmdFits
<1>4. d = NoDigest \/ \E o \in Beside[s] : d = DigestOf(o, v)
  <2>1. CASE cmd.at = "bump"
    BY <2>1 DEF PinsInv, CmdFits, NewMatched
  <2>2. CASE cmd.at = "revert"
    BY <1>2, <2>2 DEF OldMatched
  <2>3. QED
    BY <2>1, <2>2
<1>5. /\ DOMAIN pin' = Descriptor /\ MatchedPins'
      /\ Seen(pin'[s]) = <<v, d>> /\ PinnedDigest(pin'[s]) = d
  BY <1>2, <1>3, <1>4, MemberWritten DEF PinsInv
<1>6. cmd.todo \ {i} = cmd'.todo
  OBVIOUS
<1>7. SavedFit'
  BY DEF PinsInv, SavedFit
<1>8. ASSUME NEW j \in cmd'.todo, cmd.at = "bump", cmd.items[j].newDigest = NoDigest
      PROVE  PinnedDigest(pin'[cmd.items[j].svc]) = NoDigest
  <2>1. /\ j \in cmd.todo /\ cmd.items[j].svc \in Descriptor
        /\ PinnedDigest(pin[cmd.items[j].svc]) = NoDigest
    BY <1>1, <1>6, <1>8 DEF PinsInv, CmdFits, ItemsFit
  <2>2. d = NoDigest
    BY <1>8, <2>1 DEF PinsInv, CmdFits
  <2>3. QED
    BY <1>5, <2>1, <2>2
<1>9. ASSUME NEW j \in cmd'.todo, cmd.at = "revert", cmd.items[j].oldDigest = NoDigest
      PROVE  PinnedDigest(pin'[cmd.items[j].svc]) = NoDigest
  <2>1. /\ j \in cmd.todo /\ cmd.items[j].svc \in Descriptor
        /\ PinnedDigest(pin[cmd.items[j].svc]) = NoDigest
    BY <1>1, <1>6, <1>9 DEF PinsInv, CmdFits, ItemsFit
  <2>2. cmd.items[j].svc = s => d = NoDigest
    BY <1>1, <1>9, <2>1 DEF ItemsFit
  <2>3. QED
    BY <1>5, <2>1, <2>2
<1>10. CmdFits'
  BY <1>1, <1>6, <1>8, <1>9 DEF PinsInv, CmdFits
<1> QED
  BY <1>5, <1>7, <1>10 DEF PinsInv

(* Each of the two writers writes one pin.                                   *)
LEMMA BumpWrites ==
  ASSUME PinsInv, NEW i \in cmd.todo, BumpMember(i)
  PROVE  /\ PinsInv' /\ cmd.at = "bump" /\ cmd'.at = "bump"
         /\ cmd'.items = cmd.items /\ cmd'.todo = cmd.todo \ {i}
         /\ saved' = saved /\ seconds' = seconds /\ undo' = undo /\ upset' = upset
         /\ \A r \in Descriptor \ {cmd.items[i].svc} : pin'[r] = pin[r]
         /\ Seen(pin'[cmd.items[i].svc]) = <<cmd.items[i].newTag, cmd.items[i].newDigest>>
<1>1. PICK s, v, d : /\ s = cmd.items[i].svc
                     /\ v = cmd.items[i].newTag /\ d = cmd.items[i].newDigest
  OBVIOUS
<1>2. s \in DOMAIN pin /\ DOMAIN pin = Descriptor /\ DOMAIN cmd = {"at", "name", "items", "todo"}
  BY <1>1 DEF PinsInv, CmdFits, ItemsFit, BumpMember
<1>3. /\ DOMAIN cmd' = DOMAIN cmd /\ cmd'.at = cmd.at /\ cmd'.items = cmd.items
      /\ cmd'.name = cmd.name /\ cmd'.todo = cmd.todo \ {i}
      /\ saved' = saved /\ seconds' = seconds /\ undo' = undo /\ upset' = upset
      /\ cmd.at = "bump"
  BY <1>2 DEF BumpMember
<1>4. pin' = [pin EXCEPT ![s] = BumpedPin(pin[s], v, d)]
  BY <1>1 DEF BumpMember
<1>5. /\ DOMAIN pin' = DOMAIN pin /\ pin'[s] = BumpedPin(pin[s], v, d)
      /\ \A r \in Descriptor \ {s} : pin'[r] = pin[r]
  BY <1>2, <1>4
<1>6. PinsInv' /\ Seen(pin'[s]) = <<v, d>>
  BY <1>1, <1>3, <1>5, ItemWritten
<1> QED
  BY <1>1, <1>3, <1>5, <1>6

(* Each of the two writers writes one pin.                                   *)
LEMMA RevertWrites ==
  ASSUME PinsInv, NEW i \in cmd.todo, RevertMember(i)
  PROVE  /\ PinsInv' /\ cmd.at = "revert" /\ cmd'.at = "revert"
         /\ cmd'.items = cmd.items /\ cmd'.todo = cmd.todo \ {i}
         /\ saved' = saved /\ seconds' = seconds /\ undo' = undo /\ upset' = upset
         /\ \A r \in Descriptor \ {cmd.items[i].svc} : pin'[r] = pin[r]
         /\ Seen(pin'[cmd.items[i].svc]) = <<cmd.items[i].oldTag, cmd.items[i].oldDigest>>
<1>1. PICK s, v, d : /\ s = cmd.items[i].svc
                     /\ v = cmd.items[i].oldTag /\ d = cmd.items[i].oldDigest
  OBVIOUS
<1>2. s \in DOMAIN pin /\ DOMAIN pin = Descriptor /\ DOMAIN cmd = {"at", "name", "items", "todo"}
  BY <1>1 DEF PinsInv, CmdFits, ItemsFit, RevertMember
<1>3. /\ DOMAIN cmd' = DOMAIN cmd /\ cmd'.at = cmd.at /\ cmd'.items = cmd.items
      /\ cmd'.name = cmd.name /\ cmd'.todo = cmd.todo \ {i}
      /\ saved' = saved /\ seconds' = seconds /\ undo' = undo /\ upset' = upset
      /\ cmd.at = "revert"
  BY <1>2 DEF RevertMember
<1>4. pin' = [pin EXCEPT ![s] = BumpedPin(pin[s], v, d)]
  BY <1>1 DEF RevertMember
<1>5. /\ DOMAIN pin' = DOMAIN pin /\ pin'[s] = BumpedPin(pin[s], v, d)
      /\ \A r \in Descriptor \ {s} : pin'[r] = pin[r]
  BY <1>2, <1>4
<1>6. PinsInv' /\ Seen(pin'[s]) = <<v, d>>
  BY <1>1, <1>3, <1>5, ItemWritten
<1> QED
  BY <1>1, <1>3, <1>5, <1>6

(* The commands write pins of their plans, one at a time; a state file says     *)
(* what its plan found.                                                     *)
LEMMA PinsInvStep == PinsInv /\ [PinsNext]_pinsVars => PinsInv'
<1> SUFFICES ASSUME PinsInv, [PinsNext]_pinsVars
             PROVE  PinsInv'
  OBVIOUS
<1> USE DEF PinsInv
<1>1. ASSUME NEW name \in UpgradeName, NEW force \in BOOLEAN, NEW ask \in Asked(name),
             BeginBump(name, ask[1], ask[2], force)
      PROVE  PinsInv'
  BY <1>1, BeginBumpFits
<1>2. ASSUME NEW i \in cmd.todo, BumpMember(i)
      PROVE  PinsInv'
  BY <1>2, BumpWrites
<1>3. CASE SaveUpgradeState
  <2>1. /\ pin' = pin /\ seconds' = seconds /\ cmd' = NoCmd /\ cmd.at = "bump"
        /\ saved' = {f \in saved : f.at # seconds \/ f.name # cmd.name}
                      \cup {[at |-> seconds, name |-> cmd.name, items |-> cmd.items,
                              nth |-> Len(undo)]}
    BY <1>3 DEF SaveUpgradeState
  <2>2. SavedFit'
    BY <2>1 DEF SavedFit, CmdFits
  <2>3. CmdFits'
    BY <2>1 DEF CmdFits, NoCmd
  <2>4. QED
    BY <2>1, <2>2, <2>3 DEF MatchedPins
<1>4. CASE BeginRollback
  <2>1. PICK f \in saved :
          /\ ~LegacyRefused(f)
          /\ cmd' = [at |-> "revert", name |-> f.name, items |-> f.items,
                     todo |-> DOMAIN f.items]
          /\ pin' = pin /\ saved' = saved /\ seconds' = seconds
    BY <1>4 DEF BeginRollback
  <2>2. /\ DOMAIN cmd' = {"at", "name", "items", "todo"}
        /\ cmd'.at = "revert" /\ cmd'.items = f.items /\ cmd'.name = f.name
        /\ cmd'.todo = DOMAIN f.items
    BY <2>1
  <2>3. CmdFits'
    BY <2>1, <2>2 DEF CmdFits, SavedFit, LegacyRefused
  <2>4. QED
    BY <2>1, <2>3 DEF SavedFit, MatchedPins
<1>5. ASSUME NEW i \in cmd.todo, RevertMember(i)
      PROVE  PinsInv'
  BY <1>5, RevertWrites
<1>6. CASE ArchiveLatestState
  BY <1>6 DEF ArchiveLatestState, SavedFit, CmdFits, NoCmd, MatchedPins
<1>7. CASE KillCommand
  BY <1>7 DEF KillCommand, SavedFit, CmdFits, NoCmd, MatchedPins
<1>8. CASE PinsTick
  BY <1>8 DEF PinsTick, SavedFit, CmdFits, MatchedPins
<1>9. CASE UNCHANGED pinsVars
  BY <1>9 DEF pinsVars, SavedFit, CmdFits, MatchedPins
<1> QED
  BY <1>1, <1>2, <1>3, <1>4, <1>5, <1>6, <1>7, <1>8, <1>9 DEF PinsNext

(* No descriptor has two digests, and none has that of another tag or of a     *)
(* component that is not its own.                                            *)
THEOREM PinsAreMatched == PinsSpec => []MatchedPins
<1>1. PinsInv => MatchedPins
  BY DEF PinsInv
<1> QED
  BY <1>1, PinsInvInit, PinsInvStep, PTL DEF PinsSpec

-----------------------------------------------------------------------------
(* Until an accident the files and the ghost stack are of one length and one   *)
(* order; a file's plan names all that changed between its bump and the next. *)
Upgraded(its) == {its[i].svc : i \in DOMAIN its}

Depth == IF cmd.at = "bump" THEN Len(undo) - 1 ELSE Len(undo)

FilesOrdered ==
  \A f, g \in saved : (f.nth = g.nth => f = g) /\ (f.nth < g.nth => f.at < g.at)

FilesStacked ==
  /\ FilesOrdered
  /\ \A f \in saved : f.nth \in 1..Depth /\ f.at <= seconds
  /\ \A k \in 1..Depth : \E f \in saved : f.nth = k

FilesTell ==
  \A f \in saved :
    /\ \A i \in DOMAIN f.items :
         Seen(undo[f.nth][f.items[i].svc]) = <<f.items[i].oldTag, f.items[i].oldDigest>>
    /\ \A s \in Descriptor \ Upgraded(f.items) :
         Seen(undo[f.nth][s]) = Seen(IF f.nth < Len(undo) THEN undo[f.nth + 1][s] ELSE pin[s])

WorkTells ==
  /\ cmd.at = "bump" =>
       /\ Len(undo) > 0
       /\ \A i \in DOMAIN cmd.items :
            Seen(undo[Len(undo)][cmd.items[i].svc])
              = <<cmd.items[i].oldTag, cmd.items[i].oldDigest>>
       /\ \A s \in Descriptor \ Upgraded(cmd.items) : Seen(undo[Len(undo)][s]) = Seen(pin[s])
  /\ cmd.at = "revert" =>
       /\ Len(undo) > 0
       /\ \E f \in saved : f.nth = Len(undo) /\ f.items = cmd.items
       /\ \A i \in DOMAIN cmd.items \ cmd.todo :
            Seen(pin[cmd.items[i].svc]) = <<cmd.items[i].oldTag, cmd.items[i].oldDigest>>

Stacked == \E P : undo \in Seq(P)

UndoInv ==
  /\ Stacked
  /\ upset \in BOOLEAN
  /\ upset \/ (FilesStacked /\ FilesTell /\ WorkTells)

(* The ghost stack is a sequence that grows and shrinks at its end.           *)
LEMMA StackGrows ==
  ASSUME Stacked, NEW p, undo' = Append(undo, p)
  PROVE  /\ Stacked' /\ Len(undo) \in Nat /\ Len(undo') = Len(undo) + 1
         /\ \A k \in 1..Len(undo) : undo'[k] = undo[k]
         /\ undo'[Len(undo) + 1] = p
<1>1. PICK P : undo \in Seq(P)
  BY DEF Stacked
<1>2. undo \in Seq(P \cup {p}) /\ p \in P \cup {p}
  BY <1>1, SeqMonotonic
<1>3. /\ undo' \in Seq(P \cup {p}) /\ Len(undo') = Len(undo) + 1
      /\ \A k \in 1..Len(undo) : undo'[k] = undo[k]
      /\ undo'[Len(undo) + 1] = p
  BY <1>2, AppendProperties
<1> QED
  BY <1>1, <1>3, LenProperties DEF Stacked

(* A rollback takes the newest archived state and leaves the others as they are.*)
LEMMA StackShrinks ==
  ASSUME Stacked, undo' = Front(undo)
  PROVE  /\ Stacked' /\ Len(undo) \in Nat
         /\ Len(undo) > 0 => /\ Len(undo') = Len(undo) - 1
                            /\ \A k \in 1..(Len(undo) - 1) : undo'[k] = undo[k]
<1>1. PICK P : undo \in Seq(P)
  BY DEF Stacked
<1>2. Len(undo) \in Nat /\ undo' = SubSeq(undo, 1, Len(undo) - 1)
  BY <1>1, LenProperties DEF Front
<1>3. \A i \in 1..(Len(undo) - 1) : undo[i] \in P
  BY <1>1, <1>2, ElementOfSeq
<1>4. PICK m \in Int, n \in Int : m = 1 /\ n = Len(undo) - 1
  BY <1>2
<1>5. /\ undo' \in Seq(P) /\ Len(undo') = IF m <= n THEN n - m + 1 ELSE 0
      /\ \A i \in 1..(n - m + 1) : undo'[i] = undo[m + i - 1]
  BY <1>2, <1>3, <1>4, SubSeqProperties
<1>6. Len(undo) > 0 => Len(undo') = Len(undo) - 1
  BY <1>2, <1>4, <1>5
<1>7. \A k \in 1..(Len(undo) - 1) : undo'[k] = undo[k]
  BY <1>2, <1>4, <1>5
<1> QED
  BY <1>2, <1>5, <1>6, <1>7 DEF Stacked

(* The archived states can be counted.                                      *)
LEMMA StackLength == Stacked => Len(undo) \in Nat
BY LenProperties DEF Stacked

(* The latest file by name is the last that was saved.                        *)
LEMMA LatestIsLast ==
  ASSUME PinsInv, Stacked, FilesStacked, cmd.at # "bump", NEW f \in saved
  PROVE  IsLatest(f) <=> f.nth = Len(undo)
<1>1. Len(undo) \in Nat /\ Depth = Len(undo) /\ f.nth \in 1..Len(undo)
  BY StackLength DEF FilesStacked, Depth
<1>2. \A g \in saved : g.at \in Nat /\ g.nth \in 1..Len(undo) /\ NameRank[g.name] \in Nat
  BY <1>1, PinsAssumption DEF FilesStacked, PinsInv, SavedFit
<1>3. ASSUME f.nth = Len(undo) PROVE IsLatest(f)
  <2>1. ASSUME NEW g \in saved PROVE Earlier(g, f)
    <3>1. CASE g = f
      BY <1>2, <3>1 DEF Earlier
    <3>2. CASE g # f
      <4>0. g.nth # f.nth
        BY <3>2 DEF FilesStacked, FilesOrdered
      <4>1. g.nth < f.nth
        BY <1>1, <1>2, <1>3, <4>0
      <4>2. QED
        BY <4>1 DEF FilesStacked, FilesOrdered, Earlier
    <3>3. QED
      BY <3>1, <3>2
  <2>2. QED
    BY <2>1 DEF IsLatest
<1>4. ASSUME IsLatest(f) PROVE f.nth = Len(undo)
  <2>1. PICK g \in saved : g.nth = Len(undo)
    BY <1>1 DEF FilesStacked
  <2>2. Earlier(g, f)
    BY <1>4 DEF IsLatest
  <2>3. ~(f.nth < g.nth)
    BY <1>2, <2>2 DEF FilesStacked, FilesOrdered, Earlier
  <2>4. QED
    BY <1>1, <2>1, <2>3
<1> QED
  BY <1>3, <1>4

(* A revert that has done all its items has put back every pin.               *)
LEMMA AllUndone ==
  ASSUME PinsInv, UndoInv, ~upset, cmd.at = "revert", cmd.todo = {}
  PROVE  Len(undo) > 0 /\ \A s \in Descriptor : Seen(pin[s]) = Seen(undo[Len(undo)][s])
<1>1. PICK f \in saved : f.nth = Len(undo) /\ f.items = cmd.items
  BY DEF UndoInv, WorkTells
<1>2. Len(undo) \in Nat /\ Len(undo) > 0 /\ ~(f.nth < Len(undo))
  BY <1>1, StackLength DEF UndoInv, WorkTells
<1>3. \A i \in DOMAIN cmd.items :
        Seen(pin[cmd.items[i].svc]) = Seen(undo[Len(undo)][cmd.items[i].svc])
  <2>1. \A i \in DOMAIN cmd.items :
          Seen(pin[cmd.items[i].svc]) = <<cmd.items[i].oldTag, cmd.items[i].oldDigest>>
    BY DEF UndoInv, WorkTells
  <2>2. \A i \in DOMAIN f.items :
          Seen(undo[f.nth][f.items[i].svc]) = <<f.items[i].oldTag, f.items[i].oldDigest>>
    BY DEF UndoInv, FilesTell
  <2>3. QED
    BY <1>1, <2>1, <2>2
<1>4. \A s \in Descriptor \ Upgraded(cmd.items) : Seen(undo[Len(undo)][s]) = Seen(pin[s])
  BY <1>1, <1>2 DEF UndoInv, FilesTell
<1> QED
  BY <1>2, <1>3, <1>4 DEF Upgraded

-----------------------------------------------------------------------------
(* No bump has run, and there is nothing to undo.                           *)
LEMMA UndoInvInit == PinsInit => UndoInv
<1> SUFFICES ASSUME PinsInit PROVE UndoInv
  OBVIOUS
<1>1. undo \in Seq({}) /\ Len(undo) = 0
  BY EmptySeq DEF PinsInit
<1>2. Stacked
  BY <1>1 DEF Stacked
<1>3. Depth = 0 /\ saved = {} /\ cmd.at = "idle" /\ upset = FALSE
  BY <1>1 DEF PinsInit, Depth, NoCmd
<1>4. FilesStacked
  BY <1>3 DEF FilesStacked, FilesOrdered
<1>5. FilesTell /\ WorkTells
  BY <1>3 DEF FilesTell, WorkTells
<1> QED
  BY <1>2, <1>3, <1>4, <1>5 DEF UndoInv

(* While a command works, the files tell what they told, for the stack is as    *)
(* it was and only pins of the plan change.                                   *)
LEMMA WorkStep ==
  ASSUME PinsInv, PinsInv', UndoInv, ~upset, NEW i \in cmd.todo, cmd.at \in {"bump", "revert"},
         undo' = undo, saved' = saved, seconds' = seconds, upset' = upset,
         cmd'.at = cmd.at, cmd'.items = cmd.items, cmd'.todo = cmd.todo \ {i},
         \A r \in Descriptor \ {cmd.items[i].svc} : pin'[r] = pin[r],
         cmd.at = "revert" => Seen(pin'[cmd.items[i].svc])
                                = <<cmd.items[i].oldTag, cmd.items[i].oldDigest>>
  PROVE  UndoInv'
<1>1. Stacked /\ FilesStacked /\ FilesTell /\ WorkTells /\ Len(undo) \in Nat
  BY StackLength DEF UndoInv
<1>2. /\ cmd.todo \subseteq DOMAIN cmd.items /\ ItemsFit(cmd.items)
      /\ cmd.items[i].svc \in Upgraded(cmd.items)
  BY DEF PinsInv, CmdFits, Upgraded
<1>3. Depth' = Depth /\ Stacked'
  BY <1>1 DEF Depth, Stacked
<1>4. FilesStacked'
  BY <1>1, <1>3 DEF FilesStacked, FilesOrdered
<1>5. \A s \in Descriptor \ Upgraded(cmd.items) : pin'[s] = pin[s]
  BY <1>2
<1>6. ASSUME NEW f \in saved, NEW s \in Descriptor \ Upgraded(f.items)
      PROVE  Seen(undo[f.nth][s]) = Seen(IF f.nth < Len(undo) THEN undo[f.nth + 1][s] ELSE pin'[s])
  <2>1. CASE f.nth < Len(undo)
    BY <1>1, <2>1 DEF FilesTell
  <2>2. CASE ~(f.nth < Len(undo))
    <3>1. cmd.at = "revert" /\ f.nth = Len(undo)
      BY <1>1, <2>2 DEF FilesStacked, Depth
    <3>2. f.items = cmd.items
      BY <1>1, <3>1 DEF WorkTells, FilesStacked, FilesOrdered
    <3>3. QED
      BY <1>1, <1>5, <1>6, <2>2, <3>2 DEF FilesTell
  <2>3. QED
    BY <2>1, <2>2
<1>7. FilesTell'
  BY <1>1, <1>6 DEF FilesTell
<1>8. ASSUME cmd.at = "revert", NEW j \in DOMAIN cmd.items \ cmd'.todo
      PROVE  Seen(pin'[cmd.items[j].svc]) = <<cmd.items[j].oldTag, cmd.items[j].oldDigest>>
  <2>1. CASE cmd.items[j].svc = cmd.items[i].svc
    BY <1>2, <1>8, <2>1 DEF ItemsFit
  <2>2. CASE cmd.items[j].svc # cmd.items[i].svc
    <3>1. j \in DOMAIN cmd.items \ cmd.todo /\ cmd.items[j].svc \in Descriptor
      BY <1>2, <2>2 DEF ItemsFit
    <3>2. QED
      BY <1>1, <1>8, <2>2, <3>1 DEF WorkTells
  <2>3. QED
    BY <2>1, <2>2
<1>9. WorkTells'
  BY <1>1, <1>5, <1>8 DEF WorkTells
<1> QED
  BY <1>3, <1>4, <1>7, <1>9 DEF UndoInv

(* A bump puts the pins it found on the stack.                                *)
LEMMA BeginBumpStacks ==
  ASSUME PinsInv, UndoInv, ~upset, NEW name \in UpgradeName, NEW force \in BOOLEAN,
         NEW ask \in Asked(name), BeginBump(name, ask[1], ask[2], force)
  PROVE  UndoInv'
<1> DEFINE its == Plan(name, ask[1], ask[2])
<1>1. /\ cmd'.at = "bump" /\ cmd'.items = its /\ cmd.at = "idle"
      /\ undo' = Append(undo, pin) /\ upset' = upset
      /\ pin' = pin /\ saved' = saved /\ seconds' = seconds
  BY DEF BeginBump
<1>2. Stacked /\ FilesStacked /\ FilesTell
  BY DEF UndoInv
<1>3. /\ Stacked' /\ Len(undo) \in Nat /\ Len(undo') = Len(undo) + 1
      /\ \A k \in 1..Len(undo) : undo'[k] = undo[k]
      /\ undo'[Len(undo) + 1] = pin
  BY <1>1, <1>2, StackGrows
<1>4. Depth' = Len(undo) /\ Depth = Len(undo)
  BY <1>1, <1>3 DEF Depth
<1>5. FilesStacked'
  BY <1>1, <1>2, <1>4 DEF FilesStacked, FilesOrdered
<1>6. ASSUME NEW f \in saved
      PROVE  /\ undo'[f.nth] = undo[f.nth] /\ f.nth < Len(undo')
             /\ undo'[f.nth + 1] = IF f.nth < Len(undo) THEN undo[f.nth + 1] ELSE pin
  <2>1. f.nth \in 1..Len(undo)
    BY <1>2, <1>4 DEF FilesStacked
  <2>2. QED
    BY <1>3, <2>1
<1>7. ASSUME NEW f \in saved, NEW s \in Descriptor \ Upgraded(f.items)
      PROVE  Seen(undo'[f.nth][s]) = Seen(undo'[f.nth + 1][s])
  BY <1>2, <1>6 DEF FilesTell
<1>8. FilesTell'
  <2>1. ASSUME NEW f \in saved, NEW i \in DOMAIN f.items
        PROVE  Seen(undo'[f.nth][f.items[i].svc]) = <<f.items[i].oldTag, f.items[i].oldDigest>>
    BY <1>2, <1>6 DEF FilesTell
  <2>2. QED
    BY <1>1, <1>6, <1>7, <2>1 DEF FilesTell
<1>9. \A i \in DOMAIN its : Seen(pin[its[i].svc]) = <<its[i].oldTag, its[i].oldDigest>>
  BY PlanDomain, PlanForm DEF Seen
<1>10. WorkTells'
  BY <1>1, <1>3, <1>9 DEF WorkTells
<1> QED
  BY <1>1, <1>3, <1>5, <1>8, <1>10 DEF UndoInv

(* A save that shares no second adds a file at the end.                       *)
LEMMA SaveStacks ==
  ASSUME PinsInv, UndoInv, ~upset', SaveUpgradeState
  PROVE  UndoInv'
<1> DEFINE new == [at |-> seconds, name |-> cmd.name, items |-> cmd.items, nth |-> Len(undo)]
<1>1. /\ ~upset /\ (\A f \in saved : f.at # seconds) /\ cmd.at = "bump" /\ cmd'.at = "idle"
      /\ pin' = pin /\ seconds' = seconds /\ undo' = undo
      /\ saved' = {f \in saved : f.at # seconds \/ f.name # cmd.name} \cup {new}
  BY DEF SaveUpgradeState, NoCmd, UndoInv
<1>2. saved' = saved \cup {new}
  BY <1>1
<1>3. new.at = seconds /\ new.items = cmd.items /\ new.nth = Len(undo)
  OBVIOUS
<1> HIDE DEF new
<1>4. /\ Stacked /\ FilesStacked /\ FilesTell /\ WorkTells /\ Len(undo) \in Nat
      /\ seconds \in Nat
  BY <1>1, StackLength DEF UndoInv, PinsInv
<1>5. Depth' = Len(undo) /\ Depth = Len(undo) - 1 /\ Len(undo) > 0
  BY <1>1, <1>4 DEF Depth, WorkTells
<1>6. \A f \in saved : /\ f.nth \in 1..(Len(undo) - 1) /\ f.at \in Nat
                       /\ f.at <= seconds /\ f.at # seconds
  BY <1>1, <1>4, <1>5 DEF FilesStacked, PinsInv, SavedFit
<1>7. FilesStacked'
  <2>1. \A f \in saved' : f.nth \in 1..Depth' /\ f.at <= seconds'
    BY <1>1, <1>2, <1>3, <1>4, <1>5, <1>6
  <2>2. ASSUME NEW k \in 1..Depth' PROVE \E f \in saved' : f.nth = k
    <3>1. CASE k = Len(undo)
      BY <1>2, <1>3, <3>1
    <3>2. CASE k # Len(undo)
      <4>1. k \in 1..Depth
        BY <1>4, <1>5, <3>2
      <4>2. QED
        BY <1>2, <1>4, <4>1 DEF FilesStacked
    <3>3. QED
      BY <3>1, <3>2
  <2>3. ASSUME NEW f \in saved', NEW g \in saved'
        PROVE  (f.nth = g.nth => f = g) /\ (f.nth < g.nth => f.at < g.at)
    <3>1. CASE f \in saved /\ g \in saved
      BY <1>4, <3>1 DEF FilesStacked, FilesOrdered
    <3>2. CASE f \in saved /\ g = new
      BY <1>3, <1>4, <1>6, <3>2
    <3>3. CASE f = new /\ g \in saved
      BY <1>3, <1>4, <1>6, <3>3
    <3>4. QED
      BY <1>2, <1>3, <1>4, <3>1, <3>2, <3>3
  <2>4. QED
    BY <2>1, <2>2, <2>3 DEF FilesStacked, FilesOrdered
<1>8. \A f \in saved : f.nth < Len(undo)
  BY <1>4, <1>6
<1>9. FilesTell'
  BY <1>1, <1>2, <1>3, <1>4, <1>8 DEF FilesTell, WorkTells
<1>10. Stacked' /\ WorkTells'
  BY <1>1, <1>4 DEF Stacked, WorkTells
<1> QED
  BY <1>1, <1>7, <1>9, <1>10 DEF UndoInv, SaveUpgradeState

(* The files below the last tell what they told once its pins are off the      *)
(* stack, if the pins are now those.                                         *)
LEMMA PoppedTell ==
  ASSUME FilesTell, Len(undo) \in Nat, Len(undo) > 0, pin' = pin,
         Len(undo') = Len(undo) - 1, \A k \in 1..(Len(undo) - 1) : undo'[k] = undo[k],
         \A f \in saved' : f \in saved /\ f.nth \in 1..(Len(undo) - 1),
         \A s \in Descriptor : Seen(pin[s]) = Seen(undo[Len(undo)][s])
  PROVE  FilesTell'
<1>1. ASSUME NEW f \in saved'
      PROVE  /\ f \in saved /\ f.nth < Len(undo) /\ undo'[f.nth] = undo[f.nth]
             /\ f.nth < Len(undo') => undo'[f.nth + 1] = undo[f.nth + 1]
             /\ ~(f.nth < Len(undo')) => f.nth + 1 = Len(undo)
  <2>1. f \in saved /\ f.nth \in 1..(Len(undo) - 1)
    BY <1>1
  <2>2. PICK k \in 1..(Len(undo) - 1) : k = f.nth
    BY <2>1
  <2>3. undo'[k] = undo[k]
    BY <2>2
  <2>4. k < Len(undo') => k + 1 \in 1..(Len(undo) - 1)
    BY <2>2
  <2>5. k < Len(undo') => undo'[k + 1] = undo[k + 1]
    BY <2>4
  <2>6. k < Len(undo) /\ (~(k < Len(undo')) => k + 1 = Len(undo))
    BY <2>2
  <2>7. QED
    BY <2>1, <2>2, <2>3, <2>5, <2>6
<1>2. ASSUME NEW f \in saved', NEW s \in Descriptor \ Upgraded(f.items)
      PROVE  Seen(undo'[f.nth][s])
               = Seen(IF f.nth < Len(undo') THEN undo'[f.nth + 1][s] ELSE pin[s])
  <2>1. Seen(undo[f.nth][s]) = Seen(undo[f.nth + 1][s])
    BY <1>1 DEF FilesTell
  <2>2. CASE f.nth < Len(undo')
    BY <1>1, <2>1, <2>2
  <2>3. CASE ~(f.nth < Len(undo'))
    <3>1. f.nth + 1 = Len(undo)
      BY <1>1, <2>3
    <3>2. QED
      BY <1>1, <2>1, <2>3, <3>1
  <2>4. QED
    BY <2>2, <2>3
<1> QED
  BY <1>1, <1>2 DEF FilesTell

(* A rollback takes up the last file; a kill before a bump wrote anything, or    *)
(* a rollback that ends, takes the last pins off the stack.                   *)
LEMMA RollbackBegins ==
  ASSUME PinsInv, UndoInv, ~upset, BeginRollback
  PROVE  UndoInv'
<1>1. PICK f \in saved : /\ IsLatest(f) /\ cmd.at = "idle"
                         /\ cmd' = [at |-> "revert", name |-> f.name, items |-> f.items,
                                    todo |-> DOMAIN f.items]
                         /\ pin' = pin /\ saved' = saved /\ seconds' = seconds
                         /\ undo' = undo /\ upset' = upset
  BY DEF BeginRollback
<1>2. cmd'.at = "revert" /\ cmd'.items = f.items /\ cmd'.todo = DOMAIN f.items
  BY <1>1
<1>3. Stacked /\ FilesStacked /\ FilesTell
  BY DEF UndoInv
<1>4. f.nth = Len(undo) /\ Len(undo) \in Nat
  BY <1>1, <1>3, LatestIsLast, StackLength
<1>5. Depth' = Depth /\ Len(undo) > 0
  BY <1>1, <1>2, <1>3, <1>4 DEF Depth, FilesStacked
<1>6. FilesStacked' /\ FilesTell' /\ Stacked'
  BY <1>1, <1>3, <1>5 DEF FilesStacked, FilesOrdered, FilesTell, Stacked
<1>7. WorkTells'
  BY <1>1, <1>2, <1>4, <1>5 DEF WorkTells
<1> QED
  BY <1>1, <1>6, <1>7 DEF UndoInv

(* A rollback that archives its state file is through with that bump.       *)
LEMMA RollbackEnds ==
  ASSUME PinsInv, UndoInv, ~upset, ArchiveLatestState
  PROVE  UndoInv'
<1>1. /\ cmd.at = "revert" /\ cmd.todo = {} /\ cmd'.at = "idle"
      /\ saved' = {f \in saved : ~IsLatest(f)} /\ undo' = Front(undo)
      /\ pin' = pin /\ seconds' = seconds /\ upset' = upset
  BY DEF ArchiveLatestState, NoCmd
<1>2. Stacked /\ FilesStacked /\ FilesTell
  BY DEF UndoInv
<1>3. Len(undo) > 0 /\ \A s \in Descriptor : Seen(pin[s]) = Seen(undo[Len(undo)][s])
  BY <1>1, AllUndone
<1>4. /\ Stacked' /\ Len(undo) \in Nat /\ Len(undo') = Len(undo) - 1
      /\ \A k \in 1..(Len(undo) - 1) : undo'[k] = undo[k]
  BY <1>1, <1>2, <1>3, StackShrinks
<1>5. Depth' = Len(undo) - 1 /\ Depth = Len(undo)
  BY <1>1, <1>4 DEF Depth
<1>6. saved' = {f \in saved : f.nth # Len(undo)}
  BY <1>1, <1>2, LatestIsLast
<1>7. \A f \in saved' : f \in saved /\ f.nth \in 1..(Len(undo) - 1)
  BY <1>2, <1>4, <1>5, <1>6 DEF FilesStacked
<1>8. FilesStacked'
  <2>1. \A k \in 1..Depth' : k \in 1..Depth /\ k # Len(undo)
    BY <1>4, <1>5
  <2>2. QED
    BY <1>1, <1>2, <1>5, <1>6, <1>7, <2>1 DEF FilesStacked, FilesOrdered
<1>9. FilesTell'
  BY <1>1, <1>2, <1>3, <1>4, <1>7, PoppedTell
<1> QED
  BY <1>1, <1>4, <1>8, <1>9 DEF UndoInv, WorkTells

(* A command that dies leaves the saved pins in the state file it wrote.    *)
LEMMA KillStacks ==
  ASSUME PinsInv, UndoInv, ~upset', KillCommand
  PROVE  UndoInv'
<1>1. /\ cmd.at # "idle" /\ cmd'.at = "idle" /\ pin' = pin /\ saved' = saved
      /\ seconds' = seconds
      /\ cmd.at = "bump" => undo' = Front(undo) /\ upset' = (upset \/ pin # Last(undo))
      /\ cmd.at # "bump" => undo' = undo /\ upset' = upset
  BY DEF KillCommand, NoCmd
<1>2. ~upset /\ Stacked /\ FilesStacked /\ FilesTell /\ WorkTells /\ upset' = FALSE
  <2>1. upset \in BOOLEAN
    BY DEF UndoInv
  <2>2. upset' = upset \/ upset' = (upset \/ pin # Last(undo))
    BY <1>1
  <2>3. upset' \in BOOLEAN
    BY <2>1, <2>2
  <2>4. ~upset
    BY <2>1, <2>2
  <2>5. QED
    BY <2>3, <2>4 DEF UndoInv
<1>3. CASE cmd.at = "bump"
  <2>1. Len(undo) > 0 /\ pin = undo[Len(undo)]
    BY <1>1, <1>2, <1>3 DEF WorkTells, Last
  <2>2. /\ Stacked' /\ Len(undo) \in Nat /\ Len(undo') = Len(undo) - 1
        /\ \A k \in 1..(Len(undo) - 1) : undo'[k] = undo[k]
    BY <1>1, <1>2, <1>3, <2>1, StackShrinks
  <2>3. Depth' = Len(undo) - 1 /\ Depth = Len(undo) - 1
    BY <1>1, <1>3, <2>2 DEF Depth
  <2>4. FilesStacked' /\ \A f \in saved' : f \in saved /\ f.nth \in 1..(Len(undo) - 1)
    BY <1>1, <1>2, <2>3 DEF FilesStacked, FilesOrdered
  <2>5. \A s \in Descriptor : Seen(pin[s]) = Seen(undo[Len(undo)][s])
    BY <2>1
  <2>6. FilesTell'
    BY <1>1, <1>2, <2>1, <2>2, <2>4, <2>5, PoppedTell
  <2>7. QED
    BY <1>1, <1>2, <2>2, <2>4, <2>6 DEF UndoInv, WorkTells
<1>4. CASE cmd.at # "bump"
  <2>1. Depth' = Depth
    BY <1>1, <1>4 DEF Depth
  <2>2. FilesStacked' /\ FilesTell' /\ Stacked'
    BY <1>1, <1>2, <1>4, <2>1 DEF FilesStacked, FilesOrdered, FilesTell, Stacked
  <2>3. QED
    BY <1>1, <1>2, <2>2 DEF UndoInv, WorkTells
<1> QED
  BY <1>3, <1>4

(* Every step keeps what a rollback needs.                                  *)
LEMMA UndoInvStep == PinsInv /\ PinsInv' /\ UndoInv /\ [PinsNext]_pinsVars => UndoInv'
<1> SUFFICES ASSUME PinsInv, PinsInv', UndoInv, [PinsNext]_pinsVars
             PROVE  UndoInv'
  OBVIOUS
<1>1. upset' \in BOOLEAN /\ (upset => upset')
  BY DEF UndoInv, PinsNext, pinsVars, BeginBump, BumpMember, RevertMember, SaveUpgradeState,
         BeginRollback, ArchiveLatestState, KillCommand, PinsTick
<1>2. Stacked'
  <2>1. CASE undo' = undo
    BY <2>1 DEF UndoInv, Stacked
  <2>2. CASE undo' = Append(undo, pin)
    BY <2>2, StackGrows DEF UndoInv
  <2>3. CASE undo' = Front(undo)
    BY <2>3, StackShrinks DEF UndoInv
  <2>4. QED
    BY <2>1, <2>2, <2>3
       DEF PinsNext, pinsVars, BeginBump, BumpMember, RevertMember, SaveUpgradeState,
           BeginRollback, ArchiveLatestState, KillCommand, PinsTick
<1>3. CASE upset'
  BY <1>1, <1>2, <1>3 DEF UndoInv
<1>4. CASE ~upset'
  <2>0. ~upset
    BY <1>1, <1>4 DEF UndoInv
  <2>1. ASSUME NEW name \in UpgradeName, NEW force \in BOOLEAN, NEW ask \in Asked(name),
               BeginBump(name, ask[1], ask[2], force)
        PROVE  UndoInv'
    BY <2>0, <2>1, BeginBumpStacks
  <2>2. ASSUME NEW i \in cmd.todo, BumpMember(i)
        PROVE  UndoInv'
    BY <2>0, <2>2, BumpWrites, WorkStep
  <2>3. ASSUME NEW i \in cmd.todo, RevertMember(i)
        PROVE  UndoInv'
    BY <2>0, <2>3, RevertWrites, WorkStep
  <2>4. CASE PinsTick
    <3>1. /\ pin' = pin /\ saved' = saved /\ cmd' = cmd /\ undo' = undo /\ upset' = upset
          /\ seconds' = seconds + 1
      BY <2>4 DEF PinsTick
    <3>2. Depth' = Depth /\ FilesTell' /\ WorkTells'
      BY <2>0, <3>1 DEF Depth, FilesTell, WorkTells, UndoInv
    <3>3. \A f \in saved : f.at <= seconds'
      BY <2>0, <3>1 DEF UndoInv, FilesStacked, PinsInv, SavedFit
    <3>4. FilesStacked'
      BY <2>0, <3>1, <3>2, <3>3 DEF UndoInv, FilesStacked, FilesOrdered
    <3>5. QED
      BY <1>1, <1>2, <3>2, <3>4 DEF UndoInv
  <2>5. CASE UNCHANGED pinsVars
    <3>1. /\ pin' = pin /\ saved' = saved /\ cmd' = cmd /\ undo' = undo /\ upset' = upset
          /\ seconds' = seconds
      BY <2>5 DEF pinsVars
    <3>2. Depth' = Depth /\ FilesTell' /\ WorkTells'
      BY <2>0, <3>1 DEF Depth, FilesTell, WorkTells, UndoInv
    <3>4. FilesStacked'
      BY <2>0, <3>1, <3>2 DEF UndoInv, FilesStacked, FilesOrdered
    <3>5. QED
      BY <1>1, <1>2, <3>2, <3>4 DEF UndoInv
  <2>6. QED
    BY <1>4, <2>0, <2>1, <2>2, <2>3, <2>4, <2>5, SaveStacks, RollbackBegins, RollbackEnds,
       KillStacks DEF PinsNext
<1> QED
  BY <1>3, <1>4

(* A rollback that ends has put back every pin its bump found.                *)
THEOREM RollbackRestoresPins == PinsSpec => RollbackUndoes
<1>1. ASSUME PinsInv, UndoInv, ArchiveLatestState
      PROVE  upset \/ Rendered(pin) = Rendered(Last(undo))
  <2>1. CASE ~upset
    <3>1. /\ cmd.at = "revert" /\ cmd.todo = {}
      BY <1>1 DEF ArchiveLatestState
    <3>2. \A s \in Descriptor : Seen(pin[s]) = Seen(undo[Len(undo)][s])
      BY <1>1, <2>1, <3>1, AllUndone
    <3>3. Rendered(pin) = Rendered(undo[Len(undo)])
      BY <3>2 DEF Rendered, Seen
    <3>4. QED
      BY <3>3 DEF Last
  <2>2. QED
    BY <2>1
<1>2. PinsInv /\ UndoInv /\ [PinsNext]_pinsVars
        => [ArchiveLatestState => upset \/ Rendered(pin) = Rendered(Last(undo))]_pinsVars
  BY <1>1
<1> QED
  BY <1>2, PinsInvInit, PinsInvStep, UndoInvInit, UndoInvStep, PTL DEF PinsSpec, RollbackUndoes

-----------------------------------------------------------------------------
(***************************************************************************)
(* Backup                                                                   *)
(***************************************************************************)

Contents == Nat \cup {Nothing, Half, Rotten, Empty}

(* What an archive holds: some of the members.                              *)
Gathered == UNION {[members -> Contents] : members \in SUBSET Member}

Swapping == {"swap", "dropped", "aside", "in"}

JobFields ==
  {"cmd", "at", "todo", "got", "listed", "sudo", "whole", "failed", "dirty"}

LiveTyped == live \in [File \cup Database -> Contents]
DirTyped == dir \in [Directory -> [target : Contents, rollback : Contents, staged : Contents]]
ArchivesTyped == archives \in Seq([got : Gathered, listed : SUBSET Service])
JobTyped ==
  /\ DOMAIN job = JobFields
  /\ job.todo \subseteq Member /\ job.got \in Gathered /\ job.listed \subseteq Service
  /\ job.at \in {"next", "staging"} \cup Swapping => job.todo \subseteq DOMAIN job.got
CountsTyped == up \subseteq Service /\ work \in Nat /\ faults \in Nat

BackupTyped == LiveTyped /\ DirTyped /\ ArchivesTyped /\ JobTyped /\ CountsTyped

(* What a backup has read is there, and a directory in it is complete.       *)
Archived(packed) ==
  \A m \in DOMAIN packed : packed[m] # Nothing /\ (m \in Directory => packed[m] # Half)

ArchivesHold == Archived(job.got) /\ \A i \in DOMAIN archives : Archived(archives[i].got)

(* Nothing but the staging path ever holds half a tree.                      *)
LiveHolds ==
  /\ \A m \in File \cup Database : live[m] # Nothing
  /\ \A d \in Directory : dir[d].target # Half /\ dir[d].rollback # Half

(* A restore works on what its archive has, and swaps in what it unpacked.    *)
RestoresArchive ==
  /\ job.at \in {"staging"} \cup Swapping => job.cmd = "restore"
  /\ job.cmd = "restore" => job.at \in {"next", "staging"} \cup Swapping
  /\ \A m \in Member : job.at \in {"staging"} \cup Swapping /\ Turn(m) =>
       /\ m \in Directory
       /\ job.at \in Swapping \ {"in"} => dir[m].staged = job.got[m]
       /\ job.at = "in" => m \in job.dirty \/ dir[m].target = job.got[m]

HoldInv == ArchivesHold /\ LiveHolds /\ RestoresArchive

(* With no fault yet a directory is at its own path, or aside for a moment;   *)
(* after one it is there or aside, unless the new tree is about to move in.   *)
NoFaultYet ==
  faults = 0 => \A d \in Directory :
    IF job.at = "aside" /\ Turn(d) THEN Whole(dir[d].rollback) ELSE Whole(dir[d].target)

OneFaultYet ==
  faults <= 1 /\ ~resudo => \A d \in Directory :
    /\ ~(job.at \in Swapping /\ Turn(d)) => Whole(dir[d].target) \/ Whole(dir[d].rollback)
    /\ job.at = "in" /\ Turn(d) => Whole(dir[d].target)

CopyInv == NoFaultYet /\ OneFaultYet

(* A restore that has not failed has put in place what it has done.           *)
RestoredSoFar ==
  job.cmd = "restore" /\ job.whole /\ ~job.failed =>
    \A m \in DOMAIN job.got \ (job.todo \cup job.dirty \cup Globals) :
      job.got[m] # Empty => Content(m) = job.got[m]

CoversData(packed, listed) ==
  listed # {} /\ UNION {DataOf[s] : s \in listed} \subseteq DOMAIN packed

MarkerCovers ==
  /\ marker # NoMarker =>
       marker \in DOMAIN archives /\ CoversData(archives[marker].got, archives[marker].listed)
  /\ job.at = "stamp" =>
       LET last == Len(archives)
       IN last > 0 /\ CoversData(archives[last].got, archives[last].listed)
  /\ job.cmd = "backup" /\ job.at = "read" /\ job.whole =>
       /\ job.listed # {}
       /\ UNION {DataOf[s] : s \in job.listed} \subseteq DOMAIN job.got \cup job.todo

-----------------------------------------------------------------------------
(* What a load of a dump does to the command and to the database.            *)
LEMMA LoadDumpDoes ==
  ASSUME NEW m \in Member, LoadDump(m)
  PROVE  /\ job.at = "next" /\ Turn(m) /\ m \in Database
         /\ \E content \in {live[m], job.got[m], Half} : \E partly \in BOOLEAN :
              /\ live' = [live EXCEPT ![m] = content]
              /\ job' = [Done(m) EXCEPT !.failed = @ \/ partly]
              /\ partly \/ m \in Globals \/ job.got[m] = Empty \/ content = job.got[m]
         /\ faults' \in {faults, faults + 1}
         /\ UNCHANGED <<dir, up, archives, marker, work, restores, resudo>>
<1>1. CASE ~Loads(m) \/ (Loads(m) /\ job.got[m] # Empty /\ Clashes(m))
  <2>1. PICK content \in {live[m], Half} : Loaded(m, content, TRUE)
    BY <1>1 DEF LoadDump
  <2> QED BY <1>1, <2>1 DEF LoadDump, Loaded
<1>2. CASE Loads(m) /\ job.got[m] = Empty
  BY <1>2 DEF LoadDump, Loaded
<1>3. CASE Loads(m) /\ job.got[m] # Empty /\ ~Clashes(m)
  <2>1. Loaded(m, job.got[m], FALSE) \/ Loaded(m, Half, m \notin Globals)
    BY <1>3 DEF LoadDump
  <2> QED BY <1>3, <2>1 DEF LoadDump, Loaded
<1> QED BY <1>1, <1>2, <1>3

(* ... and to the rest of the command.                                       *)
LEMMA LoadedJob ==
  ASSUME NEW m \in Member, LoadDump(m), DOMAIN job = JobFields
  PROVE  /\ DOMAIN job' = JobFields /\ job'.at = "next" /\ job'.todo = job.todo \ {m}
         /\ job'.cmd = job.cmd /\ job'.got = job.got /\ job'.listed = job.listed
         /\ job'.dirty = job.dirty /\ job'.whole = job.whole
<1>1. PICK partly \in BOOLEAN : job' = [Done(m) EXCEPT !.failed = @ \/ partly]
  BY LoadDumpDoes
<1> QED BY <1>1 DEF Done, JobFields

(* What a step of the backups does not touch.                                *)
LEMMA WhoWrites ==
  ASSUME BackupNext
  PROVE  /\ \/ UNCHANGED dir
            \/ \E m \in Member : StageDirectory(m) \/ SwapDirectory(m) \/ SwapFails(m)
                                   \/ StackWrites(m)
         /\ \/ UNCHANGED live
            \/ \E m \in Member : RestoreFile(m) \/ LoadDump(m) \/ StackWrites(m)
            \/ \E s \in Service : Reinitialise(s)
         /\ \/ UNCHANGED archives
            \/ FinishArchive
            \/ \E i \in DOMAIN archives : \E m \in DOMAIN archives[i].got \cap Database : Rot(i, m)
         /\ \/ UNCHANGED faults
            \/ KillJob
            \/ \E m \in Member : LoadDump(m) \/ SwapFails(m)
         /\ UNCHANGED resudo \/ \E m \in Member : StageDirectory(m)
         /\ UNCHANGED up \/ \E s \in Service : StartOrStop(s)
         /\ \/ UNCHANGED work
            \/ \E m \in Member : StackWrites(m)
            \/ \E s \in Service : Reinitialise(s)
<1> USE DEF BeginBackup, BeginDrill, AbortBackup, FinishArchive, StampMarker, RestoreReturns,
            DrillRestores, DrillReturns, KillJob
<1>1. ASSUME NEW data \in BOOLEAN, BeginBackup(data) \/ BeginDrill(data)
      PROVE UNCHANGED <<dir, live, archives, faults, resudo, up, work>>
  BY <1>1
<1>2. ASSUME NEW i \in DOMAIN archives, NEW force \in BOOLEAN, NEW skip \in BOOLEAN,
             NEW sudo \in BOOLEAN, NEW label \in {Nothing} \cup Config,
             BeginRestore(i, label, force, skip, sudo)
      PROVE  UNCHANGED <<dir, live, archives, faults, resudo, up, work>>
  BY <1>2 DEF BeginRestore
<1>3. ASSUME NEW m \in Member, ReadMember(m) \/ DrillMember(m)
      PROVE  UNCHANGED <<dir, live, archives, faults, resudo, up, work>>
  BY <1>3 DEF ReadMember, DrillMember
<1>4. ASSUME NEW m \in Member, RestoreFile(m)
      PROVE  UNCHANGED <<dir, archives, faults, resudo, up, work>>
  BY <1>4 DEF RestoreFile
<1>5. ASSUME NEW m \in Member, LoadDump(m)
      PROVE  UNCHANGED <<dir, archives, resudo, up, work>>
  BY <1>5, LoadDumpDoes
<1>6. ASSUME NEW m \in Member, StageDirectory(m) \/ SwapDirectory(m)
      PROVE  UNCHANGED <<live, archives, faults, up, work>> /\ (SwapDirectory(m) => UNCHANGED resudo)
  BY <1>6 DEF StageDirectory, SwapDirectory
<1>7. ASSUME NEW m \in Member, SwapFails(m)
      PROVE  UNCHANGED <<live, archives, resudo, up, work>>
  BY <1>7 DEF SwapFails
<1>8. ASSUME NEW m \in Member, StackWrites(m)
      PROVE  UNCHANGED <<archives, faults, resudo, up>>
  BY <1>8 DEF StackWrites
<1>9. ASSUME NEW s \in Service, StartOrStop(s)
      PROVE UNCHANGED <<dir, live, archives, faults, resudo, work>>
  BY <1>9 DEF StartOrStop
<1>10. ASSUME NEW i \in DOMAIN archives, NEW m \in DOMAIN archives[i].got \cap Database, Rot(i, m)
       PROVE  UNCHANGED <<dir, live, faults, resudo, up, work>>
  BY <1>10 DEF Rot
<1>13. ASSUME NEW s \in Service, Reinitialise(s)
       PROVE  UNCHANGED <<dir, archives, faults, resudo, up>>
  BY <1>13 DEF Reinitialise
<1> HIDE DEF BeginBackup, BeginDrill, FinishArchive, KillJob
<1>11. FinishArchive => UNCHANGED <<dir, live, faults, resudo, up, work>>
  BY DEF FinishArchive
<1>12. KillJob => UNCHANGED <<dir, live, archives, resudo, up, work>>
  BY DEF KillJob
<1> QED BY <1>1, <1>2, <1>3, <1>4, <1>5, <1>6, <1>7, <1>8, <1>9, <1>10, <1>11, <1>12, <1>13
        DEF BackupNext

(* It is the turn of one member at a time.                                  *)
LEMMA OneTurn ==
  ASSUME JobTyped, NEW m, NEW n, Turn(m), Turn(n)
  PROVE  m = n
<1>1. m \in Member /\ n \in Member
  BY DEF JobTyped, Turn
<1>2. MemberOrder[m] <= MemberOrder[n] /\ MemberOrder[n] <= MemberOrder[m]
  BY DEF Turn
<1>3. MemberOrder[m] \in Nat /\ MemberOrder[n] \in Nat
  BY <1>1, MemberAssumption DEF Member, Config, Data
<1>4. MemberOrder[m] = MemberOrder[n]
  BY <1>2, <1>3
<1> QED BY <1>1, <1>4, MemberAssumption DEF Member, Config, Data

(* What an archive holds of members it holds a content of.                  *)
LEMMA GatheredHas ==
  ASSUME NEW g \in Gathered
  PROVE  DOMAIN g \subseteq Member /\ \A m \in DOMAIN g : g[m] \in Contents
  BY DEF Gathered

(* An archive has its contents and the services it lists.                   *)
LEMMA ArchiveAt ==
  ASSUME ArchivesTyped, NEW i \in DOMAIN archives
  PROVE  archives[i] \in [got : Gathered, listed : SUBSET Service] /\ i \in 1 .. Len(archives)
  BY LenProperties, ElementOfSeq DEF ArchivesTyped

(* An archive that takes one more member is an archive.                     *)
LEMMA GatherMore ==
  ASSUME NEW g \in Gathered, NEW m \in Member, NEW c \in Contents
  PROVE  [x \in DOMAIN g \cup {m} |-> IF x = m THEN c ELSE g[x]] \in Gathered
<1>1. PICK members \in SUBSET Member : g \in [members -> Contents]
  BY DEF Gathered
<1>2. [x \in DOMAIN g \cup {m} |-> IF x = m THEN c ELSE g[x]] \in [members \cup {m} -> Contents]
  BY <1>1
<1> QED BY <1>2 DEF Gathered

(* An archive with a member gone bad is an archive.                         *)
LEMMA GatherRot ==
  ASSUME NEW g \in Gathered, NEW m \in DOMAIN g
  PROVE  [g EXCEPT ![m] = Rotten] \in Gathered
<1>1. PICK members \in SUBSET Member : g \in [members -> Contents]
  BY DEF Gathered
<1>2. [g EXCEPT ![m] = Rotten] \in [members -> Contents]
  BY <1>1 DEF Contents
<1> QED BY <1>2 DEF Gathered

(* So is an empty one.                                                      *)
LEMMA NoneGathered == [m \in {} |-> Nothing] \in Gathered
<1>1. [m \in {} |-> Nothing] \in [{} -> Contents]
  OBVIOUS
<1> QED BY <1>1, Zenon DEF Gathered

(* Every member has one place to be, which holds something of the type.       *)
LEMMA ContentTyped ==
  ASSUME LiveTyped, DirTyped, NEW m \in Member
  PROVE  Content(m) \in Contents
  BY DEF LiveTyped, DirTyped, Content, Member, Config, Data, Directory

(* A backup takes members only.                                             *)
LEMMA SourcesAreMembers ==
  ASSUME NEW data \in BOOLEAN, NEW listed \in SUBSET Service
  PROVE  Sources(data, listed) \subseteq Member
  BY MemberAssumption DEF Sources, Member, Data

(* A command that is over leaves the job typed.                             *)
LEMMA NoJobTyped ==
  job' = NoJob => JobTyped'
  BY NoneGathered DEF NoJob, JobTyped, JobFields, Swapping

(* The host starts typed.                                                   *)
LEMMA BackupTypedInit == BackupInit => BackupTyped
<1> SUFFICES ASSUME BackupInit PROVE BackupTyped
  OBVIOUS
<1>1. LiveTyped /\ DirTyped
  BY DEF BackupInit, LiveTyped, DirTyped, Contents
<1>2. JobTyped
  BY NoneGathered DEF BackupInit, NoJob, JobTyped, JobFields, Swapping
<1>3. ArchivesTyped /\ CountsTyped
  BY DEF BackupInit, ArchivesTyped, CountsTyped
<1> QED BY <1>1, <1>2, <1>3 DEF BackupTyped

(* What a failing replacement leaves at the three paths.                     *)
LEMMA FailedSwap ==
  ASSUME DirTyped, NEW m \in Directory, SwapFails(m)
  PROVE  /\ DirTyped'
         /\ \A d \in Directory \ {m} : dir'[d] = dir[d]
         /\ job.at # "aside" =>
              dir'[m].target = dir[m].target /\ dir'[m].rollback = dir[m].rollback
         /\ job.at = "aside" =>
              \/ faults' = faults + 1 /\ dir'[m].target = dir[m].rollback /\ dir'[m].rollback = Nothing
              \/ faults' = faults + 2 /\ dir'[m].target = dir[m].target
                   /\ dir'[m].rollback \in {dir[m].rollback, Nothing}
<1> DEFINE Paths == [target : Contents, rollback : Contents, staged : Contents]
<1>1. dir[m] \in Paths /\ Nothing \in Contents
  BY DEF DirTyped, Contents
<1>2. CASE job.at # "aside"
  <2>1. dir' = [dir EXCEPT ![m] = [dir[m] EXCEPT !.staged = Nothing]]
    BY <1>2 DEF SwapFails
  <2>2. [dir[m] EXCEPT !.staged = Nothing] \in Paths
    BY <1>1
  <2> QED BY <1>2, <2>1, <2>2 DEF DirTyped
<1>3. CASE job.at = "aside"
  <2>1. PICK fails \in BOOLEAN :
          /\ dir' = [dir EXCEPT ![m] =
               IF job.at # "aside"
               THEN [@ EXCEPT !.staged = Nothing]
               ELSE [target |-> IF fails THEN @.target ELSE @.rollback,
                     rollback |-> IF fails /\ job.sudo THEN @.rollback ELSE Nothing,
                     staged |-> Nothing]]
          /\ faults' = faults + IF fails THEN 2 ELSE 1
    BY <1>3, Zenon DEF SwapFails
  <2> DEFINE new == [target |-> IF fails THEN dir[m].target ELSE dir[m].rollback,
                     rollback |-> IF fails /\ job.sudo THEN dir[m].rollback ELSE Nothing,
                     staged |-> Nothing]
  <2>2. dir' = [dir EXCEPT ![m] = new]
    BY <1>3, <2>1
  <2>3. new \in Paths
    BY <1>1
  <2>4. CASE fails
    <3>1. new.target = dir[m].target /\ new.rollback \in {dir[m].rollback, Nothing}
      BY <2>4
    <3>2. faults' = faults + 2
      BY <2>1, <2>4
    <3> HIDE DEF new
    <3> QED BY <1>3, <2>2, <2>3, <3>1, <3>2 DEF DirTyped
  <2>5. CASE ~fails
    <3>1. new.target = dir[m].rollback /\ new.rollback = Nothing
      BY <2>5
    <3>2. faults' = faults + 1
      BY <2>1, <2>5
    <3> HIDE DEF new
    <3> QED BY <1>3, <2>2, <2>3, <3>1, <3>2 DEF DirTyped
  <2> QED BY <2>4, <2>5
<1> QED BY <1>2, <1>3

(* A member is done: what is left is less.                                    *)
LEMMA DoneTyped ==
  ASSUME JobTyped, NEW m
  PROVE  /\ DOMAIN Done(m) = JobFields /\ Done(m).todo \subseteq Member
         /\ Done(m).got = job.got /\ Done(m).listed = job.listed
         /\ job.at \in {"next", "staging"} \cup Swapping => Done(m).todo \subseteq DOMAIN job.got
BY DEF Done, JobTyped, JobFields, Swapping

(* To be done with a member keeps the job typed.                            *)
LEMMA DoneKeepsType ==
  ASSUME JobTyped, NEW m, job' = Done(m), job.at \in {"next", "staging"} \cup Swapping
  PROVE  JobTyped'
BY DoneTyped DEF JobTyped

(* Every step keeps the job typed.                                          *)
LEMMA JobTypedStep == BackupTyped /\ [BackupNext]_backupVars => JobTyped'
<1> SUFFICES ASSUME BackupTyped, [BackupNext]_backupVars PROVE JobTyped'
  OBVIOUS
<1>0. JobTyped
  BY DEF BackupTyped
<1>a. UNCHANGED job => JobTyped'
  BY <1>0 DEF JobTyped
<1>1. CASE UNCHANGED backupVars
  BY <1>1, <1>a DEF backupVars
<1>2. ASSUME NEW data \in BOOLEAN, BeginBackup(data) \/ BeginDrill(data) PROVE JobTyped'
  <2>1. PICK listed \in SUBSET Service, place \in {"backup", "drill"} :
          job' = [NoJob EXCEPT !.cmd = place, !.at = "read", !.whole = data,
                 !.todo = Sources(data, listed), !.listed = listed]
    BY <1>2 DEF BeginBackup, BeginDrill, Listings, BackupTyped, CountsTyped
  <2> QED BY <2>1, NoneGathered, SourcesAreMembers DEF NoJob, JobTyped, JobFields, Swapping
<1>3. ASSUME NEW m \in Member, ReadMember(m) PROVE JobTyped'
  <2>1. Content(m) \in Contents
    BY ContentTyped DEF BackupTyped
  <2> QED BY <1>0, <1>3, <2>1, GatherMore DEF ReadMember, JobTyped, JobFields, Swapping
<1>4. CASE AbortBackup \/ RestoreReturns \/ DrillReturns \/ KillJob \/ StampMarker
  BY <1>4, NoJobTyped DEF AbortBackup, RestoreReturns, DrillReturns, KillJob, StampMarker
<1>5. CASE FinishArchive
  BY <1>0, <1>5, NoJobTyped DEF FinishArchive, JobTyped, JobFields, Swapping
<1>7. ASSUME NEW i \in DOMAIN archives, NEW force \in BOOLEAN, NEW skip \in BOOLEAN,
             NEW sudo \in BOOLEAN, NEW label \in {Nothing} \cup Config,
             BeginRestore(i, label, force, skip, sudo)
      PROVE  JobTyped'
  <2>1. archives[i].got \in Gathered
    BY ArchiveAt DEF BackupTyped
  <2>2. Wanted(i, label) \subseteq Member /\ Wanted(i, label) \subseteq DOMAIN archives[i].got
    BY <1>7, <2>1, GatheredHas DEF BeginRestore, Included
  <2> QED BY <1>7, <2>1, <2>2 DEF BeginRestore, NoJob, JobTyped, JobFields, Swapping
<1>8. ASSUME NEW m \in Member,
             RestoreFile(m) \/ StageDirectory(m) \/ SwapDirectory(m) \/ LoadDump(m) \/ DrillMember(m)
               \/ StackWrites(m)
      PROVE  JobTyped'
  <2>0. CASE RestoreFile(m) \/ DrillMember(m)
    BY <1>0, <2>0, DoneKeepsType DEF RestoreFile, DrillMember
  <2>1. CASE StackWrites(m)
    BY <1>0, <2>1 DEF StackWrites, JobTyped, JobFields, Swapping
  <2>2. CASE LoadDump(m)
    <3>1. job.at = "next" /\ Turn(m)
      BY <2>2, LoadDumpDoes
    <3>2. QED
      BY <1>0, <2>2, <3>1, LoadedJob DEF JobTyped, Swapping
  <2>3. CASE StageDirectory(m)
    BY <1>0, <2>3 DEF StageDirectory, Unpacked, Done, JobTyped, JobFields, Swapping
  <2>4. CASE SwapDirectory(m)
    <3>1. CASE Unpacked(m) \/ DropOldCopy(m) \/ MoveAside(m)
      BY <1>0, <3>1 DEF Unpacked, DropOldCopy, MoveAside, JobTyped, JobFields, Swapping
    <3>2. CASE MoveIn(m)
      BY <1>0, <3>2 DEF MoveIn, JobTyped, JobFields, Swapping
    <3>3. CASE DropCopy(m)
      BY <1>0, <3>3, DoneKeepsType DEF DropCopy, Swapping
    <3>4. QED
      BY <2>4, <3>1, <3>2, <3>3 DEF SwapDirectory
  <2>5. QED
    BY <1>8, <2>0, <2>1, <2>2, <2>3, <2>4
<1>11. ASSUME NEW m \in Member, SwapFails(m) PROVE JobTyped'
  BY <1>11, NoJobTyped DEF SwapFails
<1>15. CASE DrillRestores
  BY <1>0, <1>15, GatheredHas DEF DrillRestores, DrillLabels, JobTyped, JobFields, Swapping
<1>16. ASSUME NEW s \in Service, StartOrStop(s) \/ Reinitialise(s) PROVE JobTyped'
  BY <1>16, <1>a DEF StartOrStop, Reinitialise
<1>17. ASSUME NEW i \in DOMAIN archives, NEW m \in DOMAIN archives[i].got \cap Database, Rot(i, m)
       PROVE  JobTyped'
  BY <1>17, <1>a DEF Rot
<1> QED BY <1>1, <1>2, <1>3, <1>4, <1>5, <1>7, <1>8, <1>11, <1>15, <1>16, <1>17 DEF BackupNext

(* Every step keeps the host typed.                                         *)
LEMMA BackupTypedStep == BackupTyped /\ [BackupNext]_backupVars => BackupTyped'
<1> SUFFICES ASSUME BackupTyped, [BackupNext]_backupVars PROVE BackupTyped'
  OBVIOUS
<1>1. CASE UNCHANGED backupVars
  BY <1>1, JobTypedStep DEF backupVars, BackupTyped, LiveTyped, DirTyped, ArchivesTyped, CountsTyped
<1>2. CASE BackupNext
  <2> USE <1>2
  <2>1. DirTyped'
    <3>1. ASSUME NEW m \in Member, StageDirectory(m) PROVE DirTyped'
      <4>1. m \in Directory /\ DirTyped
        BY <3>1 DEF StageDirectory, BackupTyped
      <4>2. PICK former \in Contents :
              dir' = [dir EXCEPT ![m] = [dir[m] EXCEPT !.staged = Half, !.rollback = former]]
        BY <3>1, <4>1 DEF StageDirectory, DirTyped, Contents
      <4>3. [dir[m] EXCEPT !.staged = Half, !.rollback = former]
              \in [target : Contents, rollback : Contents, staged : Contents]
        BY <4>1 DEF DirTyped, Contents
      <4>4. QED
        BY <4>1, <4>2, <4>3 DEF DirTyped
    <3>2. ASSUME NEW m \in Member, SwapDirectory(m) PROVE DirTyped'
      <4>1. Unpacked(m) => job.got[m] \in Contents
        BY <3>2, GatheredHas DEF SwapDirectory, Unpacked, Turn, BackupTyped, JobTyped
      <4> QED BY <3>2, <4>1 DEF SwapDirectory, Unpacked, DropOldCopy, MoveAside, MoveIn, DropCopy,
                                BackupTyped, DirTyped, Contents
    <3>3. ASSUME NEW m \in Member, SwapFails(m) PROVE DirTyped'
      <4>1. m \in DOMAIN dir => m \in Directory
        BY DEF BackupTyped, DirTyped
      <4>2. m \notin DOMAIN dir => UNCHANGED dir
        BY <3>3 DEF SwapFails, BackupTyped, DirTyped
      <4> QED BY <3>3, <4>1, <4>2, FailedSwap DEF BackupTyped, DirTyped
    <3>4. ASSUME NEW m \in Member, StackWrites(m) PROVE DirTyped'
      BY <3>4 DEF StackWrites, BackupTyped, DirTyped, CountsTyped, Contents
    <3>5. UNCHANGED dir => DirTyped'
      BY DEF BackupTyped, DirTyped
    <3> QED BY <3>1, <3>2, <3>3, <3>4, <3>5, WhoWrites
  <2>2. LiveTyped'
    <3>1. ASSUME NEW m \in Member, RestoreFile(m) PROVE LiveTyped'
      <4>1. job.got[m] \in Contents
        BY <3>1, GatheredHas DEF RestoreFile, Turn, BackupTyped, JobTyped
      <4> QED BY <3>1, <4>1 DEF RestoreFile, BackupTyped, LiveTyped
    <3>2. ASSUME NEW m \in Member, LoadDump(m) PROVE LiveTyped'
      <4>1. job.got[m] \in Contents /\ m \in Database
        BY <3>2, LoadDumpDoes, GatheredHas DEF Turn, BackupTyped, JobTyped
      <4>2. PICK content \in {live[m], job.got[m], Half} : live' = [live EXCEPT ![m] = content]
        BY <3>2, LoadDumpDoes
      <4> QED BY <4>1, <4>2 DEF BackupTyped, LiveTyped, Contents
    <3>3. ASSUME NEW m \in Member, StackWrites(m) PROVE LiveTyped'
      BY <3>3 DEF StackWrites, BackupTyped, LiveTyped, CountsTyped, Contents
    <3>4. UNCHANGED live => LiveTyped'
      BY DEF BackupTyped, LiveTyped
    <3>5. ASSUME NEW s \in Service, Reinitialise(s) PROVE LiveTyped'
      BY <3>5 DEF Reinitialise, BackupTyped, LiveTyped, Contents
    <3> QED BY <3>1, <3>2, <3>3, <3>4, <3>5, WhoWrites
  <2>3. ArchivesTyped'
    <3>1. CASE FinishArchive
      BY <3>1 DEF FinishArchive, BackupTyped, ArchivesTyped, JobTyped
    <3>2. ASSUME NEW i \in DOMAIN archives, NEW m \in DOMAIN archives[i].got \cap Database, Rot(i, m)
          PROVE  ArchivesTyped'
      <4>1. archives[i] \in [got : Gathered, listed : SUBSET Service] /\ i \in 1 .. Len(archives)
        BY ArchiveAt DEF BackupTyped
      <4>2. [archives[i].got EXCEPT ![m] = Rotten] \in Gathered
        BY <4>1, GatherRot
      <4> QED BY <4>2, <3>2, <4>1, GatherRot DEF Rot, BackupTyped, ArchivesTyped
    <3>3. UNCHANGED archives => ArchivesTyped'
      BY DEF BackupTyped, ArchivesTyped
    <3> QED BY <3>1, <3>2, <3>3, WhoWrites
  <2>4. CountsTyped'
    <3>1. ASSUME NEW m \in Member, StackWrites(m) \/ LoadDump(m)
          PROVE  CountsTyped'
      BY <3>1, LoadDumpDoes DEF StackWrites, BackupTyped, CountsTyped
    <3>5. ASSUME NEW m \in Member, SwapFails(m)
          PROVE  CountsTyped'
      <4>1. faults' \in {faults + 1, faults + 2} /\ UNCHANGED <<up, work>>
        BY <3>5 DEF SwapFails
      <4> QED BY <4>1 DEF BackupTyped, CountsTyped
    <3>2. KillJob => CountsTyped'
      BY DEF KillJob, BackupTyped, CountsTyped
    <3>3. ASSUME NEW s \in Service, StartOrStop(s) \/ Reinitialise(s) PROVE CountsTyped'
      BY <3>3 DEF StartOrStop, Reinitialise, BackupTyped, CountsTyped
    <3>4. UNCHANGED <<up, work, faults>> => CountsTyped'
      BY DEF BackupTyped, CountsTyped
    <3> QED BY <3>1, <3>2, <3>3, <3>4, <3>5, WhoWrites
  <2> QED BY <2>1, <2>2, <2>3, <2>4, JobTypedStep DEF BackupTyped
<1> QED BY <1>1, <1>2

(* An element of a longer sequence is an old one or the new one.            *)
LEMMA LastAppended ==
  ASSUME NEW S, NEW s \in Seq(S), NEW e \in S, NEW i \in DOMAIN Append(s, e)
  PROVE  \/ i \in DOMAIN s /\ Append(s, e)[i] = s[i]
         \/ i = Len(s) + 1 /\ Append(s, e)[i] = e
  BY AppendProperties, LenProperties

(* A directory is neither a file nor a database.                            *)
LEMMA DirectoryIsNone ==
  ASSUME NEW m \in Directory
  PROVE  m \notin File /\ m \notin Database /\ m \in Member
  BY MemberAssumption DEF Directory, Member, Config, Data

(* Archives stay what their backup gathered.                                *)
LEMMA ArchivesHoldStep ==
  ASSUME BackupTyped, HoldInv, BackupNext
  PROVE  ArchivesHold'
<1>0. ArchivesHold
  BY DEF HoldInv
<1>1. Archived(NoJob.got)
  BY DEF NoJob, Archived
<1>2. Archived(job.got)'
  <2>1. ASSUME NEW m \in Member, ReadMember(m) PROVE Archived(job.got)'
    <3>1. Content(m) # Nothing /\ m \in Directory => Content(m) # Half
      BY DEF HoldInv, LiveHolds, Content
    <3>2. job'.got = IF Content(m) = Nothing THEN job.got
                     ELSE [x \in DOMAIN job.got \cup {m} |->
                             IF x = m THEN Content(m) ELSE job.got[x]]
      BY <2>1 DEF ReadMember, BackupTyped, JobTyped, JobFields
    <3> QED BY <1>0, <3>1, <3>2 DEF ArchivesHold, Archived
  <2>2. ASSUME NEW i \in DOMAIN archives, NEW force \in BOOLEAN, NEW skip \in BOOLEAN,
               NEW sudo \in BOOLEAN, NEW label \in {Nothing} \cup Config,
               BeginRestore(i, label, force, skip, sudo)
        PROVE  Archived(job.got)'
    <3>1. job'.got = archives[i].got
      BY <2>2 DEF BeginRestore, NoJob
    <3> QED BY <1>0, <3>1 DEF ArchivesHold, Archived
  <2>3. job'.got = job.got => Archived(job.got)'
    BY <1>0 DEF ArchivesHold, Archived
  <2>4. job'.got = NoJob.got => Archived(job.got)'
    BY <1>1 DEF Archived
  <2>5. ASSUME NEW m \in Member,
               RestoreFile(m) \/ StageDirectory(m) \/ SwapDirectory(m) \/ LoadDump(m)
                 \/ DrillMember(m) \/ StackWrites(m)
        PROVE  job'.got = job.got
    BY <2>5, LoadedJob DEF RestoreFile, StageDirectory, DrillMember, StackWrites, SwapDirectory,
         Unpacked, DropOldCopy, MoveAside, MoveIn, DropCopy, Done, BackupTyped, JobTyped, JobFields
  <2>6. ASSUME NEW m \in Member, SwapFails(m) PROVE job'.got = NoJob.got
    BY <2>6 DEF SwapFails
  <2>7. AbortBackup \/ RestoreReturns \/ DrillReturns \/ KillJob \/ StampMarker
          => job'.got = NoJob.got
    BY DEF AbortBackup, RestoreReturns, DrillReturns, KillJob, StampMarker
  <2>8. FinishArchive \/ DrillRestores => job'.got \in {job.got, NoJob.got}
    BY DEF FinishArchive, DrillRestores, BackupTyped, JobTyped, JobFields
  <2>9. ASSUME NEW data \in BOOLEAN, BeginBackup(data) \/ BeginDrill(data)
        PROVE  job'.got = NoJob.got
    BY <2>9 DEF BeginBackup, BeginDrill, NoJob
  <2>10. ASSUME NEW s \in Service, StartOrStop(s) \/ Reinitialise(s) PROVE job'.got = job.got
    BY <2>10 DEF StartOrStop, Reinitialise
  <2>11. ASSUME NEW i \in DOMAIN archives, NEW m \in DOMAIN archives[i].got \cap Database, Rot(i, m)
         PROVE  job'.got = job.got
    BY <2>11 DEF Rot
  <2> QED BY <2>1, <2>2, <2>3, <2>4, <2>5, <2>6, <2>7, <2>8, <2>9, <2>10, <2>11 DEF BackupNext
<1>3. ASSUME NEW i \in DOMAIN archives' PROVE Archived(archives[i].got)'
  <2>1. CASE FinishArchive
    <3>1. [got |-> job.got, listed |-> job.listed] \in [got : Gathered, listed : SUBSET Service]
      BY DEF BackupTyped, JobTyped
    <3>2. archives' = Append(archives, [got |-> job.got, listed |-> job.listed])
      BY <2>1 DEF FinishArchive
    <3>3. (i \in DOMAIN archives /\ archives'[i] = archives[i])
            \/ archives'[i] = [got |-> job.got, listed |-> job.listed]
      BY <1>3, <3>1, <3>2, LastAppended DEF BackupTyped, ArchivesTyped
    <3> QED BY <1>0, <3>3 DEF ArchivesHold, Archived
  <2>2. ASSUME NEW j \in DOMAIN archives, NEW m \in DOMAIN archives[j].got \cap Database, Rot(j, m)
        PROVE  Archived(archives[i].got)'
    <3>1. i \in DOMAIN archives /\ DOMAIN archives[j] = {"got", "listed"}
      BY <2>2, ArchiveAt DEF Rot, BackupTyped
    <3>2. archives'[i].got = IF i = j THEN [archives[j].got EXCEPT ![m] = Rotten]
                             ELSE archives[i].got
      BY <2>2, <3>1 DEF Rot
    <3>3. m \notin Directory /\ Rotten # Nothing
      BY <2>2, MemberAssumption, DirectoryIsNone
    <3> QED BY <1>0, <3>1, <3>2, <3>3 DEF ArchivesHold, Archived
  <2>3. UNCHANGED archives => Archived(archives[i].got)'
    BY <1>0, <1>3 DEF ArchivesHold, Archived
  <2> QED BY <2>1, <2>2, <2>3, WhoWrites
<1> QED BY <1>2, <1>3 DEF ArchivesHold

(* Files and databases of the host keep a content.                          *)
LEMMA LiveHoldsStep ==
  ASSUME BackupTyped, HoldInv, BackupNext
  PROVE  LiveHolds'
<1>0. LiveHolds /\ ArchivesHold /\ RestoresArchive
  BY DEF HoldInv
<1>1. ASSUME NEW m \in Member, Turn(m), job.at \in {"next", "staging"} \cup Swapping
      PROVE  job.got[m] # Nothing /\ (m \in Directory => job.got[m] # Half)
  BY <1>0, <1>1 DEF Turn, BackupTyped, JobTyped, ArchivesHold, Archived
<1>2. \A m \in File \cup Database : live'[m] # Nothing
  <2>1. ASSUME NEW m \in Member, RestoreFile(m) PROVE \A n \in File \cup Database : live'[n] # Nothing
    BY <1>0, <1>1, <2>1 DEF RestoreFile, LiveHolds, BackupTyped, LiveTyped
  <2>2. ASSUME NEW m \in Member, LoadDump(m) PROVE \A n \in File \cup Database : live'[n] # Nothing
    <3>1. PICK content \in {live[m], job.got[m], Half} : live' = [live EXCEPT ![m] = content]
      BY <2>2, LoadDumpDoes
    <3>2. content # Nothing
      BY <1>0, <1>1, <2>2, LoadDumpDoes, MemberAssumption DEF LiveHolds
    <3> QED BY <1>0, <3>1, <3>2 DEF LiveHolds, BackupTyped, LiveTyped
  <2>3. ASSUME NEW m \in Member, StackWrites(m) PROVE \A n \in File \cup Database : live'[n] # Nothing
    <3>1. work + 1 # Nothing
      <4>1. work + 1 \in Nat
        BY DEF BackupTyped, CountsTyped
      <4>2. \A n \in Nat : n # Nothing
        BY MemberAssumption
      <4> QED BY <4>1, <4>2
    <3> QED BY <1>0, <2>3, <3>1 DEF StackWrites, LiveHolds, BackupTyped, LiveTyped
  <2>4. UNCHANGED live => \A n \in File \cup Database : live'[n] # Nothing
    BY <1>0 DEF LiveHolds
  <2>5. ASSUME NEW s \in Service, Reinitialise(s)
        PROVE  \A n \in File \cup Database : live'[n] # Nothing
    BY <1>0, <2>5, MemberAssumption DEF Reinitialise, LiveHolds, BackupTyped, LiveTyped
  <2> QED BY <2>1, <2>2, <2>3, <2>4, <2>5, WhoWrites
<1>3. ASSUME NEW d \in Directory PROVE dir'[d].target # Half /\ dir'[d].rollback # Half
  <2> USE <1>0, <1>1, MemberAssumption DEF LiveHolds, BackupTyped, DirTyped
  <2>1. ASSUME NEW m \in Member, StageDirectory(m)
        PROVE  dir'[d].target # Half /\ dir'[d].rollback # Half
    BY <2>1 DEF StageDirectory
  <2>2. ASSUME NEW m \in Member, SwapDirectory(m)
        PROVE  dir'[d].target # Half /\ dir'[d].rollback # Half
    <3>1. MoveIn(m) => m \in Directory /\ dir[m].staged # Half
      BY <2>2 DEF SwapDirectory, MoveIn, RestoresArchive, Swapping
    <3> QED BY <2>2, <3>1 DEF SwapDirectory, Unpacked, DropOldCopy, MoveAside, MoveIn, DropCopy
  <2>3. ASSUME NEW m \in Member, SwapFails(m)
        PROVE  dir'[d].target # Half /\ dir'[d].rollback # Half
    <3>1. m \in Directory
      BY <2>3 DEF SwapFails, RestoresArchive, Swapping
    <3> QED BY <2>3, <3>1, FailedSwap
  <2>4. ASSUME NEW m \in Member, StackWrites(m)
        PROVE  dir'[d].target # Half /\ dir'[d].rollback # Half
    <3>1. work + 1 # Half
      BY DEF CountsTyped
    <3> QED BY <2>4, <3>1 DEF StackWrites
  <2>5. UNCHANGED dir => dir'[d].target # Half /\ dir'[d].rollback # Half
    OBVIOUS
  <2> QED BY <2>1, <2>2, <2>3, <2>4, <2>5, WhoWrites
<1> QED BY <1>2, <1>3 DEF LiveHolds

(* Which steps reach or stay within the replacement of a directory.           *)
LEMMA WhoSwaps ==
  ASSUME BackupTyped, BackupNext, job'.at \in {"staging"} \cup Swapping
  PROVE  \/ \E m \in Member : StageDirectory(m) \/ SwapDirectory(m) \/ StackWrites(m)
         \/ UNCHANGED <<job, dir, faults, resudo>>
<1> USE DEF Swapping, NoJob
<1>1. ASSUME NEW data \in BOOLEAN, BeginBackup(data) \/ BeginDrill(data) PROVE FALSE
  BY <1>1 DEF BeginBackup, BeginDrill
<1>2. ~(AbortBackup \/ RestoreReturns \/ DrillReturns \/ KillJob \/ StampMarker)
  BY DEF AbortBackup, RestoreReturns, DrillReturns, KillJob, StampMarker
<1>3. ~FinishArchive /\ ~DrillRestores
  <2>1. ~FinishArchive
    <3>1. CASE job.whole
      BY <3>1 DEF FinishArchive, BackupTyped, JobTyped, JobFields
    <3>2. CASE ~job.whole
      BY <3>2 DEF FinishArchive
    <3> QED BY <3>1, <3>2
  <2>2. ~DrillRestores
    BY DEF DrillRestores, BackupTyped, JobTyped, JobFields
  <2> QED BY <2>1, <2>2
<1>4. ASSUME NEW i \in DOMAIN archives, NEW force \in BOOLEAN, NEW skip \in BOOLEAN,
             NEW sudo \in BOOLEAN, NEW label \in {Nothing} \cup Config,
             BeginRestore(i, label, force, skip, sudo)
      PROVE  FALSE
  BY <1>4 DEF BeginRestore
<1>5. ASSUME NEW m \in Member,
             ReadMember(m) \/ RestoreFile(m) \/ LoadDump(m) \/ DrillMember(m) \/ SwapFails(m)
      PROVE  FALSE
  <2>1. DOMAIN job = JobFields
    BY DEF BackupTyped, JobTyped
  <2>2. ~ReadMember(m)
    BY <2>1 DEF ReadMember, JobFields
  <2>5. ~SwapFails(m)
    <3>1. SwapFails(m) => job' = NoJob
      BY Zenon DEF SwapFails
    <3> QED BY <3>1
  <2>3. ~RestoreFile(m) /\ ~DrillMember(m)
    BY <2>1 DEF RestoreFile, DrillMember, Done, JobFields
  <2>4. ~LoadDump(m)
    BY <2>1, LoadedJob
  <2> QED BY <1>5, <2>2, <2>3, <2>4, <2>5
<1>6. ASSUME NEW s \in Service, StartOrStop(s) \/ Reinitialise(s)
      PROVE  UNCHANGED <<job, dir, faults, resudo>>
  BY <1>6 DEF StartOrStop, Reinitialise
<1>7. ASSUME NEW i \in DOMAIN archives, NEW m \in DOMAIN archives[i].got \cap Database, Rot(i, m)
      PROVE  UNCHANGED <<job, dir, faults, resudo>>
  BY <1>7 DEF Rot
<1> QED BY <1>1, <1>2, <1>3, <1>4, <1>5, <1>6, <1>7 DEF BackupNext

(* A command is a restore until it ends, and only BeginRestore begins one.    *)
LEMMA RestoreGoesOn ==
  ASSUME BackupTyped, HoldInv, BackupNext, job'.cmd = "restore"
  PROVE  job'.at \in {"next", "staging"} \cup Swapping
<1>0. DOMAIN job = JobFields /\ RestoresArchive
  BY DEF BackupTyped, JobTyped, HoldInv
<1> USE DEF NoJob, JobFields, Swapping
<1>1. ASSUME NEW data \in BOOLEAN, BeginBackup(data) \/ BeginDrill(data) PROVE FALSE
  BY <1>1 DEF BeginBackup, BeginDrill
<1>2. ~(AbortBackup \/ RestoreReturns \/ DrillReturns \/ KillJob \/ StampMarker)
  BY DEF AbortBackup, RestoreReturns, DrillReturns, KillJob, StampMarker
<1>3. ~FinishArchive
  <2>1. FinishArchive => job'.cmd \in {"backup", "none"}
    <3>1. CASE job.whole
      BY <1>0, <3>1 DEF FinishArchive
    <3>2. CASE ~job.whole
      BY <3>2 DEF FinishArchive
    <3> QED BY <3>1, <3>2
  <2> QED BY <2>1
<1>4. ~DrillRestores
  BY <1>0 DEF DrillRestores
<1>5. ASSUME NEW i \in DOMAIN archives, NEW force \in BOOLEAN, NEW skip \in BOOLEAN,
             NEW sudo \in BOOLEAN, NEW label \in {Nothing} \cup Config,
             BeginRestore(i, label, force, skip, sudo)
      PROVE  job'.at = "next"
  BY <1>5 DEF BeginRestore
<1>6. ASSUME NEW m \in Member, ReadMember(m) \/ DrillMember(m) PROVE FALSE
  BY <1>0, <1>6 DEF ReadMember, DrillMember, Done, RestoresArchive
<1>7. ASSUME NEW m \in Member, RestoreFile(m) \/ StageDirectory(m) \/ SwapDirectory(m)
      PROVE  job'.at \in {"next", "staging"} \cup Swapping
  BY <1>0, <1>7 DEF RestoreFile, StageDirectory, SwapDirectory, Unpacked, DropOldCopy, MoveAside,
                    MoveIn, DropCopy, Done
<1>8. ASSUME NEW m \in Member, LoadDump(m) PROVE job'.at = "next"
  BY <1>0, <1>8, LoadedJob
<1>9. ASSUME NEW m \in Member, SwapFails(m) PROVE FALSE
  <2>1. job' = NoJob
    BY <1>9, Zenon DEF SwapFails
  <2> QED BY <2>1
<1>10. ASSUME NEW m \in Member, StackWrites(m) PROVE job'.at = job.at /\ job'.cmd = job.cmd
  BY <1>0, <1>10 DEF StackWrites
<1>11. ASSUME NEW s \in Service, StartOrStop(s) \/ Reinitialise(s) PROVE job' = job
  BY <1>11 DEF StartOrStop, Reinitialise
<1>12. ASSUME NEW i \in DOMAIN archives, NEW m \in DOMAIN archives[i].got \cap Database, Rot(i, m)
       PROVE  job' = job
  BY <1>12 DEF Rot
<1> QED BY <1>0, <1>1, <1>2, <1>3, <1>4, <1>5, <1>6, <1>7, <1>8, <1>9, <1>10, <1>11, <1>12
        DEF BackupNext, RestoresArchive

(* A restore goes on restoring the archive it began with.                   *)
LEMMA RestoresArchiveStep ==
  ASSUME BackupTyped, HoldInv, BackupNext
  PROVE  RestoresArchive'
<1>0. RestoresArchive
  BY DEF HoldInv
<1>1. CASE job'.at \notin {"staging"} \cup Swapping
  BY <1>1, RestoreGoesOn DEF RestoresArchive, Swapping
<1>2. CASE UNCHANGED <<job, dir, faults, resudo>>
  BY <1>0, <1>2 DEF RestoresArchive, Turn
<1> USE DEF BackupTyped, JobTyped, JobFields, DirTyped, Swapping
<1>3. ASSUME NEW m \in Member, StageDirectory(m) PROVE RestoresArchive'
  <2>1. job'.cmd = "restore" /\ job'.at = "staging" /\ job'.todo = job.todo
    BY <1>3 DEF StageDirectory
  <2>2. ASSUME NEW n \in Member, Turn(n)' PROVE n \in Directory
    <3>1. Turn(n)
      BY <2>1, <2>2 DEF Turn
    <3> QED BY <1>3, <3>1, OneTurn DEF StageDirectory
  <2> QED BY <2>1, <2>2 DEF RestoresArchive
<1>4. ASSUME NEW m \in Member, SwapDirectory(m) PROVE RestoresArchive'
  <2>1. CASE DropCopy(m)
    BY <2>1 DEF DropCopy, Done, RestoresArchive
  <2>2. CASE Unpacked(m) \/ DropOldCopy(m) \/ MoveAside(m) \/ MoveIn(m)
    <3>1. job'.cmd = job.cmd /\ job'.todo = job.todo /\ job'.got = job.got /\ job'.dirty = job.dirty
      BY <2>2 DEF Unpacked, DropOldCopy, MoveAside, MoveIn
    <3>2. ASSUME NEW n \in Member, Turn(n)' PROVE n = m
      <4>1. Turn(n)
        BY <3>1, <3>2 DEF Turn
      <4> QED BY <1>4, <4>1, OneTurn DEF SwapDirectory
    <3>3. m \in Directory /\ job.cmd = "restore"
      BY <1>0, <1>4, <2>2 DEF RestoresArchive, SwapDirectory, Unpacked, DropOldCopy, MoveAside, MoveIn
    <3>4. /\ job'.at \in {"swap", "dropped", "aside"} => dir'[m].staged = job.got[m]
          /\ job'.at = "in" => dir'[m].target = job.got[m]
      BY <1>0, <1>4, <2>2, <3>3 DEF RestoresArchive, SwapDirectory, Unpacked, DropOldCopy,
                                    MoveAside, MoveIn
    <3> QED BY <3>1, <3>2, <3>3, <3>4, RestoreGoesOn DEF RestoresArchive
  <2> QED BY <1>4, <2>1, <2>2 DEF SwapDirectory
<1>5. ASSUME NEW m \in Member, StackWrites(m), job'.at \in {"staging"} \cup Swapping
      PROVE  RestoresArchive'
  <2>1. /\ job'.cmd = job.cmd /\ job'.todo = job.todo /\ job'.got = job.got /\ job'.at = job.at
        /\ job.cmd = "restore" => job'.dirty = job.dirty \cup {m}
    BY <1>5 DEF StackWrites
  <2>2. job.cmd = "restore"
    BY <1>0, <1>5, <2>1 DEF RestoresArchive
  <2>3. ASSUME NEW d \in Directory
        PROVE  dir'[d].staged = dir[d].staged /\ (d # m => dir'[d].target = dir[d].target)
    BY <1>5, <2>3 DEF StackWrites
  <2>4. ASSUME NEW n \in Member, Turn(n)' PROVE Turn(n)
    BY <2>1, <2>4 DEF Turn
  <2> QED BY <1>0, <2>1, <2>2, <2>3, <2>4 DEF RestoresArchive
<1> QED BY <1>1, <1>2, <1>3, <1>4, <1>5, WhoSwaps

(* Faults are counted, and a death or a failed move is one.                 *)
LEMMA FaultsGrow ==
  ASSUME BackupTyped, BackupNext
  PROVE  /\ faults' \in Nat /\ faults' >= faults
         /\ KillJob \/ (\E m \in Member : SwapFails(m)) => faults' > faults
<1>0. faults \in Nat
  BY DEF BackupTyped, CountsTyped
<1>1. KillJob => faults' = faults + 1
  BY DEF KillJob
<1>2. ASSUME NEW m \in Member, LoadDump(m) PROVE faults' \in {faults, faults + 1}
  BY <1>2, LoadDumpDoes
<1>3. ASSUME NEW m \in Member, SwapFails(m) PROVE faults' \in {faults + 1, faults + 2}
  BY <1>3 DEF SwapFails
<1> QED BY <1>0, <1>1, <1>2, <1>3, WhoWrites

(* A replacement that has begun ends with its last step, an error or a death. *)
LEMMA WhoLeavesSwap ==
  ASSUME BackupTyped, HoldInv, BackupNext, job.at \in {"staging"} \cup Swapping
  PROVE  \/ KillJob
         \/ \E m \in Member : SwapDirectory(m) \/ SwapFails(m) \/ StackWrites(m)
         \/ UNCHANGED job
<1>0. job.cmd = "restore" /\ DOMAIN job = JobFields
  BY DEF HoldInv, RestoresArchive, BackupTyped, JobTyped
<1> USE DEF Swapping
<1>1. ASSUME NEW data \in BOOLEAN, BeginBackup(data) \/ BeginDrill(data) PROVE FALSE
  BY <1>1 DEF BeginBackup, BeginDrill
<1>2. ~(AbortBackup \/ RestoreReturns \/ DrillReturns \/ StampMarker \/ FinishArchive \/ DrillRestores)
  BY DEF AbortBackup, RestoreReturns, DrillReturns, StampMarker, FinishArchive, DrillRestores
<1>3. ASSUME NEW i \in DOMAIN archives, NEW force \in BOOLEAN, NEW skip \in BOOLEAN,
             NEW sudo \in BOOLEAN, NEW label \in {Nothing} \cup Config,
             BeginRestore(i, label, force, skip, sudo)
      PROVE  FALSE
  BY <1>3 DEF BeginRestore
<1>4. ASSUME NEW m \in Member,
             ReadMember(m) \/ RestoreFile(m) \/ LoadDump(m) \/ DrillMember(m) \/ StageDirectory(m)
      PROVE  FALSE
  BY <1>4, LoadDumpDoes DEF ReadMember, RestoreFile, DrillMember, StageDirectory
<1>5. ASSUME NEW s \in Service, StartOrStop(s) \/ Reinitialise(s) PROVE UNCHANGED job
  BY <1>5 DEF StartOrStop, Reinitialise
<1>6. ASSUME NEW i \in DOMAIN archives, NEW m \in DOMAIN archives[i].got \cap Database, Rot(i, m)
      PROVE  UNCHANGED job
  BY <1>6 DEF Rot
<1> QED BY <1>1, <1>2, <1>3, <1>4, <1>5, <1>6 DEF BackupNext

(* Every step keeps a copy of each directory within reach.                  *)
LEMMA CopyStep ==
  ASSUME BackupTyped, HoldInv, CopyInv, BackupNext
  PROVE  CopyInv'
<1>0. /\ DirTyped /\ DOMAIN job = JobFields /\ faults \in Nat /\ work \in Nat
      /\ \A d \in Directory : dir[d].target # Half /\ dir[d].rollback # Half
      /\ NoFaultYet /\ OneFaultYet /\ RestoresArchive /\ JobTyped
  BY DEF BackupTyped, JobTyped, CountsTyped, HoldInv, LiveHolds, CopyInv
<1> USE DEF Swapping
<1>1. CASE UNCHANGED <<dir, resudo>> /\ UNCHANGED job
  BY <1>0, <1>1, FaultsGrow DEF CopyInv, NoFaultYet, OneFaultYet, Turn
<1>2. CASE /\ UNCHANGED <<dir, resudo>>
           /\ job.at \notin {"staging"} \cup Swapping /\ job'.at \notin {"staging"} \cup Swapping
  BY <1>0, <1>2, FaultsGrow DEF CopyInv, NoFaultYet, OneFaultYet
<1>3. CASE KillJob
  <2>1. UNCHANGED <<dir, resudo>> /\ job'.at = "idle"
    BY <1>3 DEF KillJob, NoJob
  <2>2. faults' > 0 /\ (faults' <= 1 => faults = 0)
    BY <1>0, <1>3, FaultsGrow
  <2> QED BY <1>0, <2>1, <2>2 DEF CopyInv, NoFaultYet, OneFaultYet
<1>4. ASSUME NEW m \in Member, SwapFails(m) PROVE CopyInv'
  <2>1. job' = NoJob /\ UNCHANGED resudo /\ Turn(m)
    BY <1>4, Zenon DEF SwapFails
  <2>2. job'.at = "idle"
    BY <2>1 DEF NoJob
  <2>3. faults' > 0 /\ (faults' <= 1 => faults = 0 /\ faults' = faults + 1)
    BY <1>0, <1>4, FaultsGrow
  <2>4. m \in Directory
    BY <1>0, <1>4 DEF SwapFails, RestoresArchive
  <2>5. ASSUME faults = 0, faults' = faults + 1, NEW d \in Directory PROVE Whole(dir'[d].target)
    <3>1. CASE d # m
      <4>1. ~Turn(d) /\ dir'[d] = dir[d]
        BY <1>0, <1>4, <2>1, <2>4, <3>1, OneTurn, FailedSwap
      <4> QED BY <1>0, <2>5, <4>1 DEF NoFaultYet
    <3>2. CASE d = m /\ job.at # "aside"
      BY <1>0, <1>4, <2>4, <2>5, <3>2, FailedSwap DEF NoFaultYet
    <3>3. CASE d = m /\ job.at = "aside"
      <4>1. dir'[d].target = dir[d].rollback
        BY <1>0, <1>4, <2>4, <2>5, <3>3, FailedSwap
      <4> QED BY <1>0, <2>1, <2>5, <3>3, <4>1 DEF NoFaultYet
    <3> QED BY <3>1, <3>2, <3>3
  <2> QED BY <2>2, <2>3, <2>5 DEF CopyInv, NoFaultYet, OneFaultYet
<1>5. ASSUME NEW m \in Member, StackWrites(m) PROVE CopyInv'
  <2>1. /\ job'.at = job.at /\ job'.todo = job.todo /\ UNCHANGED <<faults, resudo>>
        /\ \A d \in Directory : /\ dir'[d].rollback = dir[d].rollback
                               /\ dir'[d].target \in {dir[d].target, work + 1}
    BY <1>0, <1>5 DEF StackWrites, DirTyped, JobFields
  <2>2. Whole(work + 1)
    BY <1>0, MemberAssumption DEF Whole
  <2>3. ASSUME NEW d \in Directory PROVE Turn(d)' <=> Turn(d)
    BY <2>1 DEF Turn
  <2> QED BY <1>0, <2>1, <2>2, <2>3 DEF CopyInv, NoFaultYet, OneFaultYet
<1>6. ASSUME NEW m \in Member, StageDirectory(m) PROVE CopyInv'
  <2>1. /\ job.at = "next" /\ job'.at = "staging" /\ UNCHANGED faults
        /\ resudo' = (resudo \/ (job.sudo /\ dir[m].target = Nothing))
        /\ m \in Directory
    BY <1>0, <1>6 DEF StageDirectory, JobFields
  <2>2. /\ \A d \in Directory : dir'[d].target = dir[d].target
        /\ \A d \in Directory : d # m \/ ~job.sudo => dir'[d].rollback = dir[d].rollback
    BY <1>0, <1>6 DEF StageDirectory, DirTyped
  <2>3. ~resudo' => ~resudo /\ (job.sudo => Whole(dir[m].target))
    BY <1>0, <2>1 DEF Whole
  <2> QED BY <1>0, <2>1, <2>2, <2>3 DEF CopyInv, NoFaultYet, OneFaultYet
<1>7. ASSUME NEW m \in Member, SwapDirectory(m) PROVE CopyInv'
  <2>1. /\ Turn(m) /\ m \in Directory /\ UNCHANGED <<faults, resudo>>
        /\ job.at \in {"staging"} \cup Swapping
    BY <1>0, <1>7 DEF SwapDirectory, Unpacked, DropOldCopy, MoveAside, MoveIn, DropCopy, RestoresArchive
  <2>2. ASSUME NEW d \in Directory, d # m PROVE ~Turn(d) /\ dir'[d] = dir[d]
    <3>1. ~Turn(d)
      BY <1>0, <2>1, <2>2, OneTurn
    <3>2. dir'[d] = dir[d]
      BY <1>0, <1>7, <2>2 DEF SwapDirectory, Unpacked, DropOldCopy, MoveAside, MoveIn, DropCopy, DirTyped
    <3> QED BY <3>1, <3>2
  <2>3. ASSUME ~DropCopy(m), NEW d \in Directory PROVE Turn(d)' <=> Turn(d)
    <3>1. job'.todo = job.todo
      BY <1>0, <1>7, <2>3 DEF SwapDirectory, Unpacked, DropOldCopy, MoveAside, MoveIn, JobFields
    <3> QED BY <3>1 DEF Turn
  <2>4. CASE Unpacked(m) \/ DropOldCopy(m)
    <3>1. /\ job'.at \in {"swap", "dropped"} /\ job.at \notin {"aside", "in"}
          /\ dir'[m].target = dir[m].target /\ ~DropCopy(m)
      BY <1>0, <2>1, <2>4 DEF Unpacked, DropOldCopy, DropCopy, JobFields, DirTyped
    <3> QED BY <1>0, <2>1, <2>2, <2>3, <3>1 DEF CopyInv, NoFaultYet, OneFaultYet
  <2>5. CASE MoveAside(m)
    <3>1. /\ job.at = "dropped" /\ job'.at = "aside" /\ dir'[m].rollback = dir[m].target
          /\ ~DropCopy(m)
      BY <1>0, <2>1, <2>5 DEF MoveAside, DropCopy, JobFields, DirTyped
    <3> QED BY <1>0, <2>1, <2>2, <2>3, <3>1 DEF CopyInv, NoFaultYet, OneFaultYet
  <2>6. CASE MoveIn(m)
    <3>1. /\ job.at = "aside" /\ job'.at = "in" /\ dir'[m].target = dir[m].staged
          /\ ~DropCopy(m)
      BY <1>0, <2>1, <2>6 DEF MoveIn, DropCopy, JobFields, DirTyped
    <3>2. Whole(dir[m].staged)
      BY <2>1, <3>1 DEF HoldInv, RestoresArchive, ArchivesHold, Archived, Turn, Whole,
                        BackupTyped, JobTyped
    <3> QED BY <1>0, <2>1, <2>2, <2>3, <3>1, <3>2 DEF CopyInv, NoFaultYet, OneFaultYet
  <2>7. CASE DropCopy(m)
    <3>1. job.at = "in" /\ job'.at = "next" /\ dir'[m].target = dir[m].target
      BY <1>0, <2>1, <2>7 DEF DropCopy, Done, JobFields, DirTyped
    <3> QED BY <1>0, <2>1, <2>2, <3>1 DEF CopyInv, NoFaultYet, OneFaultYet
  <2> QED BY <1>7, <2>4, <2>5, <2>6, <2>7 DEF SwapDirectory
<1> QED BY <1>1, <1>2, <1>3, <1>4, <1>5, <1>6, <1>7, WhoSwaps, WhoLeavesSwap, WhoWrites

(* Steps that leave what is in place, and the work that is left, alone.       *)
LEMMA RestoredStep ==
  ASSUME BackupTyped, HoldInv, RestoredSoFar, BackupNext
  PROVE  RestoredSoFar'
<1>0. /\ DirTyped /\ LiveTyped /\ JobTyped /\ DOMAIN job = JobFields /\ RestoresArchive
  BY DEF BackupTyped, JobTyped, HoldInv
<1> USE DEF NoJob, JobFields, Swapping
<1>1. CASE job'.cmd # "restore"
  BY <1>1 DEF RestoredSoFar
<1>2. CASE UNCHANGED <<job, live, dir>>
  BY <1>2 DEF RestoredSoFar, Content
<1>3. ASSUME NEW data \in BOOLEAN, BeginBackup(data) \/ BeginDrill(data) PROVE job'.cmd # "restore"
  BY <1>3 DEF BeginBackup, BeginDrill
<1>4. AbortBackup \/ RestoreReturns \/ DrillReturns \/ KillJob \/ StampMarker
        => job'.cmd # "restore"
  BY DEF AbortBackup, RestoreReturns, DrillReturns, KillJob, StampMarker
<1>5. FinishArchive => job'.cmd # "restore"
  <2>1. CASE job.whole
    BY <1>0, <2>1 DEF FinishArchive
  <2>2. CASE ~job.whole
    BY <2>2 DEF FinishArchive
  <2> QED BY <2>1, <2>2
<1>6. DrillRestores => job'.cmd # "restore"
  BY <1>0 DEF DrillRestores
<1>7. ASSUME NEW i \in DOMAIN archives, NEW force \in BOOLEAN, NEW skip \in BOOLEAN,
             NEW sudo \in BOOLEAN, NEW label \in {Nothing} \cup Config,
             BeginRestore(i, label, force, skip, sudo)
      PROVE  RestoredSoFar'
  <2>1. /\ job'.whole = (label = Nothing) /\ job'.got = archives[i].got
        /\ job'.todo = Wanted(i, label)
    BY <1>7 DEF BeginRestore
  <2> QED BY <2>1 DEF RestoredSoFar, Wanted, Included
<1>8. ASSUME NEW m \in Member, ReadMember(m) \/ DrillMember(m) PROVE job'.cmd # "restore"
  BY <1>0, <1>8 DEF ReadMember, DrillMember, Done, RestoresArchive
<1>9. ASSUME NEW m \in Member, SwapFails(m) PROVE job'.cmd # "restore"
  <2>1. job' = NoJob
    BY <1>9, Zenon DEF SwapFails
  <2> QED BY <2>1
<1>10. ASSUME NEW m \in Member, RestoreFile(m) PROVE RestoredSoFar'
  <2>1. /\ job'.todo = job.todo \ {m} /\ job'.got = job.got /\ job'.dirty = job.dirty
        /\ job'.whole = job.whole /\ job'.failed = job.failed /\ job.cmd = "restore"
    BY <1>0, <1>10 DEF RestoreFile, Done
  <2>2. ASSUME NEW n \in DOMAIN job.got
        PROVE  Content(n)' = IF n = m THEN job.got[m] ELSE Content(n)
    <3>1. m \notin Directory /\ n \in Member
      BY <1>0, <1>10, GatheredHas, DirectoryIsNone DEF RestoreFile, JobTyped
    <3> QED BY <1>0, <1>10, <3>1 DEF RestoreFile, Content, LiveTyped, DirTyped, Member, Config,
                                     Data, Directory
  <2> QED BY <2>1, <2>2 DEF RestoredSoFar
<1>11. ASSUME NEW m \in Member, LoadDump(m) PROVE RestoredSoFar'
  <2>1. PICK content \in {live[m], job.got[m], Half}, partly \in BOOLEAN :
          /\ live' = [live EXCEPT ![m] = content]
          /\ job' = [Done(m) EXCEPT !.failed = @ \/ partly]
          /\ partly \/ m \in Globals \/ job.got[m] = Empty \/ content = job.got[m]
    BY <1>11, LoadDumpDoes
  <2>2. /\ job'.todo = job.todo \ {m} /\ job'.got = job.got /\ job'.dirty = job.dirty
        /\ job'.whole = job.whole /\ job'.cmd = job.cmd /\ job'.failed = (job.failed \/ partly)
    BY <1>0, <1>11, <2>1, LoadedJob DEF Done
  <2>3. ASSUME NEW n \in DOMAIN job.got
        PROVE  Content(n)' = IF n = m THEN content ELSE Content(n)
    <3>1. m \notin Directory /\ n \in Member /\ m \in Database /\ UNCHANGED dir
      BY <1>0, <1>11, GatheredHas, DirectoryIsNone, LoadDumpDoes DEF JobTyped
    <3> QED BY <1>0, <2>1, <3>1 DEF Content, LiveTyped, DirTyped, Member, Config, Data, Directory
  <2> QED BY <2>1, <2>2, <2>3 DEF RestoredSoFar
<1>12. ASSUME NEW m \in Member, StageDirectory(m) PROVE RestoredSoFar'
  <2>1. /\ job'.todo = job.todo /\ job'.got = job.got /\ job'.dirty = job.dirty
        /\ job'.whole = job.whole /\ job'.failed = job.failed /\ job'.cmd = job.cmd
    BY <1>0, <1>12 DEF StageDirectory
  <2>2. ASSUME NEW n \in DOMAIN job.got PROVE Content(n)' = Content(n)
    BY <1>0, <1>12 DEF StageDirectory, Content, DirTyped
  <2> QED BY <2>1, <2>2 DEF RestoredSoFar
<1>13. ASSUME NEW m \in Member, SwapDirectory(m) PROVE RestoredSoFar'
  <2>1. /\ job'.got = job.got /\ job'.dirty = job.dirty /\ job'.todo \subseteq job.todo
        /\ job'.whole = job.whole /\ job'.failed = job.failed /\ job'.cmd = job.cmd
        /\ job'.todo = job.todo \/ (DropCopy(m) /\ job'.todo = job.todo \ {m})
    <3>1. CASE DropCopy(m)
      BY <1>0, <3>1 DEF DropCopy, Done
    <3>2. CASE ~DropCopy(m)
      BY <1>0, <1>13, <3>2 DEF SwapDirectory, Unpacked, DropOldCopy, MoveAside, MoveIn
    <3>3. QED
      BY <3>1, <3>2
  <2>2. m \in Directory /\ m \in job.todo
    BY <1>0, <1>13 DEF SwapDirectory, Unpacked, DropOldCopy, MoveAside, MoveIn, DropCopy, Turn,
                       RestoresArchive
  <2>3. ASSUME NEW n \in DOMAIN job.got, n # m \/ DropCopy(m) PROVE Content(n)' = Content(n)
    BY <1>0, <1>13, <2>2, <2>3 DEF SwapDirectory, Unpacked, DropOldCopy, MoveAside, MoveIn, DropCopy,
                                   Content, DirTyped
  <2>4. DropCopy(m) => m \in job.dirty \/ Content(m) = job.got[m]
    BY <1>0, <1>13, <2>2 DEF SwapDirectory, DropCopy, RestoresArchive, Content
  <2> QED BY <2>1, <2>2, <2>3, <2>4 DEF RestoredSoFar
<1>14. ASSUME NEW m \in Member, StackWrites(m) PROVE RestoredSoFar'
  <2>1. /\ job'.todo = job.todo /\ job'.got = job.got
        /\ job'.whole = job.whole /\ job'.failed = job.failed /\ job'.cmd = job.cmd
        /\ job.cmd = "restore" => job'.dirty = job.dirty \cup {m}
    BY <1>0, <1>14 DEF StackWrites
  <2>2. ASSUME NEW n \in DOMAIN job.got, n # m PROVE Content(n)' = Content(n)
    <3>1. n \in Member
      BY <1>0, GatheredHas DEF JobTyped
    <3> QED BY <1>0, <1>14, <2>2, <3>1 DEF StackWrites, Content, DirTyped, LiveTyped, Member,
                                           Config, Data, Directory
  <2> QED BY <2>1, <2>2 DEF RestoredSoFar
<1>15. ASSUME NEW s \in Service, StartOrStop(s) PROVE UNCHANGED <<job, live, dir>>
  BY <1>15 DEF StartOrStop
<1>17. ASSUME NEW s \in Service, Reinitialise(s) PROVE job'.cmd # "restore"
  BY <1>0, <1>17 DEF Reinitialise, RestoresArchive
<1>16. ASSUME NEW i \in DOMAIN archives, NEW m \in DOMAIN archives[i].got \cap Database, Rot(i, m)
       PROVE  UNCHANGED <<job, live, dir>>
  BY <1>16 DEF Rot
<1> QED BY <1>1, <1>2, <1>3, <1>4, <1>5, <1>6, <1>7, <1>8, <1>9, <1>10, <1>11, <1>12, <1>13,
           <1>14, <1>15, <1>16, <1>17 DEF BackupNext

(* Reading goes on until every member of the services listed is in.          *)
LEMMA BackupReads ==
  ASSUME BackupTyped, HoldInv, MarkerCovers, BackupNext,
         job'.cmd = "backup", job'.at = "read", job'.whole
  PROVE  /\ job'.listed # {}
         /\ UNION {DataOf[s] : s \in job'.listed} \subseteq DOMAIN job'.got \cup job'.todo
<1>0. DOMAIN job = JobFields /\ RestoresArchive
  BY DEF BackupTyped, JobTyped, HoldInv
<1> USE DEF NoJob, JobFields, Swapping
<1>1. CASE /\ job'.cmd = job.cmd /\ job'.at = job.at /\ job'.whole = job.whole
           /\ job'.listed = job.listed /\ job'.got = job.got /\ job'.todo = job.todo
  BY <1>1 DEF MarkerCovers
<1>2. ASSUME NEW data \in BOOLEAN, BeginBackup(data)
      PROVE  /\ job'.listed # {}
             /\ UNION {DataOf[s] : s \in job'.listed} \subseteq job'.todo
  <2>1. PICK listed \in Listings :
          /\ data => listed # {}
          /\ job'.whole = data /\ job'.todo = Sources(data, listed) /\ job'.listed = listed
    BY <1>2 DEF BeginBackup
  <2> QED BY <2>1 DEF Sources
<1>3. ASSUME NEW data \in BOOLEAN, BeginDrill(data) PROVE FALSE
  BY <1>3 DEF BeginDrill
<1>4. ~(AbortBackup \/ RestoreReturns \/ DrillReturns \/ KillJob \/ StampMarker)
  BY DEF AbortBackup, RestoreReturns, DrillReturns, KillJob, StampMarker
<1>5. ~FinishArchive
  <2>1. CASE job.whole
    BY <1>0, <2>1 DEF FinishArchive
  <2>2. CASE ~job.whole
    BY <2>2 DEF FinishArchive
  <2> QED BY <2>1, <2>2
<1>6. ~DrillRestores
  BY <1>0 DEF DrillRestores
<1>7. ASSUME NEW i \in DOMAIN archives, NEW force \in BOOLEAN, NEW skip \in BOOLEAN,
             NEW sudo \in BOOLEAN, NEW label \in {Nothing} \cup Config,
             BeginRestore(i, label, force, skip, sudo)
      PROVE  FALSE
  BY <1>7 DEF BeginRestore
<1>8. ASSUME NEW m \in Member, ReadMember(m)
      PROVE  /\ job'.listed # {}
             /\ UNION {DataOf[s] : s \in job'.listed} \subseteq DOMAIN job'.got \cup job'.todo
  <2>1. /\ job'.cmd = job.cmd /\ job'.whole = job.whole /\ job'.listed = job.listed
        /\ job'.todo = job.todo \ {m} /\ job.at = "read"
        /\ job'.got = IF Content(m) = Nothing THEN job.got
                      ELSE [x \in DOMAIN job.got \cup {m} |->
                              IF x = m THEN Content(m) ELSE job.got[x]]
    BY <1>0, <1>8 DEF ReadMember
  <2>2. m \in Data => Content(m) # Nothing
    <3>1. CASE m \in Volume
      BY <1>8, <3>1 DEF ReadMember, TreeReadable
    <3>2. CASE m \in Database /\ m \notin Volume
      <4>1. m \notin Directory
        BY <3>2, MemberAssumption DEF Directory
      <4> QED BY <3>2, <4>1 DEF Content, HoldInv, LiveHolds
    <3> QED BY <3>1, <3>2 DEF Data
  <2>3. UNION {DataOf[s] : s \in job.listed} \subseteq Data
    BY MemberAssumption DEF Data, BackupTyped, JobTyped
  <2>4. UNION {DataOf[s] : s \in job.listed} \subseteq DOMAIN job.got \cup job.todo /\ job.listed # {}
    BY <2>1 DEF MarkerCovers
  <2>5. m \in Data => DOMAIN job'.got = DOMAIN job.got \cup {m}
    BY <2>1, <2>2
  <2>6. DOMAIN job.got \subseteq DOMAIN job'.got
    BY <2>1
  <2> QED BY <2>1, <2>3, <2>4, <2>5, <2>6
<1>9. ASSUME NEW m \in Member, RestoreFile(m) \/ DrillMember(m) \/ StageDirectory(m) PROVE FALSE
  BY <1>0, <1>9 DEF RestoreFile, DrillMember, StageDirectory, Done
<1>10. ASSUME NEW m \in Member, LoadDump(m) PROVE FALSE
  BY <1>0, <1>10, LoadedJob
<1>11. ASSUME NEW m \in Member, SwapDirectory(m) PROVE FALSE
  <2>1. job'.at \in {"next"} \cup Swapping
    BY <1>0, <1>11 DEF SwapDirectory, Unpacked, DropOldCopy, MoveAside, MoveIn, DropCopy, Done
  <2> QED BY <2>1
<1>12. ASSUME NEW m \in Member, SwapFails(m) PROVE FALSE
  <2>1. job' = NoJob
    BY <1>12, Zenon DEF SwapFails
  <2> QED BY <2>1
<1>13. ASSUME NEW m \in Member, StackWrites(m)
       PROVE  /\ job'.cmd = job.cmd /\ job'.at = job.at /\ job'.whole = job.whole
              /\ job'.listed = job.listed /\ job'.got = job.got /\ job'.todo = job.todo
  BY <1>0, <1>13 DEF StackWrites
<1>14. ASSUME NEW s \in Service, StartOrStop(s) \/ Reinitialise(s) PROVE UNCHANGED job
  BY <1>14 DEF StartOrStop, Reinitialise
<1>15. ASSUME NEW i \in DOMAIN archives, NEW m \in DOMAIN archives[i].got \cap Database, Rot(i, m)
       PROVE  UNCHANGED job
  BY <1>15 DEF Rot
<1> QED BY <1>1, <1>2, <1>3, <1>4, <1>5, <1>6, <1>7, <1>8, <1>9, <1>10, <1>11, <1>12, <1>13,
           <1>14, <1>15 DEF BackupNext

(* A finished archive keeps its members and its services.                    *)
LEMMA ArchivesStay ==
  ASSUME BackupTyped, BackupNext
  PROVE  /\ \A i \in DOMAIN archives :
              /\ i \in DOMAIN archives' /\ archives'[i].listed = archives[i].listed
              /\ DOMAIN archives'[i].got = DOMAIN archives[i].got
         /\ ~FinishArchive => Len(archives') = Len(archives)
<1>0. archives \in Seq([got : Gathered, listed : SUBSET Service])
  BY DEF BackupTyped, ArchivesTyped
<1>1. CASE FinishArchive
  <2>1. [got |-> job.got, listed |-> job.listed] \in [got : Gathered, listed : SUBSET Service]
    BY DEF BackupTyped, JobTyped
  <2>2. archives' = Append(archives, [got |-> job.got, listed |-> job.listed])
    BY <1>1 DEF FinishArchive
  <2>3. \A i \in DOMAIN archives : i \in DOMAIN archives' /\ archives'[i] = archives[i]
    BY <1>0, <2>1, <2>2, AppendProperties, LenProperties
  <2> QED BY <1>1, <2>3
<1>2. ASSUME NEW j \in DOMAIN archives, NEW m \in DOMAIN archives[j].got \cap Database, Rot(j, m)
      PROVE  /\ \A i \in DOMAIN archives :
                  /\ i \in DOMAIN archives' /\ archives'[i].listed = archives[i].listed
                  /\ DOMAIN archives'[i].got = DOMAIN archives[i].got
             /\ Len(archives') = Len(archives)
  <2>1. \A i \in DOMAIN archives : DOMAIN archives[i] = {"got", "listed"}
    BY ArchiveAt DEF BackupTyped
  <2>2. archives' = [archives EXCEPT ![j].got[m] = Rotten]
    BY <1>2 DEF Rot
  <2>3. DOMAIN archives' = DOMAIN archives
    BY <2>2
  <2>4. Len(archives') = Len(archives)
    BY <1>0, <2>2, <2>3, LenProperties, BackupTypedStep, <1>2 DEF BackupTyped, ArchivesTyped
  <2> QED BY <2>1, <2>2, <2>3, <2>4
<1> QED BY <1>1, <1>2, WhoWrites

(* Only a backup that has read everything is about to stamp the marker.       *)
LEMMA WhoStamps ==
  ASSUME BackupTyped, BackupNext, job'.at = "stamp"
  PROVE  \/ FinishArchive /\ job.whole
         \/ job.at = "stamp"
<1>0. DOMAIN job = JobFields
  BY DEF BackupTyped, JobTyped
<1> USE DEF NoJob, JobFields, Swapping
<1>1. ASSUME NEW data \in BOOLEAN, BeginBackup(data) \/ BeginDrill(data) PROVE FALSE
  BY <1>1 DEF BeginBackup, BeginDrill
<1>2. ~(AbortBackup \/ RestoreReturns \/ DrillReturns \/ KillJob \/ StampMarker)
  BY DEF AbortBackup, RestoreReturns, DrillReturns, KillJob, StampMarker
<1>3. FinishArchive => job.whole
  BY DEF FinishArchive
<1>4. ~DrillRestores
  BY <1>0 DEF DrillRestores
<1>5. ASSUME NEW i \in DOMAIN archives, NEW force \in BOOLEAN, NEW skip \in BOOLEAN,
             NEW sudo \in BOOLEAN, NEW label \in {Nothing} \cup Config,
             BeginRestore(i, label, force, skip, sudo)
      PROVE  FALSE
  BY <1>5 DEF BeginRestore
<1>6. ASSUME NEW m \in Member,
             ReadMember(m) \/ RestoreFile(m) \/ DrillMember(m) \/ StageDirectory(m)
      PROVE  FALSE
  BY <1>0, <1>6 DEF ReadMember, RestoreFile, DrillMember, StageDirectory, Done
<1>7. ASSUME NEW m \in Member, LoadDump(m) PROVE FALSE
  BY <1>0, <1>7, LoadedJob
<1>8. ASSUME NEW m \in Member, SwapDirectory(m) PROVE FALSE
  <2>1. job'.at \in {"next"} \cup Swapping
    BY <1>0, <1>8 DEF SwapDirectory, Unpacked, DropOldCopy, MoveAside, MoveIn, DropCopy, Done
  <2> QED BY <2>1
<1>9. ASSUME NEW m \in Member, SwapFails(m) PROVE FALSE
  <2>1. job' = NoJob
    BY <1>9, Zenon DEF SwapFails
  <2> QED BY <2>1
<1>10. ASSUME NEW m \in Member, StackWrites(m) PROVE job'.at = job.at
  BY <1>0, <1>10 DEF StackWrites
<1>11. ASSUME NEW s \in Service, StartOrStop(s) \/ Reinitialise(s) PROVE UNCHANGED job
  BY <1>11 DEF StartOrStop, Reinitialise
<1>12. ASSUME NEW i \in DOMAIN archives, NEW m \in DOMAIN archives[i].got \cap Database, Rot(i, m)
       PROVE  UNCHANGED job
  BY <1>12 DEF Rot
<1> QED BY <1>1, <1>2, <1>3, <1>4, <1>5, <1>6, <1>7, <1>8, <1>9, <1>10, <1>11, <1>12 DEF BackupNext

(* Every step keeps the marker on an archive that covers the data.          *)
LEMMA MarkerStep ==
  ASSUME BackupTyped, HoldInv, MarkerCovers, BackupNext
  PROVE  MarkerCovers'
<1>0. archives \in Seq([got : Gathered, listed : SUBSET Service])
  BY DEF BackupTyped, ArchivesTyped
<1>1. ASSUME NEW i \in DOMAIN archives, CoversData(archives[i].got, archives[i].listed)
      PROVE  i \in DOMAIN archives' /\ CoversData(archives'[i].got, archives'[i].listed)
  BY <1>1, ArchivesStay DEF CoversData
<1>2. job'.at = "stamp" =>
        Len(archives') > 0 /\ CoversData(archives'[Len(archives')].got, archives'[Len(archives')].listed)
  <2>1. CASE FinishArchive /\ job.whole
    <3>1. [got |-> job.got, listed |-> job.listed] \in [got : Gathered, listed : SUBSET Service]
      BY DEF BackupTyped, JobTyped
    <3>2. CoversData(job.got, job.listed)
      BY <2>1 DEF FinishArchive, MarkerCovers, CoversData
    <3>3. archives' = Append(archives, [got |-> job.got, listed |-> job.listed])
      BY <2>1 DEF FinishArchive
    <3>4. Len(archives') = Len(archives) + 1 /\ Len(archives) \in Nat
          /\ archives'[Len(archives')] = [got |-> job.got, listed |-> job.listed]
      BY <1>0, <3>1, <3>3, AppendProperties, LenProperties
    <3> QED BY <3>2, <3>4
  <2>2. CASE job.at = "stamp"
    <3>1. Len(archives') = Len(archives)
      BY <2>2, ArchivesStay DEF FinishArchive
    <3>2. Len(archives) > 0
          /\ CoversData(archives[Len(archives)].got, archives[Len(archives)].listed)
      BY <2>2 DEF MarkerCovers
    <3>3. Len(archives) \in DOMAIN archives
      BY <1>0, <3>2, LenProperties
    <3> QED BY <1>1, <3>1, <3>2, <3>3
  <2> QED BY <2>1, <2>2, WhoStamps
<1>3. marker' \in {marker, Len(archives)} /\ (marker' # marker => job.at = "stamp")
  <2>1. StampMarker => marker' \in {marker, Len(archives)} /\ job.at = "stamp"
    BY DEF StampMarker
  <2>2. ASSUME NEW m \in Member,
               ReadMember(m) \/ RestoreFile(m) \/ DrillMember(m) \/ StageDirectory(m) \/ LoadDump(m)
                 \/ SwapDirectory(m) \/ StackWrites(m)
        PROVE  UNCHANGED marker
    BY <2>2, LoadDumpDoes DEF ReadMember, RestoreFile, DrillMember, StageDirectory, SwapDirectory,
                              StackWrites
  <2>3. ASSUME NEW m \in Member, SwapFails(m) PROVE UNCHANGED marker
    BY <2>3, Zenon DEF SwapFails
  <2>4. AbortBackup \/ RestoreReturns \/ DrillReturns \/ KillJob \/ FinishArchive \/ DrillRestores
          => UNCHANGED marker
    BY DEF AbortBackup, RestoreReturns, DrillReturns, KillJob, FinishArchive, DrillRestores
  <2>5. ASSUME NEW data \in BOOLEAN, BeginBackup(data) \/ BeginDrill(data) PROVE UNCHANGED marker
    BY <2>5 DEF BeginBackup, BeginDrill
  <2>6. ASSUME NEW i \in DOMAIN archives, NEW force \in BOOLEAN, NEW skip \in BOOLEAN,
               NEW sudo \in BOOLEAN, NEW label \in {Nothing} \cup Config,
               BeginRestore(i, label, force, skip, sudo)
        PROVE  UNCHANGED marker
    BY <2>6 DEF BeginRestore
  <2>7. ASSUME NEW s \in Service, StartOrStop(s) \/ Reinitialise(s) PROVE UNCHANGED marker
    BY <2>7 DEF StartOrStop, Reinitialise
  <2>8. ASSUME NEW i \in DOMAIN archives, NEW m \in DOMAIN archives[i].got \cap Database, Rot(i, m)
        PROVE  UNCHANGED marker
    BY <2>8 DEF Rot
  <2> QED BY <2>1, <2>2, <2>3, <2>4, <2>5, <2>6, <2>7, <2>8 DEF BackupNext
<1>4. marker' # NoMarker =>
        marker' \in DOMAIN archives' /\ CoversData(archives'[marker'].got, archives'[marker'].listed)
  <2>1. CASE marker' = marker
    BY <1>1, <2>1 DEF MarkerCovers
  <2>2. CASE marker' = Len(archives) /\ job.at = "stamp"
    <3>1. Len(archives) > 0
          /\ CoversData(archives[Len(archives)].got, archives[Len(archives)].listed)
      BY <2>2 DEF MarkerCovers
    <3>2. Len(archives) \in DOMAIN archives
      BY <1>0, <3>1, LenProperties
    <3> QED BY <1>1, <2>2, <3>1, <3>2
  <2> QED BY <1>3, <2>1, <2>2
<1> QED BY <1>2, <1>4, BackupReads DEF MarkerCovers, CoversData

BackupInv == BackupTyped /\ HoldInv /\ CopyInv /\ RestoredSoFar /\ MarkerCovers

(* The invariant holds on a fresh host.                                     *)
LEMMA BackupInvInit == BackupInit => BackupInv
<1> SUFFICES ASSUME BackupInit PROVE BackupInv
  OBVIOUS
<1>1. /\ job = NoJob /\ archives = <<>> /\ marker = NoMarker /\ resudo = FALSE
      /\ \A m \in File \cup Database : live[m] = 0
      /\ \A d \in Directory : dir[d].target = 0 /\ dir[d].rollback = Nothing
  BY DEF BackupInit
<1>2. 0 # Nothing /\ 0 # Half /\ Nothing # Half
  BY MemberAssumption
<1>3. ArchivesHold
  BY <1>1 DEF ArchivesHold, Archived, NoJob
<1>4. LiveHolds
  BY <1>1, <1>2 DEF LiveHolds
<1>5. RestoresArchive /\ RestoredSoFar /\ MarkerCovers
  BY <1>1 DEF RestoresArchive, RestoredSoFar, MarkerCovers, NoJob, Swapping
<1>6. CopyInv
  BY <1>1, <1>2 DEF CopyInv, NoFaultYet, OneFaultYet, NoJob, Swapping, Whole
<1> QED BY <1>3, <1>4, <1>5, <1>6, BackupTypedInit DEF BackupInv, HoldInv

(* Every step keeps it.                                                     *)
LEMMA BackupInvStep == BackupInv /\ [BackupNext]_backupVars => BackupInv'
<1> SUFFICES ASSUME BackupInv, [BackupNext]_backupVars PROVE BackupInv'
  OBVIOUS
<1>1. CASE BackupNext
  BY <1>1, BackupTypedStep, ArchivesHoldStep, LiveHoldsStep, RestoresArchiveStep, CopyStep,
     RestoredStep, MarkerStep DEF BackupInv, HoldInv
<1>2. CASE UNCHANGED backupVars
  BY <1>2, BackupTypedStep
     DEF BackupInv, HoldInv, backupVars, ArchivesHold, Archived, LiveHolds, RestoresArchive, CopyInv,
         NoFaultYet, OneFaultYet, RestoredSoFar, MarkerCovers, CoversData, Turn, Content
<1> QED BY <1>1, <1>2

(* One death or error, wherever it falls, never costs a directory: its old or  *)
(* its new tree is complete at one of the three paths.                       *)
THEOREM OneCopyIsLeft == BackupSpec => []OneCopyLeft
<1>1. BackupInv => OneCopyLeft
  <2> SUFFICES ASSUME BackupInv, faults <= 1, ~resudo, NEW d \in Directory
               PROVE  \E c \in {dir[d].target, dir[d].rollback, dir[d].staged} : Whole(c)
    BY DEF BackupInv, BackupTyped, CountsTyped, OneCopyLeft
  <2>1. CASE ~(job.at \in Swapping /\ Turn(d))
    BY <2>1 DEF BackupInv, CopyInv, OneFaultYet
  <2>2. CASE job.at = "in" /\ Turn(d)
    BY <2>2 DEF BackupInv, CopyInv, OneFaultYet
  <2>3. CASE job.at \in Swapping \ {"in"} /\ Turn(d)
    BY <2>3, DirectoryIsNone
       DEF BackupInv, BackupTyped, JobTyped, HoldInv, RestoresArchive, ArchivesHold, Archived, Turn, Whole
  <2> QED BY <2>1, <2>2, <2>3
<1> QED BY <1>1, BackupInvInit, BackupInvStep, PTL DEF BackupSpec

(* The marker that lets a deploy recreate a stateful service names an archive  *)
(* with all data of the services that ran when it was begun.                 *)
THEOREM MarkerNamesData == BackupSpec => []MarkerMeansData
<1>1. BackupInv => MarkerMeansData
  BY DEF BackupInv, MarkerCovers, CoversData, MarkerMeansData
<1> QED BY <1>1, BackupInvInit, BackupInvStep, PTL DEF BackupSpec

(* A full restore that returns 0 has put every member of the archive in place, *)
(* but for globals and empty dumps, whatever earlier attempts left behind.   *)
THEOREM RestoresConverge == BackupSpec => RestoreConverges
<1>1. BackupInv /\ [BackupNext]_backupVars =>
        [RestoreReturns /\ job.whole /\ ~job.failed =>
           \A m \in DOMAIN job.got \ (job.dirty \cup Globals) :
             job.got[m] # Empty => Content(m) = job.got[m]]_backupVars
  BY DEF BackupInv, RestoredSoFar, RestoreReturns
<1> QED BY <1>1, BackupInvInit, BackupInvStep, PTL DEF BackupSpec, RestoreConverges

-----------------------------------------------------------------------------
(***************************************************************************)
(* BackupSchedule                                                           *)
(***************************************************************************)

Remotes == Remote \cup {NoRemote}

ScheduleShape ==
  /\ unit \in [Units -> Remotes \cup {NoUnit}] /\ loaded \in [Units -> Remotes \cup {NoUnit}]
  /\ envRemote \in Remotes
  /\ DOMAIN timerCommand = {"at", "remote"} /\ timerCommand.remote \in Remotes

(* What a backup-timer command has written by the step it is at.             *)
Written ==
  /\ timerCommand.at \in {"timer", "reload", "enable"} => unit["service"] = timerCommand.remote
  /\ timerCommand.at \in {"reload", "enable"} => unit["timer"] = timerCommand.remote
  /\ timerCommand.at = "enable" => loaded = unit

(* What an install reported is in the files too, so a restart finds it there. *)
ReportStands ==
  /\ timerCommand.at # "idle" => inEffect = "unknown"
  /\ inEffect \in Remotes =>
       /\ enabled /\ active
       /\ unit = loaded /\ \A u \in Units : unit[u] = inEffect

ScheduleInv == ScheduleShape /\ Written /\ ReportStands

-----------------------------------------------------------------------------
(* Before the first command there is no timer.                              *)
LEMMA ScheduleInitOK == ScheduleInit => ScheduleInv
  BY RemoteAssumption DEF ScheduleInit, ScheduleInv, ScheduleShape, Written, ReportStands, Units, Remotes

(* Steps that touch neither the units nor the command.                      *)
LEMMA TimerStands ==
  ASSUME ScheduleInv, UNCHANGED <<systemd, timerCommand, inEffect>>, envRemote' \in Remotes
  PROVE  ScheduleInv'
  BY DEF systemd, ScheduleInv, ScheduleShape, Written, ReportStands

(* Every command, night and upset keeps the invariant.                      *)
LEMMA ScheduleStep == ScheduleInv /\ [ScheduleNext]_scheduleVars => ScheduleInv'
<1> SUFFICES ASSUME ScheduleInv, [ScheduleNext]_scheduleVars PROVE ScheduleInv'
  OBVIOUS
<1> USE RemoteAssumption DEF ScheduleInv, ScheduleShape, Written, ReportStands, Units, Remotes
<1>1. CASE UNCHANGED <<systemd, timerCommand, inEffect>> /\ envRemote' \in Remotes
  BY <1>1, TimerStands
<1>2. CASE UNCHANGED scheduleVars
  BY <1>1, <1>2 DEF scheduleVars, systemd
<1>3. ASSUME NEW r \in Remote \cup {NoRemote}, BeginTimerInstall(r) PROVE ScheduleInv'
  BY <1>3 DEF BeginTimerInstall, systemd
<1>4. CASE BeginTimerUninstall
  BY <1>4 DEF BeginTimerUninstall, systemd
<1>5. CASE MakeOutputDir \/ TimerInstallFails
  BY <1>5 DEF MakeOutputDir, TimerInstallFails, systemd
<1>6. CASE ReloadUnits
  BY <1>6 DEF ReloadUnits
<1>7. CASE EnableTimer
  BY <1>7 DEF EnableTimer
<1>8. ASSUME NEW u \in Units, WriteUnit(u) PROVE ScheduleInv'
  <2>1. /\ \A v \in Units : unit'[v] = IF v = u THEN timerCommand.remote ELSE unit[v]
        /\ unit' \in [Units -> Remotes \cup {NoUnit}]
    BY <1>8 DEF WriteUnit
  <2>2. /\ timerCommand'.at = IF u = "service" THEN "timer" ELSE "reload"
        /\ timerCommand'.remote = timerCommand.remote /\ DOMAIN timerCommand' = {"at", "remote"}
        /\ timerCommand.at = u /\ UNCHANGED <<loaded, enabled, active, inEffect, envRemote>>
    BY <1>8 DEF WriteUnit
  <2> QED BY <2>1, <2>2
<1>9. ASSUME NEW u \in Units, RemoveUnit(u) PROVE ScheduleInv'
  <2>1. /\ DOMAIN timerCommand' = {"at", "remote"} /\ timerCommand'.remote = timerCommand.remote
        /\ timerCommand.at \in {"rm timer", "rm service"}
        /\ timerCommand'.at \in {"rm service", "forget", "idle"}
        /\ UNCHANGED <<loaded, enabled, active, inEffect, envRemote>>
    BY <1>9 DEF RemoveUnit
  <2>2. unit' \in [Units -> Remotes \cup {NoUnit}]
    BY <1>9 DEF RemoveUnit
  <2> QED BY <2>1, <2>2
<1>10. CASE DisableTimer
  BY <1>10 DEF DisableTimer
<1>11. CASE ForgetUnits
  BY <1>11 DEF ForgetUnits
<1>12. CASE TimerFires \/ NightFails \/ NightWrites \/ NightStamps \/ NightPushes \/ EditRemote
  BY <1>1, <1>12 DEF TimerFires, NightFails, NightWrites, NightStamps, NightPushes, EditRemote
<1>13. CASE RestartHost
  BY <1>13 DEF RestartHost
<1> QED BY <1>2, <1>3, <1>4, <1>5, <1>6, <1>7, <1>8, <1>9, <1>10, <1>11, <1>12, <1>13
        DEF ScheduleNext

(* Once an install has reported the timer, every night from then on runs the   *)
(* service it wrote, to the remote it named, over restarts of the host and    *)
(* failing commands, and whatever units were there before.                   *)
THEOREM InstalledTimerFires == ScheduleSpec => []InstalledFires
<1>1. ScheduleInv => InstalledFires
  BY DEF ScheduleInv, ScheduleShape, ReportStands, InstalledFires, Remotes
<1> QED BY <1>1, ScheduleInitOK, ScheduleStep, PTL DEF ScheduleSpec

-----------------------------------------------------------------------------
(***************************************************************************)
(* Migrations                                                               *)
(***************************************************************************)

(* Every command is a record of the four fields.                            *)
CommandShape ==
  /\ command = [p \in Migrator |-> command[p]]
  /\ \A p \in Migrator : DOMAIN command[p] = {"op", "todo", "state", "ran"}

Alone == \A p, q \in Migrator : command[p].op # "none" /\ command[q].op # "none" => p = q

(* What the command that runs has, and what it is to write, is in effect; only *)
(* a `down` that has begun has undone what schema.json still names.           *)
InEffect ==
  /\ \A p \in Migrator : command[p].op # "none" => command[p].state.applied \subseteq effect
  /\ (\A p \in Migrator : command[p].op = "down" => command[p].ran = {})
       => schema.applied \subseteq effect

MigrationInv == CommandShape /\ (~crossed => Alone) /\ (~crossed /\ ~lostDown => InEffect)

-----------------------------------------------------------------------------
(* Nothing is applied or recorded yet.                                      *)
LEMMA MigrationInitOK == MigrationInit => MigrationInv
  BY DEF MigrationInit, MigrationInv, CommandShape, Alone, InEffect, NoCommand

(* To begin a run of migrations keeps the invariant.                        *)
LEMMA StartKeeps ==
  ASSUME MigrationInv, NEW p \in Migrator, NEW op \in {"up", "down"}, NEW todo,
         Start(p, op, todo)
  PROVE  MigrationInv'
<1> DEFINE c == [op |-> op, todo |-> todo, state |-> schema, ran |-> {}]
<1>1. /\ command[p].op = "none"
      /\ command' = [command EXCEPT ![p] = c]
      /\ crossed' = (crossed \/ Busy # {})
      /\ effect' = effect /\ schema' = schema /\ lostDown' = lostDown
  BY DEF Start
<1>2. /\ \A q \in Migrator : command'[q] = IF q = p THEN c ELSE command[q]
      /\ command' = [q \in Migrator |-> command'[q]]
  BY <1>1 DEF MigrationInv, CommandShape
<1>3. CommandShape'
  BY <1>1, <1>2 DEF MigrationInv, CommandShape
<1>4. ASSUME ~crossed' PROVE ~crossed /\ \A q \in Migrator : command[q].op = "none"
  BY <1>1, <1>4 DEF Busy
<1>5. ~crossed' => Alone'
  BY <1>2, <1>4 DEF Alone
<1>6. ASSUME ~crossed', ~lostDown' PROVE InEffect'
  <2>1. /\ ~crossed /\ ~lostDown /\ \A q \in Migrator : command[q].op = "none"
    BY <1>1, <1>4, <1>6
  <2>2. schema.applied \subseteq effect
    <3>1. InEffect
      BY <2>1 DEF MigrationInv
    <3> QED BY <2>1, <3>1 DEF InEffect
  <2>3. \A q \in Migrator : command'[q].op # "none" => command'[q].state = schema
    BY <1>2, <2>1
  <2> QED BY <1>1, <2>2, <2>3 DEF InEffect
<1> QED BY <1>3, <1>5, <1>6 DEF MigrationInv

(* One step of the loop of `up` or `down`.                                  *)
LEMMA LoopKeeps ==
  ASSUME MigrationInv, NEW p \in Migrator, RunUp(p) \/ RunDown(p)
  PROVE  MigrationInv'
<1> DEFINE v == Head(command[p].todo)
<1>1. /\ command[p].op # "none" /\ schema' = schema /\ crossed' = crossed /\ lostDown' = lostDown
      /\ command' = [q \in Migrator |-> command'[q]]
      /\ \A q \in Migrator : q # p => command'[q] = command[q]
      /\ command'[p].op = command[p].op /\ command'[p].ran = command[p].ran \cup {v}
      /\ DOMAIN command'[p] = {"op", "todo", "state", "ran"}
  <2>1. CASE RunUp(p)
    BY <2>1 DEF RunUp, MigrationInv, CommandShape
  <2>2. CASE RunDown(p)
    BY <2>2 DEF RunDown, MigrationInv, CommandShape
  <2> QED BY <2>1, <2>2
<1>2. \/ /\ command[p].op = "up" /\ effect' = effect \cup {v}
         /\ command'[p].state.applied \subseteq command[p].state.applied \cup {v}
      \/ /\ command[p].op = "down" /\ effect' = effect \ {v}
         /\ command'[p].state.applied = command[p].state.applied \ {v}
  <2>1. CASE RunUp(p)
    <3>1. /\ command[p].op = "up" /\ effect' = effect \cup {v}
          /\ command'[p].state = Record(command[p].state, v)
      BY <2>1 DEF RunUp, MigrationInv, CommandShape
    <3>2. Record(command[p].state, v).applied \subseteq command[p].state.applied \cup {v}
      BY DEF Record
    <3> QED BY <3>1, <3>2
  <2>2. CASE RunDown(p)
    <3>1. /\ command[p].op = "down" /\ effect' = effect \ {v}
          /\ command'[p].state = Unrecord(command[p].state, v)
      BY <2>2 DEF RunDown, MigrationInv, CommandShape
    <3>2. Unrecord(command[p].state, v).applied = command[p].state.applied \ {v}
      BY DEF Unrecord
    <3> QED BY <3>1, <3>2
  <2> QED BY <2>1, <2>2
<1> HIDE DEF v
<1>3. CommandShape'
  BY <1>1 DEF MigrationInv, CommandShape
<1>4. ~crossed' => Alone'
  BY <1>1 DEF MigrationInv, Alone
<1>5. ASSUME ~crossed', ~lostDown' PROVE InEffect'
  <2>1. Alone /\ InEffect
    BY <1>1, <1>5 DEF MigrationInv
  <2>2. \A q \in Migrator : command'[q].op # "none" => q = p
    BY <1>1, <2>1 DEF Alone
  <2>3. command'[p].state.applied \subseteq effect'
    BY <1>1, <1>2, <2>1 DEF InEffect
  <2>4. ASSUME \A q \in Migrator : command'[q].op = "down" => command'[q].ran = {}
        PROVE  schema.applied \subseteq effect'
    <3>1. command[p].op = "up" /\ effect \subseteq effect'
      BY <1>1, <1>2, <2>4
    <3>2. \A q \in Migrator : command[q].op # "down"
      BY <1>1, <2>1, <3>1 DEF Alone
    <3> QED BY <2>1, <3>1, <3>2 DEF InEffect
  <2> QED BY <1>1, <2>2, <2>3, <2>4 DEF InEffect
<1> QED BY <1>3, <1>4, <1>5 DEF MigrationInv

(* A command that ends, with its save or without.                           *)
LEMMA EndKeeps ==
  ASSUME MigrationInv, NEW p \in Migrator, SaveSchema(p) \/ BreakOff(p)
  PROVE  MigrationInv'
<1>1. /\ command[p].op # "none" /\ effect' = effect /\ crossed' = crossed
      /\ \A q \in Migrator : command'[q] = IF q = p THEN NoCommand ELSE command[q]
      /\ command' = [q \in Migrator |-> command'[q]]
      /\ schema' = schema \/ schema' = command[p].state
  BY DEF SaveSchema, BreakOff, MigrationInv, CommandShape
<1>2. CommandShape'
  BY <1>1 DEF MigrationInv, CommandShape, NoCommand
<1>3. ~crossed' => Alone'
  BY <1>1 DEF MigrationInv, Alone, NoCommand
<1>4. ASSUME ~crossed', ~lostDown' PROVE InEffect'
  <2>1. ~lostDown
    BY <1>4 DEF SaveSchema, BreakOff
  <2>2. Alone /\ InEffect
    BY <1>1, <1>4, <2>1 DEF MigrationInv
  <2>3. \A q \in Migrator : command'[q].op = "none"
    BY <1>1, <2>2 DEF Alone, NoCommand
  <2>4. schema'.applied \subseteq effect
    <3>1. CASE SaveSchema(p)
      BY <1>1, <2>2, <3>1 DEF SaveSchema, InEffect
    <3>2. CASE BreakOff(p)
      <4>1. command[p].op = "down" => command[p].ran = {}
        BY <1>4, <3>2 DEF BreakOff
      <4>2. \A q \in Migrator : command[q].op = "down" => command[q].ran = {}
        BY <1>1, <2>2, <4>1 DEF Alone
      <4> QED BY <2>2, <3>2, <4>2 DEF BreakOff, InEffect
    <3> QED BY <3>1, <3>2
  <2> QED BY <1>1, <2>3, <2>4 DEF InEffect
<1> QED BY <1>2, <1>3, <1>4 DEF MigrationInv

(* Every step keeps it.                                                     *)
LEMMA MigrationStep == MigrationInv /\ [MigrationNext]_migrationVars => MigrationInv'
<1> SUFFICES ASSUME MigrationInv, [MigrationNext]_migrationVars PROVE MigrationInv'
  OBVIOUS
<1>1. CASE UNCHANGED migrationVars
  BY <1>1 DEF migrationVars, MigrationInv, CommandShape, Alone, InEffect
<1>2. ASSUME NEW v \in Version, ModuleChanges(v) PROVE MigrationInv'
  BY <1>2 DEF ModuleChanges, MigrationInv, CommandShape, Alone, InEffect
<1>3. ASSUME NEW p \in Migrator, NEW upTo, MigrateUp(p, upTo) PROVE MigrationInv'
  BY <1>3, StartKeeps DEF MigrateUp
<1>4. ASSUME NEW p \in Migrator, NEW steps, NEW upTo, MigrateDown(p, steps, upTo) PROVE MigrationInv'
  BY <1>4, StartKeeps DEF MigrateDown
<1> QED BY <1>1, <1>2, <1>3, <1>4, LoopKeeps, EndKeeps DEF MigrationNext

(* What is recorded and what is applied differ by the migration at work, at most.*)
THEOREM MigrationInvariant == MigrationSpec => []MigrationInv
  BY MigrationInitOK, MigrationStep, PTL DEF MigrationSpec

(* Between commands schema.json names only migrations in effect, whatever      *)
(* migrations fail, whichever command is killed and whatever modules import:  *)
(* unless a `down` broke off half way or two commands overlapped.             *)
THEOREM RecordedAreInEffect == MigrationSpec => []RecordedInEffect
<1>1. ASSUME MigrationInv PROVE RecordedInEffect
  <2> SUFFICES ASSUME ~lostDown, ~crossed, Busy = {} PROVE schema.applied \subseteq effect
    BY DEF RecordedInEffect
  <2>1. \A p \in Migrator : command[p].op = "none"
    BY DEF Busy
  <2> QED BY <1>1, <2>1 DEF MigrationInv, InEffect
<1> QED BY <1>1, MigrationInvariant, PTL

-----------------------------------------------------------------------------
(***************************************************************************)
(* ModelStore                                                               *)
(***************************************************************************)

FetchFields == {"kind", "at", "pin", "url", "need", "fd", "tries"}

StoreShape ==
  /\ DOMAIN fetch = Fetcher
  /\ \A p \in Fetcher : DOMAIN fetch[p] = FetchFields

(* One command at a time, as long as none was begun beside another.          *)
OneFetch ==
  ~overlapped => \A p, q \in Fetcher : fetch[p].at # "idle" /\ fetch[q].at # "idle" => p = q

(* What was hashed is what is renamed, and what was renamed is in place.      *)
HashedHeld ==
  ~overlapped => \A p \in Fetcher :
    /\ fetch[p].at = "activate" => partial = BytesOf(fetch[p].pin)
    /\ fetch[p].at = "mark" => target = BytesOf(fetch[p].pin)

StoreInv == StoreShape /\ OneFetch /\ HashedHeld

-----------------------------------------------------------------------------
(* Renaming a file touches no field of a command but its descriptor.          *)
LEMMA RenamedKeeps ==
  ASSUME NEW from, NEW to, StoreShape
  PROVE  /\ DOMAIN Renamed(fetch, from, to) = Fetcher
         /\ \A p \in Fetcher :
              /\ DOMAIN Renamed(fetch, from, to)[p] = FetchFields
              /\ Renamed(fetch, from, to)[p].at = fetch[p].at
              /\ Renamed(fetch, from, to)[p].pin = fetch[p].pin
  BY DEF Renamed, StoreShape, FetchFields

(* The invariant holds before the first download.                           *)
LEMMA StoreInitOK == StoreInit => StoreInv
  BY DEF StoreInit, StoreInv, StoreShape, OneFetch, HashedHeld, NoFetch, FetchFields

(* A step of a command leaves the step and pin of every other.                *)
OthersStay(p) ==
  /\ UNCHANGED overlapped
  /\ DOMAIN fetch' = Fetcher
  /\ \A q \in Fetcher :
       /\ DOMAIN fetch'[q] = FetchFields
       /\ q # p => fetch'[q].at = fetch[q].at /\ fetch'[q].pin = fetch[q].pin

(* Such a step keeps the invariant if what the command itself relies on holds. *)
LEMMA OneAtATime ==
  ASSUME StoreInv, NEW p \in Fetcher, fetch[p].at # "idle", OthersStay(p),
         ~overlapped => /\ fetch'[p].at = "activate" => partial' = BytesOf(fetch'[p].pin)
                        /\ fetch'[p].at = "mark" => target' = BytesOf(fetch'[p].pin)
  PROVE  StoreInv'
<1>1. StoreShape'
  BY DEF OthersStay, StoreShape
<1>2. OneFetch'
  BY DEF OthersStay, StoreInv, OneFetch
<1>3. HashedHeld'
  <2> SUFFICES ASSUME ~overlapped, NEW q \in Fetcher
               PROVE  /\ fetch'[q].at = "activate" => partial' = BytesOf(fetch'[q].pin)
                      /\ fetch'[q].at = "mark" => target' = BytesOf(fetch'[q].pin)
    BY DEF OthersStay, HashedHeld, BytesOf
  <2>1. q # p => fetch'[q].at = "idle"
    BY DEF OthersStay, StoreInv, OneFetch
  <2> QED BY <2>1
<1> QED BY <1>1, <1>2, <1>3 DEF StoreInv

(* Only the two verifications lead to a rename, and only the rename to a mark. *)
LEMMA CommandStep ==
  ASSUME StoreInv, NEW p \in Fetcher,
         \/ Relocate(p) \/ VerifyInPlace(p) \/ NothingFound(p)
         \/ RefusedOffline(p) \/ StagePartial(p) \/ OutOfSpace(p) \/ OpenPartial(p)
         \/ ReceiveChunk(p) \/ BodyEnds(p) \/ RetryShort(p)
         \/ VerifyPartial(p) \/ ActivateVerified(p) \/ WriteVerifyMarker(p)
         \/ DropPartial(p) \/ ActivatePull(p) \/ FloorCheck(p) \/ BreakFetch(p)
  PROVE  StoreInv'
<1> USE DEF StoreInv, StoreShape, FetchFields, NoFetch
<1> DEFINE HashStays ==
      ~overlapped => /\ fetch'[p].at = "activate" => partial' = BytesOf(fetch'[p].pin)
                     /\ fetch'[p].at = "mark" => target' = BytesOf(fetch'[p].pin)
<1>0. fetch[p].at # "idle"
  BY DEF Relocate, VerifyInPlace, NothingFound, RefusedOffline, StagePartial, OutOfSpace,
         OpenPartial, ReceiveChunk, BodyEnds, RetryShort, VerifyPartial, ActivateVerified,
         WriteVerifyMarker, DropPartial, ActivatePull, FloorCheck, BreakFetch
<1>1. CASE Relocate(p)
  <2>1. OthersStay(p) /\ HashStays
    BY <1>1, RenamedKeeps DEF Relocate, OthersStay
  <2> QED BY <1>0, <2>1, OneAtATime
<1>2. CASE VerifyInPlace(p) \/ NothingFound(p) \/ RefusedOffline(p) \/ OutOfSpace(p)
           \/ OpenPartial(p) \/ ReceiveChunk(p) \/ BodyEnds(p) \/ BreakFetch(p)
           \/ WriteVerifyMarker(p)
  <2>1. OthersStay(p) /\ HashStays
    BY <1>2 DEF VerifyInPlace, NothingFound, RefusedOffline, OutOfSpace, OpenPartial,
                ReceiveChunk, BodyEnds, BreakFetch, WriteVerifyMarker, OthersStay, Ends
  <2> QED BY <1>0, <2>1, OneAtATime
<1>3. CASE StagePartial(p)
  <2>1. OthersStay(p) /\ HashStays
    BY <1>3, RenamedKeeps DEF StagePartial, OthersStay
  <2> QED BY <1>0, <2>1, OneAtATime
<1>4. CASE RetryShort(p) \/ DropPartial(p) \/ FloorCheck(p)
  <2>1. OthersStay(p) /\ HashStays
    BY <1>4, RenamedKeeps DEF RetryShort, DropPartial, FloorCheck, OthersStay, Ends
  <2> QED BY <1>0, <2>1, OneAtATime
<1>5. CASE VerifyPartial(p)
  <2>1. OthersStay(p) /\ HashStays
    BY <1>5, RenamedKeeps DEF VerifyPartial, ShaMatches, OthersStay
  <2> QED BY <1>0, <2>1, OneAtATime
<1>6. CASE ActivateVerified(p)
  <2>1. OthersStay(p) /\ HashStays
    BY <1>6, RenamedKeeps DEF ActivateVerified, Activate, HashedHeld, OthersStay, Ends
  <2> QED BY <1>0, <2>1, OneAtATime
<1>7. CASE ActivatePull(p)
  <2>1. OthersStay(p) /\ HashStays
    BY <1>7, RenamedKeeps DEF ActivatePull, Activate, OthersStay, Ends
  <2> QED BY <1>0, <2>1, OneAtATime
<1> QED BY <1>1, <1>2, <1>3, <1>4, <1>5, <1>6, <1>7

(* Every step keeps it.                                                     *)
LEMMA StoreStep == StoreInv /\ [StoreNext]_storeVars => StoreInv'
<1> SUFFICES ASSUME StoreInv, [StoreNext]_storeVars PROVE StoreInv'
  OBVIOUS
<1>1. CASE UNCHANGED storeVars
  BY <1>1 DEF storeVars, StoreInv, StoreShape, OneFetch, HashedHeld, BytesOf
<1>2. ASSUME NEW p \in Fetcher, NEW kind, NEW url, NEW at \in {"detect", "drop", "staged"},
             Begin(p, kind, url, at), UNCHANGED <<target, partial>>
      PROVE  StoreInv'
  BY <1>2 DEF Begin, StoreInv, StoreShape, OneFetch, HashedHeld, BytesOf, NoFetch, FetchFields
<1>3. ASSUME NEW p \in Fetcher, NEW force \in BOOLEAN,
             BeginInstall(p) \/ BeginPull(p, force) \/ BeginDownload(p, force)
      PROVE  StoreInv'
  BY <1>2, <1>3 DEF BeginInstall, BeginPull, BeginDownload
<1>4. CASE RemoveModel
  <2>1. \A q \in Fetcher : fetch'[q].at = fetch[q].at
    BY <1>4, RenamedKeeps DEF RemoveModel, StoreInv
  <2>3. overlapped' \/ \A q \in Fetcher : fetch'[q].at = "idle"
    BY <1>4, <2>1 DEF RemoveModel
  <2>2. StoreShape'
    BY <1>4, RenamedKeeps DEF RemoveModel, StoreInv, StoreShape
  <2> QED BY <2>2, <2>3 DEF StoreInv, OneFetch, HashedHeld
<1>5. CASE Publish \/ Repin
  BY <1>5 DEF Publish, Repin, StoreInv, StoreShape, OneFetch, HashedHeld, BytesOf
<1> QED BY <1>1, <1>3, <1>4, <1>5, CommandStep DEF StoreNext

(* A model the installer downloads is the pinned one, byte for byte, also      *)
(* when it resumed what an older pin or a pull had left in the partial.       *)
THEOREM DownloadIsVerified == StoreSpec => []DownloadVerified
<1>1. StoreInv => DownloadVerified
  BY DEF StoreInv, HashedHeld, DownloadVerified
<1> QED BY <1>1, StoreInitOK, StoreStep, PTL DEF StoreSpec

-----------------------------------------------------------------------------
(***************************************************************************)
(* ModelCatalog                                                             *)
(***************************************************************************)

Sizes == {"absent", "whole", "near", "short"}

CatalogShape ==
  /\ stored \in [CatalogFile -> Sizes]
  /\ settled \in BOOLEAN

(* With no accident and no body cut short a file is whole, if it is there, and *)
(* what was downloaded is what its name still resolves to.                   *)
FilesWhole == settled => \A f \in CatalogFile : stored[f] \in {"absent", "whole"}

GotResolves ==
  settled => \A kind \in got :
    catalog # NoModel /\ Resolve(kind) \in CatalogFile /\ stored[Resolve(kind)] = "whole"

CatalogInv == CatalogShape /\ FilesWhole /\ GotResolves /\ DownloadedVerifies

-----------------------------------------------------------------------------
(* The file of a kind depends on nothing but the memory and the catalog.      *)
LEMMA ResolvesAlike ==
  ASSUME UNCHANGED <<ram, catalog>>, NEW kind
  PROVE  Resolve(kind)' = Resolve(kind)
  BY DEF Resolve, ResolveLlm, DetectTier, Prefer, Entry

(* No command has answered yet.                                             *)
LEMMA CatalogInitOK == CatalogInit => CatalogInv
  BY DEF CatalogInit, CatalogInv, CatalogShape, Sizes, FilesWhole, GotResolves, DownloadedVerifies

(* A command that is no verification and downloads nothing.                  *)
LEMMA CatalogAnswers ==
  ASSUME CatalogInv, UNCHANGED <<ram, catalog, stored, got, settled>>, answer'.what # "verify"
  PROVE  CatalogInv'
  BY ResolvesAlike DEF CatalogInv, CatalogShape, FilesWhole, GotResolves, DownloadedVerifies

(* verify answers 0 only for files it found whole.                          *)
LEMMA VerifyFinds ==
  ASSUME CatalogInv, VerifyModels
  PROVE  CatalogInv'
<1>1. /\ UNCHANGED <<ram, catalog, stored, got, settled>>
  BY DEF VerifyModels, VerifyOf, ModelCommand
<1>2. ASSUME got = Kinds, settled PROVE answer'.code = "0"
  <2>1. catalog # NoModel /\ \A kind \in Kinds : Finds(Resolve(kind))
    BY <1>2 DEF CatalogInv, GotResolves, Finds, Kinds
  <2>2. answer' = [what |-> "verify",
                   code |-> IF catalog # NoModel /\ \A f \in {Resolve(kind) : kind \in Kinds} : Finds(f)
                            THEN "0" ELSE "1",
                   file |-> NoModel]
    BY <2>1 DEF VerifyModels, VerifyOf, Answers
  <2> QED BY <2>1, <2>2
<1> QED BY <1>1, <1>2, ResolvesAlike
        DEF CatalogInv, CatalogShape, FilesWhole, GotResolves, DownloadedVerifies

(* A download stores the file the catalog resolves to.                      *)
LEMMA DownloadResolves ==
  ASSUME CatalogInv, NEW kind, DownloadKind(kind)
  PROVE  CatalogInv'
<1> DEFINE f == Resolve(kind)
<1>1. catalog # NoModel /\ f \in CatalogFile /\ UNCHANGED <<ram, catalog>>
  BY DEF DownloadKind, ModelCommand
<1>2. answer'.what = "download"
  BY DEF DownloadKind, Answers
<1>3. /\ stored' \in [CatalogFile -> Sizes] /\ settled' \in BOOLEAN
      /\ settled' => settled
      /\ settled' => \A g \in CatalogFile : stored'[g] \in {stored[g], "whole"}
      /\ settled' /\ got' # got => got' = got \cup {kind} /\ stored'[f] # "absent"
  <2>1. CASE stored[f] # "absent" /\ got' = got \cup {kind} /\ UNCHANGED <<stored, settled>>
    BY <2>1 DEF CatalogInv, CatalogShape
  <2>2. CASE stored' = [stored EXCEPT ![f] = "whole"] /\ got' = got \cup {kind} /\ UNCHANGED settled
    BY <1>1, <2>2 DEF CatalogInv, CatalogShape, Sizes
  <2>3. ASSUME NEW size \in {"near", "short"}, stored' = [stored EXCEPT ![f] = size], settled' = FALSE
        PROVE  stored' \in [CatalogFile -> Sizes] /\ settled' = FALSE
    BY <2>3 DEF CatalogInv, CatalogShape, Sizes
  <2>4. CASE UNCHANGED <<stored, got, settled>>
    BY <2>4 DEF CatalogInv, CatalogShape
  <2> QED BY <2>1, <2>2, <2>3, <2>4 DEF DownloadKind
<1>4. FilesWhole'
  BY <1>3 DEF CatalogInv, FilesWhole
<1>5. GotResolves'
  <2> SUFFICES ASSUME settled', NEW k \in got'
               PROVE  catalog' # NoModel /\ Resolve(k)' \in CatalogFile /\ stored'[Resolve(k)'] = "whole"
    BY DEF GotResolves
  <2>1. Resolve(k)' = Resolve(k)
    BY <1>1, ResolvesAlike
  <2>2. CASE k \in got
    BY <1>1, <1>3, <2>1, <2>2 DEF CatalogInv, GotResolves
  <2>3. CASE k \notin got
    <3>1. k = kind /\ stored'[f] # "absent"
      BY <1>3, <2>3
    <3> QED BY <1>1, <1>4, <2>1, <3>1 DEF FilesWhole
  <2> QED BY <2>2, <2>3
<1> QED BY <1>2, <1>3, <1>4, <1>5 DEF CatalogInv, CatalogShape, DownloadedVerifies

(* Every step keeps the invariant.                                          *)
LEMMA CatalogStep == CatalogInv /\ [CatalogNext]_catalogVars => CatalogInv'
<1> SUFFICES ASSUME CatalogInv, [CatalogNext]_catalogVars PROVE CatalogInv'
  OBVIOUS
<1>1. CASE UNCHANGED catalogVars
  <2>1. UNCHANGED <<ram, catalog, stored, answer, got, settled>>
    BY <1>1 DEF catalogVars
  <2> QED BY <2>1, ResolvesAlike
          DEF CatalogInv, CatalogShape, FilesWhole, GotResolves, DownloadedVerifies
<1>2. ASSUME NEW kind \in Kinds \cup {"vlm"}, NEW what \in {"download", "path"},
             Crashes(what, kind) \/ NothingToDo(what, kind)
      PROVE  CatalogInv'
  BY <1>2, CatalogAnswers DEF Crashes, NothingToDo, ModelCommand, Answers
<1>3. ASSUME NEW kind \in Kinds \cup {"vlm"}, SkipDownload(kind) \/ PathOf(kind) PROVE CatalogInv'
  BY <1>3, CatalogAnswers DEF SkipDownload, PathOf, ModelCommand, Answers
<1>4. ASSUME stored' \in [CatalogFile -> Sizes], settled' = FALSE PROVE CatalogInv'
  BY <1>4 DEF CatalogInv, CatalogShape, FilesWhole, GotResolves, DownloadedVerifies
<1>5. CASE ChangeRam \/ NewCatalog
  BY <1>4, <1>5 DEF ChangeRam, NewCatalog, Accident, CatalogInv, CatalogShape
<1>6. ASSUME NEW f \in CatalogFile, Damage(f) PROVE CatalogInv'
  BY <1>4, <1>6 DEF Damage, Accident, CatalogInv, CatalogShape, Sizes
<1> QED BY <1>1, <1>2, <1>3, <1>5, <1>6, VerifyFinds, DownloadResolves DEF CatalogNext

(* What `models download` fetched for the language model, the embedding and    *)
(* the reranker is what `models verify` looks at, on any memory and with any   *)
(* catalog: with no accident since and no body cut short it finds all three.  *)
THEOREM DownloadsVerify == CatalogSpec => []DownloadedVerifies
<1>1. CatalogInv => DownloadedVerifies
  BY DEF CatalogInv
<1> QED BY <1>1, CatalogInitOK, CatalogStep, PTL DEF CatalogSpec

-----------------------------------------------------------------------------
(***************************************************************************)
(* GarbageCollection                                                        *)
(***************************************************************************)

GcShape == DOMAIN gc = {"at", "dry", "aggressive", "withModels", "left"}

(* A run unlinks nothing but what no source names: it scans all of them or     *)
(* gives up, and what one of them names does not depend on whether it parses.  *)
LeftUnnamed == \A m \in gc.left : \A s \in WeightSource : m \notin Named[s]

GcInv == GcShape /\ LeftUnnamed

-----------------------------------------------------------------------------
(* Nothing is listed and nothing removed yet.                               *)
LEMMA GcInitOK == GcInit => GcInv
  BY DEF GcInit, GcIdle, GcInv, GcShape, LeftUnnamed

(* What a scan leaves to unlink is a file that no weight source names.*)
LEMMA ScanLeaves ==
  ASSUME GcInv, GcModels
  PROVE  GcInv'
<1>1. CASE CanScan
  <2>1. UsedModels = UNION {Named[s] : s \in WeightSource}
    BY <1>1 DEF CanScan, UsedModels
  <2>2. /\ gc' = [gc EXCEPT !.at = IF gc.dry THEN "done" ELSE "unlink",
                            !.left = IF gc.dry THEN {} ELSE models \ UsedModels]
    BY <1>1 DEF GcModels
  <2>3. gc'.left \subseteq models \ UsedModels /\ GcShape'
    BY <2>2 DEF GcInv, GcShape
  <2> QED BY <2>1, <2>3 DEF GcInv, LeftUnnamed
<1>2. CASE ~CanScan
  <2>1. gc' = [gc EXCEPT !.at = "done"]
    BY <1>2 DEF GcModels
  <2> QED BY <2>1 DEF GcInv, GcShape, LeftUnnamed
<1> QED BY <1>1, <1>2

(* Every step keeps the invariant.                                          *)
LEMMA GcStep == GcInv /\ [GcNext]_gcVars => GcInv'
<1> SUFFICES ASSUME GcInv, [GcNext]_gcVars PROVE GcInv'
  OBVIOUS
<1>1. CASE UNCHANGED gcVars
  BY <1>1 DEF gcVars, GcInv, GcShape, LeftUnnamed
<1>2. ASSUME NEW d \in BOOLEAN, NEW a \in BOOLEAN, NEW w \in BOOLEAN, BeginGc(d, a, w) PROVE GcInv'
  BY <1>2 DEF BeginGc, GcIdle, GcInv, GcShape, LeftUnnamed
<1>3. CASE DockerFails \/ GcContainers \/ GcImages \/ GcVolumes \/ GcNetworks \/ EndGc
  <2>1. PICK place : gc' = [gc EXCEPT !.at = place]
    BY <1>3 DEF DockerFails, GcContainers, GcImages, GcVolumes, GcNetworks, EndGc
  <2> QED BY <2>1 DEF GcInv, GcShape, LeftUnnamed
<1>4. CASE GcModels
  BY <1>4, ScanLeaves
<1>5. ASSUME NEW m \in WeightFile, UnlinkModel(m) PROVE GcInv'
  BY <1>5 DEF UnlinkModel, GcInv, GcShape, LeftUnnamed
<1>6. CASE UNCHANGED gc
  BY <1>6 DEF GcInv, GcShape, LeftUnnamed
<1>7. ASSUME NEW m \in WeightFile, AddModel(m) PROVE UNCHANGED gc
  BY <1>7 DEF AddModel, HostChanges
<1>8. ASSUME NEW c \in DockerContainer, StartService(c) \/ StopContainer(c) PROVE UNCHANGED gc
  BY <1>8 DEF StartService, StopContainer, HostChanges
<1>9. ASSUME NEW i \in DockerImage, AgeImage(i) PROVE UNCHANGED gc
  BY <1>9 DEF AgeImage, HostChanges
<1>10. ASSUME NEW s \in WeightSource, EditSource(s) PROVE UNCHANGED gc
  BY <1>10 DEF EditSource, HostChanges
<1>11. CASE DockerComesOrGoes
  BY <1>6, <1>11 DEF DockerComesOrGoes, HostChanges
<1> QED BY <1>1, <1>2, <1>3, <1>4, <1>5, <1>6, <1>7, <1>8, <1>9, <1>10, <1>11 DEF GcNext

(* Only UnlinkModel takes a model file away.                                *)
LEMMA OnlyUnlinks ==
  ASSUME GcInv, [GcNext]_gcVars, NEW m \in models \ models'
  PROVE  m \in gc.left
<1>1. ASSUME NEW n \in WeightFile, UnlinkModel(n) PROVE m \in gc.left
  BY <1>1 DEF UnlinkModel
<1>2. ASSUME NEW n \in WeightFile, AddModel(n) PROVE FALSE
  BY <1>2 DEF AddModel
<1>3. ASSUME NEW d \in BOOLEAN, NEW a \in BOOLEAN, NEW w \in BOOLEAN, BeginGc(d, a, w) PROVE FALSE
  BY <1>3 DEF BeginGc, hostObjects
<1>4. CASE models' = models
  BY <1>4
<1>5. ASSUME DockerFails \/ GcContainers \/ GcImages \/ GcVolumes \/ GcNetworks \/ GcModels \/ EndGc
             \/ DockerComesOrGoes \/ UNCHANGED gcVars
      PROVE  models' = models
  BY <1>5 DEF DockerFails, GcContainers, GcImages, GcVolumes, GcNetworks, GcModels, EndGc,
              DockerComesOrGoes, hostObjects, gcVars
<1>6. ASSUME NEW c \in DockerContainer, StartService(c) \/ StopContainer(c) PROVE models' = models
  BY <1>6 DEF StartService, StopContainer
<1>7. ASSUME NEW i \in DockerImage, AgeImage(i) PROVE models' = models
  BY <1>7 DEF AgeImage
<1>8. ASSUME NEW s \in WeightSource, EditSource(s) PROVE models' = models
  BY <1>8 DEF EditSource
<1> QED BY <1>1, <1>2, <1>3, <1>4, <1>5, <1>6, <1>7, <1>8 DEF GcNext

(* No run unlinks a model file that a descriptor or the catalog names, however  *)
(* sources break or mend while it runs.                                     *)
THEOREM NamedModelsAreKept == GcSpec => NamedModelsKept
<1>1. GcInv /\ [GcNext]_gcVars
        => [\A m \in models \ models' : \A s \in WeightSource : m \notin Named[s]]_gcVars
  BY OnlyUnlinks DEF GcInv, LeftUnnamed
<1> QED BY <1>1, GcInitOK, GcStep, PTL DEF GcSpec, NamedModelsKept

-----------------------------------------------------------------------------
(* What a preview of the same mode has listed.                              *)

VolumesOf(removed) == UNION {VolumesOfContainer[c] : c \in removed}

(* A preview is past these targets, or the run is no preview.                *)
Past(targets) == gc.dry => gc.at \notin targets

ReportShape ==
  /\ GcShape /\ DOMAIN shown = DOMAIN NoThings /\ DOMAIN gone = DOMAIN NoThings
  /\ gc.dry => gc.at # "unlink"
  /\ gc.at = "containers" => gone = NoThings
  /\ gc.at = "models" => gc.withModels
  /\ old \subseteq DockerImage

(* What a run of this mode can still take is listed, but for what only         *)
(* containers held that it has itself removed.                               *)
ImagesListed ==
  quiet /\ dockerUp /\ Past({"containers", "images"}) => ListedImages \subseteq shown.images

VolumesListed ==
  quiet /\ dockerUp /\ Past({"containers", "images", "volumes"}) =>
    \A v \in PrunedVolumes \ shown.volumes :
      gc.at \in {"images", "volumes"} /\ v \in VolumesOf(gone.containers)

ModelsListed ==
  quiet =>
    /\ gc.withModels /\ broken = {} /\ (gc.dry => gc.at \in {"done", "idle"}) =>
         models \ UsedModels \subseteq shown.models
    /\ gc.at = "unlink" => gc.left \subseteq shown.models

ListedInv == ReportShape /\ ImagesListed /\ VolumesListed /\ ModelsListed /\ RemovedWasListed

(* A run begins with an empty list.                                         *)
LEMMA ListedInit == GcInit => ListedInv
  BY DEF GcInit, GcIdle, GcShape, NoThings, ListedInv, ReportShape, ImagesListed, VolumesListed,
         ModelsListed, RemovedWasListed

(* A run begins on what the dry run before it, or the run before it, left.     *)
LEMMA BeginGcListed ==
  ASSUME ListedInv, NEW d \in BOOLEAN, NEW a \in BOOLEAN, NEW w \in BOOLEAN, BeginGc(d, a, w)
  PROVE  ListedInv'
<1> DEFINE begun == [GcIdle EXCEPT !.at = "containers", !.dry = d, !.aggressive = a,
                                   !.withModels = w]
<1>1. /\ gc.at = "idle" /\ gc' = begun /\ gone' = NoThings /\ UNCHANGED hostObjects
      /\ IF d THEN shown' = NoThings
         ELSE UNCHANGED shown /\ quiet' = (quiet /\ gc.aggressive = a /\ (w => gc.withModels))
  BY DEF BeginGc
<1>2. /\ DOMAIN gc' = DOMAIN GcIdle /\ gc'.at = "containers" /\ gc'.dry = d
      /\ gc'.aggressive = a /\ gc'.withModels = w
  BY <1>1 DEF GcIdle
<1>3. /\ tag' = tag /\ old' = old /\ volumes' = volumes /\ models' = models /\ broken' = broken
      /\ status' = status /\ dockerUp' = dockerUp
  BY <1>1 DEF hostObjects
<1>4. ReportShape' /\ RemovedWasListed'
  <2>1. ReportShape'
    BY <1>1, <1>2, <1>3 DEF ListedInv, ReportShape, GcShape, GcIdle, NoThings
  <2>2. RemovedWasListed'
    BY <1>1 DEF RemovedWasListed, NoThings
  <2> QED BY <2>1, <2>2
<1>5. CASE d
  BY <1>2, <1>4, <1>5 DEF ListedInv, ImagesListed, VolumesListed, ModelsListed, Past
<1>6. CASE ~d
  <2> SUFFICES ASSUME quiet' PROVE ImagesListed' /\ VolumesListed' /\ ModelsListed'
    BY <1>4 DEF ListedInv, ImagesListed, VolumesListed, ModelsListed
  <2>1. quiet /\ gc.aggressive = a /\ (w => gc.withModels) /\ shown' = shown
    BY <1>1, <1>6
  <2>2. ListedImages' = ListedImages /\ PrunedVolumes' = PrunedVolumes
    BY <1>2, <1>3, <2>1 DEF ListedImages, PrunedVolumes, UsedVolumes, Held
  <2>3. UsedModels' = UsedModels
    BY <1>3 DEF UsedModels
  <2>4. ImagesListed' /\ VolumesListed'
    BY <1>1, <1>2, <1>3, <2>1, <2>2 DEF ListedInv, ImagesListed, VolumesListed, Past
  <2>5. ModelsListed'
    BY <1>1, <1>2, <1>3, <1>6, <2>1, <2>3 DEF ListedInv, ModelsListed
  <2> QED BY <2>4, <2>5
<1> QED BY <1>5, <1>6

(* Without a daemon the docker targets remove nothing, now and later.         *)
LEMMA DockerFailsListed ==
  ASSUME ListedInv, DockerFails
  PROVE  ListedInv'
<1>1. /\ gc' = [gc EXCEPT !.at = After(gc.at)] /\ ~dockerUp /\ UNCHANGED hostObjects
      /\ shown' = shown /\ gone' = gone /\ quiet' = quiet
      /\ gc.at \in {"containers", "images", "volumes", "networks"}
  BY DEF DockerFails, counters
<1>2. /\ ~dockerUp' /\ UsedModels' = UsedModels /\ models' = models /\ broken' = broken
      /\ old' = old
  BY <1>1 DEF hostObjects, UsedModels
<1>3. /\ After(gc.at) # "unlink" /\ After(gc.at) # "idle" /\ After(gc.at) # "containers"
      /\ After(gc.at) = "done" => ~gc.withModels
      /\ After(gc.at) = "models" => gc.withModels
  BY <1>1 DEF After
<1>4. /\ DOMAIN gc' = DOMAIN gc /\ gc'.at = After(gc.at) /\ gc'.dry = gc.dry
      /\ gc'.withModels = gc.withModels
  BY <1>1 DEF ListedInv, ReportShape, GcShape
<1>5. ReportShape' /\ RemovedWasListed' /\ ImagesListed' /\ VolumesListed'
  BY <1>1, <1>2, <1>3, <1>4 DEF ListedInv, ReportShape, GcShape, RemovedWasListed, ImagesListed,
                              VolumesListed
<1>6. ModelsListed'
  BY <1>1, <1>2, <1>3, <1>4 DEF ListedInv, ModelsListed
<1> QED BY <1>5, <1>6 DEF ListedInv

(* A container that prune takes frees its volumes.                          *)
LEMMA GcContainersListed ==
  ASSUME ListedInv, GcContainers
  PROVE  ListedInv'
<1>1. /\ gc' = [gc EXCEPT !.at = "images"] /\ gc.at = "containers" /\ quiet' = quiet
      /\ tag' = tag /\ old' = old /\ volumes' = volumes /\ models' = models /\ broken' = broken
      /\ dockerUp' = dockerUp
  BY DEF GcContainers, counters
<1>2. /\ DOMAIN gc' = DOMAIN gc /\ gc'.at = "images" /\ gc'.dry = gc.dry
      /\ gc'.aggressive = gc.aggressive /\ gc'.withModels = gc.withModels
  BY <1>1 DEF ListedInv, ReportShape, GcShape
<1>3. /\ DOMAIN shown' = DOMAIN NoThings /\ DOMAIN gone' = DOMAIN NoThings
      /\ shown'.images = shown.images /\ shown'.volumes = shown.volumes
      /\ shown'.models = shown.models /\ gone'.images = gone.images
      /\ gone'.volumes = gone.volumes /\ gone'.models = gone.models
      /\ gc.dry => status' = status
      /\ ~gc.dry => gone'.containers = PrunedContainers
  BY DEF GcContainers, Reported, ListedInv, ReportShape, NoThings
<1>4. ReportShape' /\ ImagesListed'
  BY <1>1, <1>2, <1>3 DEF ListedInv, ReportShape, GcShape, ImagesListed, ListedImages, Past
<1>5. VolumesListed'
  <2> SUFFICES ASSUME quiet, dockerUp, ~gc.dry, NEW v \in PrunedVolumes', v \notin shown.volumes
               PROVE  v \in VolumesOf(PrunedContainers)
    BY <1>1, <1>2, <1>3 DEF VolumesListed, Past, VolumesOf
  <2>1. v \notin PrunedVolumes
    BY <1>1 DEF ListedInv, VolumesListed, Past
  <2>2. v \in UsedVolumes /\ v \notin UsedVolumes'
    BY <1>1, <1>2, <2>1 DEF PrunedVolumes
  <2>3. PICK c \in DockerContainer : status[c] # "absent" /\ v \in VolumesOfContainer[c]
    BY <2>2 DEF UsedVolumes, Held
  <2>4. status'[c] = "absent"
    BY <2>2, <2>3 DEF UsedVolumes, Held
  <2>5. status'[c] = IF c \in PrunedContainers THEN "absent" ELSE status[c]
    BY DEF GcContainers
  <2> QED BY <2>3, <2>4, <2>5 DEF VolumesOf
<1>6. ModelsListed'
  BY <1>1, <1>2, <1>3 DEF ListedInv, ModelsListed, UsedModels
<1>7. RemovedWasListed'
  <2>1. gone.volumes = {}
    BY <1>1 DEF ListedInv, ReportShape, NoThings
  <2> QED BY <1>1, <1>2, <1>3, <2>1 DEF ListedInv, RemovedWasListed
<1> QED BY <1>4, <1>5, <1>6, <1>7 DEF ListedInv

(* The images a run removes are the ones a dry run lists.                   *)
LEMMA GcImagesListed ==
  ASSUME ListedInv, GcImages
  PROVE  ListedInv'
<1>1. /\ gc' = [gc EXCEPT !.at = "volumes"] /\ gc.at = "images" /\ quiet' = quiet /\ dockerUp
      /\ status' = status /\ old' = old /\ volumes' = volumes /\ models' = models
      /\ broken' = broken /\ dockerUp' = dockerUp
  BY DEF GcImages, counters
<1>2. /\ DOMAIN gc' = DOMAIN gc /\ gc'.at = "volumes" /\ gc'.dry = gc.dry
      /\ gc'.aggressive = gc.aggressive /\ gc'.withModels = gc.withModels
  BY <1>1 DEF ListedInv, ReportShape, GcShape
<1>3. /\ DOMAIN shown' = DOMAIN NoThings /\ DOMAIN gone' = DOMAIN NoThings
      /\ shown'.volumes = shown.volumes /\ shown'.models = shown.models
      /\ gone'.volumes = gone.volumes /\ gone'.models = gone.models
      /\ gone'.containers = gone.containers
      /\ gc.dry => shown'.images = ListedImages /\ tag' = tag
      /\ ~gc.dry => /\ gone'.images = PrunedImages /\ shown'.images = shown.images
                    /\ tag' = [i \in DockerImage |-> IF i \in PrunedImages THEN "absent" ELSE tag[i]]
  BY DEF GcImages, Reported, ListedInv, ReportShape, NoThings
<1>4. ReportShape'
  BY <1>1, <1>2, <1>3 DEF ListedInv, ReportShape, GcShape
<1>5. ImagesListed' /\ (quiet /\ ~gc.dry => gone'.images \subseteq shown.images)
  <2>1. CASE gc.dry
    BY <1>1, <1>2, <1>3, <2>1 DEF ImagesListed, ListedImages
  <2>2. CASE ~gc.dry
    <3>1. quiet => ListedImages \subseteq shown.images
      BY <1>1, <2>2 DEF ListedInv, ImagesListed, Past
    <3>2. PrunedImages \subseteq ListedImages
      BY DEF PrunedImages, ListedImages
    <3>3. ListedImages' \subseteq ListedImages
      BY <1>1, <1>2, <1>3, <2>2 DEF ListedImages, ListedInv, ReportShape
    <3> QED BY <1>1, <1>3, <2>2, <3>1, <3>2, <3>3 DEF ImagesListed
  <2> QED BY <2>1, <2>2
<1>6. VolumesListed'
  <2>1. PrunedVolumes' = PrunedVolumes
    BY <1>1, <1>2 DEF PrunedVolumes, UsedVolumes, Held
  <2> QED BY <1>1, <1>2, <1>3, <2>1 DEF ListedInv, VolumesListed, Past
<1>7. ModelsListed'
  BY <1>1, <1>2, <1>3 DEF ListedInv, ModelsListed, UsedModels
<1>8. RemovedWasListed'
  BY <1>1, <1>2, <1>3, <1>5 DEF ListedInv, RemovedWasListed
<1> QED BY <1>4, <1>5, <1>6, <1>7, <1>8 DEF ListedInv

(* The volumes it removes are on that list too.                                                      *)
LEMMA GcVolumesListed ==
  ASSUME ListedInv, GcVolumes
  PROVE  ListedInv'
<1>1. /\ gc' = [gc EXCEPT !.at = "networks"] /\ gc.at = "volumes" /\ quiet' = quiet /\ dockerUp
      /\ status' = status /\ tag' = tag /\ old' = old /\ models' = models /\ broken' = broken
      /\ dockerUp' = dockerUp
      /\ volumes' = IF gc.dry THEN volumes ELSE volumes \ PrunedVolumes
  BY DEF GcVolumes, counters
<1>2. /\ DOMAIN gc' = DOMAIN gc /\ gc'.at = "networks" /\ gc'.dry = gc.dry
      /\ gc'.aggressive = gc.aggressive /\ gc'.withModels = gc.withModels
  BY <1>1 DEF ListedInv, ReportShape, GcShape
<1>3. /\ DOMAIN shown' = DOMAIN NoThings /\ DOMAIN gone' = DOMAIN NoThings
      /\ shown'.images = shown.images /\ shown'.models = shown.models
      /\ gone'.images = gone.images /\ gone'.models = gone.models
      /\ gone'.containers = gone.containers
      /\ gc.dry => shown'.volumes = PrunedVolumes
      /\ ~gc.dry => gone'.volumes = PrunedVolumes /\ shown'.volumes = shown.volumes
  BY DEF GcVolumes, Reported, ListedInv, ReportShape, NoThings
<1>4. ReportShape' /\ ImagesListed' /\ ModelsListed'
  BY <1>1, <1>2, <1>3 DEF ListedInv, ReportShape, GcShape, ImagesListed, ListedImages, Past,
                          ModelsListed, UsedModels
<1>5. UsedVolumes' = UsedVolumes
  BY <1>1 DEF UsedVolumes, Held
<1>6. VolumesListed'
  <2>1. CASE gc.dry
    <3>1. PrunedVolumes' = PrunedVolumes
      BY <1>1, <1>2, <1>5, <2>1 DEF PrunedVolumes
    <3> QED BY <1>3, <2>1, <3>1 DEF VolumesListed
  <2>2. CASE ~gc.dry
    <3>1. PrunedVolumes' = {}
      BY <1>1, <1>2, <1>5, <2>2 DEF PrunedVolumes
    <3> QED BY <3>1 DEF VolumesListed
  <2> QED BY <2>1, <2>2
<1>7. RemovedWasListed'
  <2>1. quiet /\ ~gc.dry => PrunedVolumes \subseteq shown.volumes \cup VolumesOf(gone.containers)
    BY <1>1 DEF ListedInv, VolumesListed, Past
  <2> QED BY <1>1, <1>2, <1>3, <2>1 DEF ListedInv, RemovedWasListed, VolumesOf
<1> QED BY <1>4, <1>6, <1>7 DEF ListedInv

(* So are the networks.                                                     *)
LEMMA GcNetworksListed ==
  ASSUME ListedInv, GcNetworks
  PROVE  ListedInv'
<1>1. /\ gc' = [gc EXCEPT !.at = After("networks")] /\ gc.at = "networks" /\ quiet' = quiet
      /\ status' = status /\ tag' = tag /\ old' = old /\ models' = models /\ broken' = broken
      /\ dockerUp' = dockerUp /\ volumes' = volumes
  BY DEF GcNetworks, counters
<1>2. /\ DOMAIN gc' = DOMAIN gc /\ gc'.at = After("networks") /\ gc'.dry = gc.dry
      /\ gc'.aggressive = gc.aggressive /\ gc'.withModels = gc.withModels
  BY <1>1 DEF ListedInv, ReportShape, GcShape
<1>3. /\ DOMAIN shown' = DOMAIN NoThings /\ DOMAIN gone' = DOMAIN NoThings
      /\ shown'.images = shown.images /\ shown'.volumes = shown.volumes
      /\ shown'.models = shown.models /\ gone'.images = gone.images
      /\ gone'.volumes = gone.volumes /\ gone'.models = gone.models
      /\ gone'.containers = gone.containers
  BY DEF GcNetworks, Reported, ListedInv, ReportShape, NoThings
<1>4. After("networks") = IF gc.withModels THEN "models" ELSE "done"
  BY DEF After
<1>5. ReportShape' /\ RemovedWasListed'
  BY <1>1, <1>2, <1>3, <1>4 DEF ListedInv, ReportShape, GcShape, RemovedWasListed
<1>6. ImagesListed' /\ ModelsListed'
  BY <1>1, <1>2, <1>3, <1>4 DEF ListedInv, ImagesListed, ListedImages, Past, ModelsListed,
                               UsedModels
<1>7. VolumesListed'
  <2>1. PrunedVolumes' = PrunedVolumes
    BY <1>1, <1>2 DEF PrunedVolumes, UsedVolumes, Held
  <2> QED BY <1>1, <1>2, <1>3, <2>1 DEF ListedInv, VolumesListed, Past
<1> QED BY <1>5, <1>6, <1>7 DEF ListedInv

(* The last target, one file after the other, and the end.                    *)
LEMMA GcEndsListed ==
  ASSUME ListedInv,
         GcModels \/ (\E m \in WeightFile : UnlinkModel(m)) \/ EndGc
  PROVE  ListedInv'
<1>1. /\ quiet' = quiet /\ status' = status /\ tag' = tag /\ old' = old /\ broken' = broken
      /\ dockerUp' = dockerUp /\ volumes' = volumes /\ models' \subseteq models
      /\ gc.at \in {"models", "unlink", "done"} /\ gc'.at \in {"unlink", "done", "idle"}
      /\ gc.at \in {"done", "unlink"} => shown' = shown
      /\ gc'.at = "unlink" => ~gc.dry
      /\ gc'.dry = gc.dry /\ gc'.aggressive = gc.aggressive /\ gc'.withModels = gc.withModels
      /\ DOMAIN gc' = DOMAIN gc
  BY DEF GcModels, UnlinkModel, EndGc, counters, hostObjects, ListedInv, ReportShape, GcShape
<1>2. /\ DOMAIN shown' = DOMAIN NoThings /\ DOMAIN gone' = DOMAIN NoThings
      /\ shown'.images = shown.images /\ shown'.volumes = shown.volumes
      /\ gone'.images = gone.images /\ gone'.containers = gone.containers
      /\ gone'.volumes = gone.volumes
  BY DEF GcModels, UnlinkModel, EndGc, Reported, ListedInv, ReportShape, NoThings
<1>3. ReportShape' /\ ImagesListed'
  BY <1>1, <1>2 DEF ListedInv, ReportShape, GcShape, ImagesListed, ListedImages, Past
<1>4. VolumesListed'
  <2>1. PrunedVolumes' = PrunedVolumes
    BY <1>1 DEF PrunedVolumes, UsedVolumes, Held
  <2> QED BY <1>1, <1>2, <2>1 DEF ListedInv, VolumesListed, Past
<1>5. UsedModels' = UsedModels
  BY <1>1 DEF UsedModels
<1>6. ModelsListed' /\ (quiet /\ ~gc.dry => gone'.models \subseteq shown'.models)
  <2>1. CASE GcModels
    <3>1. gc.at = "models" /\ models' = models
      BY <2>1 DEF GcModels, hostObjects
    <3>2. CASE ~CanScan
      BY <1>1, <2>1, <3>1, <3>2 DEF GcModels, CanScan, ModelsListed, ListedInv, RemovedWasListed,
                                    ReportShape, GcShape
    <3>3. CASE CanScan /\ gc.dry
      <4>0. shown' = [shown EXCEPT !["models"] = models \ UsedModels]
            /\ gc' = [gc EXCEPT !.at = "done", !.left = {}]
        BY <2>1, <3>3 DEF GcModels, Reported
      <4>1. shown'.models = models \ UsedModels /\ gc'.at = "done"
        BY <4>0 DEF ListedInv, ReportShape, GcShape, NoThings
      <4> QED BY <1>1, <1>5, <3>1, <3>3, <4>1 DEF ModelsListed
    <3>4. CASE CanScan /\ ~gc.dry
      <4>1. shown' = shown /\ gone' = gone /\ gc'.left = models \ UsedModels
        BY <2>1, <3>4 DEF GcModels, ListedInv, ReportShape, GcShape
      <4>2. quiet => models \ UsedModels \subseteq shown.models
        BY <3>1, <3>4 DEF ListedInv, ModelsListed, CanScan, ReportShape
      <4> QED BY <1>1, <1>5, <3>1, <3>4, <4>1, <4>2 DEF ModelsListed, ListedInv, RemovedWasListed
    <3> QED BY <3>2, <3>3, <3>4
  <2>2. CASE \E m \in WeightFile : UnlinkModel(m)
    <3>1. PICK m \in WeightFile : UnlinkModel(m)
      BY <2>2
    <3>2. /\ m \in gc.left /\ gc.at = "unlink" /\ gc'.at = "unlink" /\ shown' = shown
          /\ gc'.left = gc.left \ {m}
          /\ gone'.models \subseteq gone.models \cup {m}
      BY <3>1 DEF UnlinkModel, ListedInv, ReportShape, GcShape, NoThings
    <3>3. quiet => gc.left \subseteq shown.models
      BY <3>2 DEF ListedInv, ModelsListed
    <3> QED BY <1>1, <1>5, <3>2, <3>3 DEF ModelsListed, ListedInv, RemovedWasListed, ReportShape
  <2>3. CASE EndGc
    <3>1. shown' = shown /\ gone' = gone /\ gc.at \in {"done", "unlink"} /\ gc'.at = "idle"
      BY <2>3 DEF EndGc, ListedInv, ReportShape, GcShape
    <3> QED BY <1>1, <1>5, <3>1 DEF ModelsListed, ListedInv, RemovedWasListed, ReportShape
  <2> QED BY <2>1, <2>2, <2>3
<1>7. RemovedWasListed'
  BY <1>1, <1>2, <1>6 DEF ListedInv, RemovedWasListed
<1> QED BY <1>3, <1>4, <1>6, <1>7 DEF ListedInv

(* Every step removes listed things only.                                   *)
LEMMA ListedStep == ListedInv /\ [GcNext]_gcVars => ListedInv'
<1> SUFFICES ASSUME ListedInv, [GcNext]_gcVars PROVE ListedInv'
  OBVIOUS
<1>1. CASE UNCHANGED gcVars
  BY <1>1 DEF gcVars, ListedInv, ReportShape, GcShape, ImagesListed, VolumesListed, ModelsListed,
              RemovedWasListed, Past, ListedImages, PrunedVolumes, UsedVolumes, Held, UsedModels
<1>2. ASSUME NEW d \in BOOLEAN, NEW a \in BOOLEAN, NEW w \in BOOLEAN, BeginGc(d, a, w)
      PROVE  ListedInv'
  BY <1>2, BeginGcListed
<1>3. CASE DockerFails \/ GcContainers \/ GcImages \/ GcVolumes \/ GcNetworks
  BY <1>3, DockerFailsListed, GcContainersListed, GcImagesListed, GcVolumesListed, GcNetworksListed
<1>4. CASE GcModels \/ (\E m \in WeightFile : UnlinkModel(m)) \/ EndGc
  BY <1>4, GcEndsListed
<1>5. ASSUME HostChanges, old' \subseteq DockerImage PROVE ListedInv'
  BY <1>5 DEF HostChanges, ListedInv, ReportShape, GcShape, ImagesListed, VolumesListed,
              ModelsListed, RemovedWasListed
<1>6. ASSUME NEW m \in WeightFile, AddModel(m) PROVE ListedInv'
  BY <1>5, <1>6 DEF AddModel, ListedInv, ReportShape
<1>7. ASSUME NEW c \in DockerContainer, StartService(c) \/ StopContainer(c) PROVE ListedInv'
  BY <1>5, <1>7 DEF StartService, StopContainer, ListedInv, ReportShape
<1>8. ASSUME NEW i \in DockerImage, AgeImage(i) PROVE ListedInv'
  BY <1>5, <1>8 DEF AgeImage, ListedInv, ReportShape
<1>9. ASSUME NEW s \in WeightSource, EditSource(s) PROVE ListedInv'
  BY <1>5, <1>9 DEF EditSource, ListedInv, ReportShape
<1>10. CASE DockerComesOrGoes
  BY <1>5, <1>10 DEF DockerComesOrGoes, ListedInv, ReportShape
<1> QED BY <1>1, <1>2, <1>3, <1>4, <1>5, <1>6, <1>7, <1>8, <1>9, <1>10 DEF GcNext

(* A run right after a dry run of the same mode removes nothing that one did    *)
(* not list, but for what hung on containers it has just removed.             *)
THEOREM RunsAsPreviewed == GcSpec => []RemovedWasListed
<1>1. ListedInv => RemovedWasListed
  BY DEF ListedInv
<1> QED BY <1>1, ListedInit, ListedStep, PTL DEF GcSpec
=============================================================================
