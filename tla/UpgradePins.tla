------------------------------ MODULE UpgradePins ------------------------------
(***************************************************************************)
(* `agmind upgrade --component` and `agmind upgrade --rollback`: the image  *)
(* pins of the service descriptors and the state files a rollback reads.    *)
(* No lock is taken; the commands here follow one another, and each may die *)
(* between two of its writes.                                               *)
(***************************************************************************)
EXTENDS Naturals, Sequences, FiniteSets, SequencesExt

CONSTANTS
  Descriptor,     \* services that have a descriptor with an image line
  ImageOf,        \* descriptor -> image name without tag
  Members,        \* component id -> sequence of the descriptors it owns
  ReferenceTag,   \* component id -> the pin its contract declares
  Published,      \* image -> the tags its registry has
  HeldImage,      \* images with an entry in version_holds.yaml
  NameRank,       \* component id or service -> its place in lexical order
  FirstPin,       \* descriptor -> the pin it ships with
  NoDigest,
  MaxSeconds,     \* bound: the clock of the file names
  MaxBumps,       \* bound: --component commands
  MaxKills        \* bound: commands that die half way

VARIABLES
  pin,            \* descriptor -> its image and digest lines
  saved,          \* upgrade state files not rolled back yet (nth: ghost, the place in undo)
  seconds,        \* UTC clock, in whole seconds
  cmd,            \* the command at work
  bumps, kills,   \* counted for the bounds
  undo,           \* ghost: pins before each saved bump, the latest last
  upset           \* ghost: a bump died before its save, or two saves share a second

pinsVars == <<pin, saved, seconds, cmd, bumps, kills, undo, upset>>

Component == DOMAIN Members
UpgradeName == Component \cup Descriptor
DigestOf(s, tag) == <<ImageOf[s], tag>>
NoCmd == [at |-> "idle", name |-> "none", items |-> <<>>, todo |-> {}]

-----------------------------------------------------------------------------
(* The pin of a descriptor.                                                *)

(* The digest docker resolves: inline after the tag, or on its own line.    *)
PinnedDigest(p) == IF p.inline # NoDigest THEN p.inline ELSE p.line

\* Bug: the inline digest is left beside the new line.
BumpedPinInlineKept(p, tag, digest) ==
  [tag |-> tag, inline |-> p.inline, line |-> IF digest = NoDigest THEN p.line ELSE digest]

BumpedPin(p, tag, digest) ==
  [tag |-> tag,
   inline |-> NoDigest,
   line |-> IF digest = NoDigest THEN p.line ELSE digest]

(* The descriptors that a component updates along with s.                    *)
Beside ==
  [s \in Descriptor |->
     {s} \cup UNION {Range(Members[c]) : c \in {k \in Component : s \in Range(Members[k])}}]

(* A digest has one place, and it is of the tag beside it; one given for a    *)
(* component is written to its members of other images too.                 *)
Matched(s, p) ==
  /\ p.inline = NoDigest \/ p.line = NoDigest
  /\ PinnedDigest(p) = NoDigest \/ \E o \in Beside[s] : PinnedDigest(p) = DigestOf(o, p.tag)

(* Descriptors as they ship; names are compared by their rank.               *)
ASSUME PinsAssumption ==
  /\ \A c \in Component : Members[c] \in Seq(Descriptor)
  /\ DOMAIN FirstPin = Descriptor
  /\ \A s \in Descriptor : DOMAIN FirstPin[s] = {"tag", "inline", "line"}
                          /\ Matched(s, FirstPin[s])
  /\ \A n \in UpgradeName : NameRank[n] \in Nat
  /\ \A s \in Descriptor : \A v \in Published[ImageOf[s]] : DigestOf(s, v) # NoDigest

Rendered(pins) == [s \in Descriptor |-> <<pins[s].tag, PinnedDigest(pins[s])>>]

-----------------------------------------------------------------------------
(* build_component_upgrade_plan                                            *)

MembersOf(name) == IF name \in Component THEN Members[name] ELSE <<name>>

Divergent(name, s) == name \in Component /\ pin[s].tag # ReferenceTag[name]

PlanItem(name, s, version, digest) ==
  LET stays == Divergent(name, s)
      old == PinnedDigest(pin[s])
  IN [svc |-> s, oldTag |-> pin[s].tag, oldDigest |-> old,
      newTag |-> IF stays THEN pin[s].tag ELSE version,
      newDigest |-> IF stays THEN old ELSE digest]

Plan(name, version, digest) ==
  [i \in DOMAIN MembersOf(name) |->
     PlanItem(name, MembersOf(name)[i], version, digest)]

(* A new tag beside an old digest would deploy the old image.               *)
TagOnlyRefused(name, version, digest) ==
  /\ digest = NoDigest
  /\ \E s \in Range(MembersOf(name)) :
       /\ ~Divergent(name, s)
       /\ pin[s].tag # version
       /\ PinnedDigest(pin[s]) # NoDigest

Blocked(name) == \E s \in Range(MembersOf(name)) : ImageOf[s] \in HeldImage

-----------------------------------------------------------------------------
(* upgrade --component                                                     *)

BeginBump(name, version, digest, force) ==
  LET items == Plan(name, version, digest)
      changed == {i \in DOMAIN items : items[i].oldTag # items[i].newTag}
  IN /\ cmd.at = "idle" /\ bumps < MaxBumps
     /\ ~TagOnlyRefused(name, version, digest)
     /\ Blocked(name) => force
     /\ changed # {}
     /\ cmd' = [at |-> "bump", name |-> name, items |-> items, todo |-> changed]
     /\ bumps' = bumps + 1
     /\ undo' = Append(undo, pin)
     /\ UNCHANGED <<pin, saved, seconds, kills, upset>>

(* The items to do are taken in their order.                                *)
NextItem(i) == i \in cmd.todo /\ \A j \in cmd.todo : i <= j

BumpMember(i) ==
  /\ cmd.at = "bump" /\ NextItem(i)
  /\ LET it == cmd.items[i]
     IN pin' = [pin EXCEPT ![it.svc] = BumpedPin(pin[it.svc], it.newTag, it.newDigest)]
  /\ cmd' = [cmd EXCEPT !.todo = cmd.todo \ {i}]
  /\ UNCHANGED <<saved, seconds, bumps, kills, undo, upset>>

(* The file is named by the second and the component or service.            *)
SaveUpgradeState ==
  /\ cmd.at = "bump" /\ cmd.todo = {}
  /\ saved' = {f \in saved : f.at # seconds \/ f.name # cmd.name}
                \cup {[at |-> seconds, name |-> cmd.name, items |-> cmd.items,
                        nth |-> Len(undo)]}
  /\ upset' = (upset \/ \E f \in saved : f.at = seconds)
  /\ cmd' = NoCmd
  /\ UNCHANGED <<pin, seconds, bumps, kills, undo>>

-----------------------------------------------------------------------------
(* upgrade --rollback                                                      *)

\* Bug: the service is compared before the time.
EarlierByName(f, g) == NameRank[f.name] < NameRank[g.name] \/ (f.name = g.name /\ f.at <= g.at)

Earlier(f, g) == f.at < g.at \/ (f.at = g.at /\ NameRank[f.name] <= NameRank[g.name])

IsLatest(f) == f \in saved /\ \A g \in saved : Earlier(g, f)

(* A state without a digest is refused where the descriptor has one now.    *)
LegacyRefused(f) ==
  \E i \in DOMAIN f.items :
    /\ f.items[i].oldDigest = NoDigest
    /\ PinnedDigest(pin[f.items[i].svc]) # NoDigest

BeginRollback ==
  \E f \in saved :
    /\ cmd.at = "idle" /\ IsLatest(f) /\ ~LegacyRefused(f)
    /\ cmd' = [at |-> "revert", name |-> f.name, items |-> f.items,
                todo |-> DOMAIN f.items]
    /\ UNCHANGED <<pin, saved, seconds, bumps, kills, undo, upset>>

RevertMember(i) ==
  /\ cmd.at = "revert" /\ NextItem(i)
  /\ LET it == cmd.items[i]
     IN pin' = [pin EXCEPT ![it.svc] = BumpedPin(pin[it.svc], it.oldTag, it.oldDigest)]
  /\ cmd' = [cmd EXCEPT !.todo = cmd.todo \ {i}]
  /\ UNCHANGED <<saved, seconds, bumps, kills, undo, upset>>

(* The latest file, looked up again, moves to rolled_back/.                 *)
ArchiveLatestState ==
  /\ cmd.at = "revert" /\ cmd.todo = {}
  /\ saved' = {f \in saved : ~IsLatest(f)}
  /\ undo' = Front(undo)
  /\ cmd' = NoCmd
  /\ UNCHANGED <<pin, seconds, bumps, kills, upset>>

-----------------------------------------------------------------------------
(* Killed between two writes. What a bump has written by then, no file      *)
(* knows of; a rollback leaves its file, and a second one takes it up.      *)
KillCommand ==
  /\ cmd.at # "idle" /\ kills < MaxKills
  /\ kills' = kills + 1
  /\ cmd' = NoCmd
  /\ IF cmd.at = "bump"
     THEN /\ undo' = Front(undo)
          /\ upset' = (upset \/ pin # Last(undo))
     ELSE UNCHANGED <<undo, upset>>
  /\ UNCHANGED <<pin, saved, seconds, bumps>>

PinsTick ==
  /\ cmd.at = "idle" /\ seconds < MaxSeconds
  /\ seconds' = seconds + 1
  /\ UNCHANGED <<pin, saved, cmd, bumps, kills, undo, upset>>

PinsInit ==
  /\ pin = FirstPin /\ saved = {} /\ seconds = 0 /\ cmd = NoCmd
  /\ bumps = 0 /\ kills = 0 /\ undo = <<>> /\ upset = FALSE

(* The operator asks for a version that some member that would move has, and *)
(* leaves --digest out or gives what the registry names for such a member.   *)
Moving(name) == {s \in Range(MembersOf(name)) : ~Divergent(name, s)}

Asked(name) ==
  UNION {{<<v, d>> : v \in Published[ImageOf[s]], d \in {NoDigest}}
           \cup {<<v, DigestOf(s, v)>> : v \in Published[ImageOf[s]]} : s \in Moving(name)}

PinsNext ==
  \/ \E name \in UpgradeName, force \in BOOLEAN :
       \E ask \in Asked(name) : BeginBump(name, ask[1], ask[2], force)
  \/ \E i \in cmd.todo : BumpMember(i) \/ RevertMember(i)
  \/ SaveUpgradeState \/ BeginRollback \/ ArchiveLatestState
  \/ KillCommand \/ PinsTick

PinsSpec == PinsInit /\ [][PinsNext]_pinsVars

-----------------------------------------------------------------------------
(* No descriptor has its digest both inline and on a line of its own, which *)
(* the loader rejects, and no digest is of another tag than the one beside   *)
(* it, or of a component that is not the descriptor's: docker would deploy   *)
(* it in the place of what the tag says.                                    *)
MatchedPins == \A s \in Descriptor : Matched(s, pin[s])

(* A rollback that ends has put back every pin the latest bump found, also  *)
(* when it was killed half way and run again: unless a bump died before its *)
(* state was saved, or two states were saved in one second.                 *)
RollbackUndoes ==
  [][ArchiveLatestState => upset \/ Rendered(pin) = Rendered(Last(undo))]_pinsVars
=============================================================================
