------------------------------- MODULE Migrations -------------------------------
(***************************************************************************)
(* `agmind migrate up` and `down`: state migrations that take effect one by *)
(* one, and schema.json, read when a command starts and written once, after *)
(* its whole loop. No lock is taken. A module that fails to import is left  *)
(* out for that command.                                                    *)
(***************************************************************************)
EXTENDS Integers, Sequences, FiniteSets, SequencesExt, FiniteSetsExt

CONSTANTS
  Version,        \* the versions of the shipped migrations, positive integers
  Migrator,       \* processes that run `agmind migrate`
  NoTarget,
  MaxCommands,    \* bound: commands begun
  MaxBreaks       \* bound: failures and deaths

ASSUME VersionAssumption == Version \subseteq Nat \ {0} /\ IsFiniteSet(Version)

VARIABLES
  effect,         \* versions whose up() has taken effect and was not reverted
  schema,         \* schema.json
  known,          \* versions whose modules import today
  command,        \* migrator -> its command
  commands, breaks,
  crossed,        \* ghost: two commands overlapped
  lostDown        \* ghost: a down broke off with something reverted

migrationVars == <<effect, schema, known, command, commands, breaks,
                   crossed, lostDown>>

Highest(versions) == IF versions = {} THEN 0 ELSE Max(versions)
Ascending(versions) == SetToSortSeq(versions, <)
Descending(versions) == SetToSortSeq(versions, >)

NoCommand == [op |-> "none", todo |-> <<>>, state |-> [applied |-> {}, version |-> 0],
              ran |-> {}]

Busy == {p \in Migrator : command[p].op # "none"}

(* SchemaState.record and unrecord.                                         *)
Record(state, v) ==
  IF v \in state.applied THEN state
  ELSE [applied |-> state.applied \cup {v},
        version |-> IF v > state.version THEN v ELSE state.version]

Unrecord(state, v) ==
  [applied |-> state.applied \ {v}, version |-> Highest(state.applied \ {v})]

-----------------------------------------------------------------------------
Start(p, op, todo) ==
  /\ command[p].op = "none" /\ commands < MaxCommands
  /\ todo # <<>>
  /\ command' = [command EXCEPT ![p] =
       [op |-> op, todo |-> todo, state |-> schema, ran |-> {}]]
  /\ commands' = commands + 1
  /\ crossed' = (crossed \/ Busy # {})
  /\ UNCHANGED <<effect, schema, known, breaks, lostDown>>

MigrateUp(p, target) ==
  LET pending == known \ schema.applied
      wanted == {v \in pending : target = NoTarget \/ v <= target}
  IN Start(p, "up", Ascending(wanted))

(* The last N that are applied and known, or all above the target.          *)
MigrateDown(p, steps, target) ==
  LET applied == Descending(known \cap schema.applied)
  IN /\ schema.version # 0
     /\ Start(p, "down",
              IF target # NoTarget THEN SelectSeq(applied, LAMBDA v : v > target)
              ELSE SubSeq(applied, 1, IF steps < Len(applied) THEN steps ELSE Len(applied)))

RunUp(p) ==
  LET c == command[p]
  IN /\ c.op = "up" /\ c.todo # <<>>
     /\ effect' = effect \cup {Head(c.todo)}
     /\ command' = [command EXCEPT ![p].todo = Tail(@), ![p].ran = @ \cup {Head(c.todo)},
                                   ![p].state = Record(@, Head(c.todo))]
     /\ UNCHANGED <<schema, known, commands, breaks, crossed, lostDown>>

RunDown(p) ==
  LET c == command[p]
  IN /\ c.op = "down" /\ c.todo # <<>>
     /\ effect' = effect \ {Head(c.todo)}
     /\ command' = [command EXCEPT ![p].todo = Tail(@), ![p].ran = @ \cup {Head(c.todo)},
                                   ![p].state = Unrecord(@, Head(c.todo))]
     /\ UNCHANGED <<schema, known, commands, breaks, crossed, lostDown>>

\* Bug: what was recorded stays recorded.
SaveSchemaMerges(p) ==
  LET applied == schema.applied \cup command[p].state.applied
  IN /\ command[p].op # "none" /\ command[p].todo = <<>>
     /\ schema' = [applied |-> applied, version |-> Highest(applied)]
     /\ command' = [command EXCEPT ![p] = NoCommand]
     /\ UNCHANGED <<effect, known, commands, breaks, crossed, lostDown>>

(* schema.json is written, atomically, after the loop.                      *)
SaveSchema(p) ==
  /\ command[p].op # "none" /\ command[p].todo = <<>>
  /\ schema' = command[p].state
  /\ command' = [command EXCEPT ![p] = NoCommand]
  /\ UNCHANGED <<effect, known, commands, breaks, crossed, lostDown>>

(* A migration raises, leaving the state as it found it, or the command is  *)
(* killed: nothing of what the loop did so far is saved.                    *)
BreakOff(p) ==
  LET c == command[p]
  IN /\ c.op # "none" /\ breaks < MaxBreaks
     /\ breaks' = breaks + 1
     /\ command' = [command EXCEPT ![p] = NoCommand]
     /\ lostDown' = (lostDown \/ (c.op = "down" /\ c.ran # {}))
     /\ UNCHANGED <<effect, schema, known, commands, crossed>>

(* A release adds a module or mends one; a broken one does not import.      *)
ModuleChanges(v) ==
  /\ known' = IF v \in known THEN known \ {v} ELSE known \cup {v}
  /\ UNCHANGED <<effect, schema, command, commands, breaks, crossed, lostDown>>

MigrationInit ==
  /\ effect = {} /\ schema = [applied |-> {}, version |-> 0]
  /\ known \in SUBSET Version
  /\ command = [p \in Migrator |-> NoCommand] /\ commands = 0 /\ breaks = 0
  /\ crossed = FALSE /\ lostDown = FALSE

MigrationNext ==
  \/ \E p \in Migrator :
       \/ \E target \in Version \cup {NoTarget} : MigrateUp(p, target)
       \/ \E steps \in 1 .. Cardinality(Version) : MigrateDown(p, steps, NoTarget)
       \/ \E target \in Version \cup {0} : MigrateDown(p, 1, target)
       \/ RunUp(p) \/ RunDown(p) \/ SaveSchema(p) \/ BreakOff(p)
  \/ \E v \in Version : ModuleChanges(v)

MigrationSpec == MigrationInit /\ [][MigrationNext]_migrationVars

-----------------------------------------------------------------------------
(* Between commands schema.json names only migrations in effect: a later    *)
(* `up` misses none. Unless a down broke off half way or two overlapped.    *)
RecordedInEffect ==
  lostDown \/ crossed \/ Busy # {} \/ schema.applied \subseteq effect
=============================================================================
