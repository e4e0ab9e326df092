----------------------------- MODULE InstallVerify -----------------------------
(***************************************************************************)
(* `agmind verify install`: the installer's writes and a deploy without     *)
(* --apply, for each scenario in a directory of its own. With --work-dir the *)
(* directories stay, so that a later verification, of another release or     *)
(* domain, or after one that was killed, starts from what it finds there.   *)
(***************************************************************************)
EXTENDS Naturals, Sequences

CONSTANTS
  Scenario,       \* DEFAULT_SCENARIOS
  Edge,           \* those with traefik, authelia and redis
  Domain,
  Requests,       \* --scenario options: sequences of scenarios
  NotYet,         \* no file, no result
  MaxVerifications, MaxKills, LastRelease  \* bounds

(* A request names at least one scenario: without the option, all of them.   *)
ASSUME VerifyAssumption ==
  /\ \A request \in Requests : request \in Seq(Scenario) /\ request # <<>>
  /\ NotYet \notin Nat /\ NotYet # "failed"

VARIABLES
  current,        \* release of the code and its descriptors
  domain, todo,   \* of the verification at work
  upNext,         \* its next step for the head of todo; "idle"
  key,            \* secrets of the scenario as _runtime_env has them
  work,           \* scenario -> what its directory has
  checks,         \* results of the global checks
  exitCode,       \* of the last verification, once it has reported
  results,        \* scenario -> "ok", "failed" or NotYet
  keysMade, verifications, kills,
  troubled        \* ghost: scenarios of this verification an outside failure has met

verifyVars == <<current, domain, todo, upNext, key, work, checks, results, exitCode,
                keysMade, verifications, kills, troubled>>

Empty ==
  [env |-> NotYet, domain |-> NotYet, secret |-> NotYet, token |-> FALSE, config |-> FALSE,
   version |-> NotYet, compose |-> FALSE]
Here == Head(todo)

(* Exit codes of an outside command; 124 for no answer in time, 127 for none *)
(* that could be run.                                                       *)
CommandCodes == {0, 1, 124, 127}

-----------------------------------------------------------------------------
(* verify_install                                                          *)

(* Without --work-dir the directories are new, and gone afterwards.          *)
BeginVerification(request, d, kept) ==
  /\ upNext = "idle" /\ verifications < MaxVerifications
  /\ verifications' = verifications + 1
  /\ domain' = d /\ todo' = request
  /\ work' = IF kept THEN work ELSE [s \in Scenario |-> Empty]
  /\ checks' = <<>> /\ results' = [s \in Scenario |-> NotYet] /\ troubled' = {}
  /\ upNext' = "ansible"
  /\ exitCode' = NotYet
  /\ UNCHANGED <<current, key, keysMade, kills>>

(* Collections that do not install leave the playbook unchecked; in no case  *)
(* are the scenarios skipped.                                               *)
AnsibleChecks ==
  /\ upNext = "ansible"
  /\ \E galaxy, syntax \in CommandCodes :
       checks' \in {<<>>, <<syntax = 0>>,
                   IF galaxy = 0 THEN <<TRUE, syntax = 0>> ELSE <<FALSE>>}
  /\ upNext' = "write"
  /\ UNCHANGED <<current, domain, todo, key, work, results, exitCode, keysMade, verifications,
                 kills, troubled>>

(* The result of a scenario; the next one begins.                           *)
Conclude(result) ==
  /\ results' = [results EXCEPT ![Here] = result]
  /\ todo' = Tail(todo)
  /\ upNext' = IF Len(todo) = 1 THEN "report" ELSE "write"
  /\ UNCHANGED <<current, domain, checks, exitCode, verifications, kills>>

Continue(next) ==
  /\ upNext' = next
  /\ UNCHANGED <<current, domain, todo, checks, results, exitCode, verifications, kills, troubled>>

-----------------------------------------------------------------------------
(* EnvWriteStep                                                            *)

(* Secrets that .env has are kept, of an earlier release too.               *)
PrepareWrite ==
  /\ upNext = "write"
  /\ key' = IF work[Here].env # NotYet THEN work[Here].env ELSE keysMade + 1
  /\ keysMade' = IF key' > keysMade THEN key' ELSE keysMade
  /\ Continue("secrets") /\ UNCHANGED work

\* Bug: a secret file that is there is not written again.
SecretContentOnce ==
  IF Here \in Edge /\ work[Here].secret = NotYet THEN key ELSE work[Here].secret

(* The consumer's secret file has what .env will have.                      *)
SecretContent == IF Here \in Edge THEN key ELSE work[Here].secret

WriteSecrets ==
  /\ upNext = "secrets"
  /\ work' = [work EXCEPT ![Here].secret = SecretContent,
                          ![Here].token = (Here \in Edge \/ @)]
  /\ Continue("configs") /\ UNCHANGED <<key, keysMade>>

(* Each configuration is moved aside and replaced.                          *)
StageConfigs ==
  /\ upNext \in {"configs", "config-in"}
  /\ work' = [work EXCEPT ![Here].config = (upNext = "config-in")]
  /\ Continue(IF upNext = "configs" THEN "config-in" ELSE "env")
  /\ UNCHANGED <<key, keysMade>>

WriteEnv ==
  /\ upNext = "env"
  /\ work' = [work EXCEPT ![Here].env = key, ![Here].domain = domain]
  /\ Continue("version") /\ UNCHANGED <<key, keysMade>>

WriteVersions ==
  /\ upNext = "version"
  /\ work' = [work EXCEPT ![Here].version = current]
  /\ Continue("read") /\ UNCHANGED <<key, keysMade>>

(* A write fails: the first and the last two are files, the others a tree.   *)
WriteTrouble ==
  /\ upNext \in {"write", "secrets", "configs", "config-in", "env", "version"}
  /\ troubled' = troubled \cup {Here}
  /\ Conclude("failed") /\ UNCHANGED <<key, work, keysMade>>

-----------------------------------------------------------------------------
(* What is read back, in this order; the first that does not agree ends the  *)
(* scenario. Modes, duplicate keys and weak secrets are the writers' own.    *)
EnvValuesAgree(s) == work[s].env # NotYet /\ work[s].domain = domain

(* The consumer's file against .env, _authelia_secret_parity_errors.         *)
SecretsAgree(s) == s \in Edge => work[s].token /\ work[s].secret = work[s].env

ConfigsThere(s) == work[s].config

VersionsAgree(s) == work[s].version = current

ReadBack ==
  /\ upNext = "read"
  /\ IF EnvValuesAgree(Here) /\ SecretsAgree(Here) /\ ConfigsThere(Here) /\ VersionsAgree(Here)
     THEN Continue("dryrun")
     ELSE Conclude("failed") /\ UNCHANGED troubled
  /\ UNCHANGED <<key, work, keysMade>>

(* deploy(apply=False), the compose file, `config` and `pull --dry-run`: an  *)
(* outside command fails, or has no answer in time.                         *)
DryRun ==
  /\ upNext = "dryrun"
  /\ \/ Continue("compose")
     \/ Conclude("failed") /\ troubled' = troubled \cup {Here}
  /\ UNCHANGED <<key, work, keysMade>>

ComposeCommands ==
  /\ upNext \in {"compose", "pull"}
  /\ work' = [work EXCEPT ![Here].compose = TRUE]
  /\ \E answer \in CommandCodes :
       IF answer # 0 THEN Conclude("failed") /\ troubled' = troubled \cup {Here}
       ELSE IF upNext = "compose" THEN Continue("pull")
       ELSE Conclude("ok") /\ UNCHANGED troubled
  /\ UNCHANGED <<key, keysMade>>

(* --skip-compose.                                                         *)
SkipCompose ==
  /\ upNext = "compose"
  /\ Conclude("ok") /\ UNCHANGED <<key, work, keysMade, troubled>>

(* The report is printed, and the exit code follows from it.                *)
ReportVerification ==
  /\ upNext = "report"
  /\ exitCode' = IF /\ \A i \in DOMAIN checks : checks[i]
                    /\ \A s \in Scenario : results[s] # "failed"
                 THEN 0 ELSE 1
  /\ upNext' = "idle"
  /\ UNCHANGED <<current, domain, todo, key, work, checks, results, keysMade,
                 verifications, kills, troubled>>

KillVerification ==
  /\ upNext \notin {"idle", "report"} /\ kills < MaxKills
  /\ kills' = kills + 1 /\ upNext' = "idle" /\ todo' = <<>>
  /\ UNCHANGED <<current, domain, key, work, checks, results, exitCode, keysMade, verifications,
                 troubled>>

(* Code and descriptors are updated between two verifications.              *)
NewCode ==
  /\ upNext = "idle" /\ current < LastRelease
  /\ current' = current + 1
  /\ UNCHANGED <<domain, todo, upNext, key, work, checks, results, exitCode, keysMade,
                 verifications, kills, troubled>>

-----------------------------------------------------------------------------
VerifyInit ==
  /\ current = 1 /\ domain = NotYet /\ todo = <<>> /\ upNext = "idle" /\ key = 0
  /\ work = [s \in Scenario |-> Empty]
  /\ checks = <<>> /\ results = [s \in Scenario |-> NotYet] /\ exitCode = NotYet
  /\ keysMade = 0 /\ verifications = 0 /\ kills = 0 /\ troubled = {}

VerifyNext ==
  \/ \E request \in Requests, d \in Domain, kept \in BOOLEAN : BeginVerification(request, d, kept)
  \/ AnsibleChecks
  \/ PrepareWrite \/ WriteSecrets \/ StageConfigs \/ WriteEnv \/ WriteVersions \/ WriteTrouble
  \/ ReadBack \/ DryRun \/ ComposeCommands \/ SkipCompose \/ ReportVerification
  \/ KillVerification \/ NewCode

VerifySpec == VerifyInit /\ [][VerifyNext]_verifyVars

-----------------------------------------------------------------------------
(* A scenario fails only for a reason outside: whatever an earlier           *)
(* verification, killed or of another release or domain, left in a kept work *)
(* directory, the installer's writes pass the checks that read them back.    *)
NoFalseAlarm ==
  /\ \A s \in Scenario : results[s] = "failed" => s \in troubled
  /\ exitCode = 1 => troubled # {} \/ \E i \in DOMAIN checks : ~checks[i]
=============================================================================
