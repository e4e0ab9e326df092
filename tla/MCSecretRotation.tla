--------------------------- MODULE MCSecretRotation ---------------------------
(***************************************************************************)
(* The secrets of a host. SecretRotation for REDIS_PASSWORD: redis demands   *)
(* it and authelia reads it from a file. ConfigValidation of what installs, *)
(* deploys and accidents leave. FileWrites, through which both put files in *)
(* place. A behaviour runs one of the parts.                               *)
(***************************************************************************)
EXTENDS SecretRotation, ConfigValidation, FileWrites, TLC

CONSTANTS Parts, web, api, database, sso

VARIABLE part

Symmetry == Permutations(Procs) \cup Permutations(Writer)

\* After a race the properties promise nothing: no need to look further.
Unraced == "race" \notin accidents

(* A database with its file, a service that shares its password and has a     *)
(* secret with a default, and a secret that is a consumer's file.             *)
MCDeployable == {{web, database}, {web, database, api}, {sso}}
MCRequired == (web :> {}) @@ (database :> {"PG"}) @@ (api :> {"PG"}) @@ (sso :> {"REDIS"})
MCDefaulted == (web :> {}) @@ (database :> {}) @@ (api :> {"KEY"}) @@ (sso :> {})
MCSecret == (web :> {}) @@ (database :> {}) @@ (api :> {"PG", "KEY"}) @@ (sso :> {"REDIS"})
MCDbFile == (web :> {}) @@ (database :> {"dbfile"}) @@ (api :> {}) @@ (sso :> {})
MCConsumerFile == (web :> {}) @@ (database :> {}) @@ (api :> {}) @@ (sso :> {"ssofile"})

-----------------------------------------------------------------------------
(* Every writer has ended, or is done with its share of the bound.           *)
NoMoreWrites == \A p \in Writer : step[p] = "stopped" \/ (step[p] = "start" /\ writes = MaxWrites)

HostInit ==
  /\ part \in Parts
  /\ Init /\ (part # "rotation" => \A s \in Holders : runs[s] = Off)
  /\ ValidationInit
  /\ FileInit
  /\ part # "files" => /\ \A p \in Writer : way[p] = "atomic"
                      /\ private /\ syncs

HostNext ==
  /\ UNCHANGED part
  /\ IF part = "rotation" THEN Next ELSE UNCHANGED vars
  /\ IF part = "validation" THEN ValidationNext ELSE UNCHANGED validationVars
  /\ IF part = "files" THEN FileNext \/ (NoMoreWrites /\ UNCHANGED fileVars)
                       ELSE UNCHANGED fileVars

HostSpec == HostInit /\ [][HostNext]_<<part, vars, validationVars, fileVars>>
===============================================================================
