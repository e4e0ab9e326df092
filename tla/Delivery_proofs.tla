---------------------------- MODULE Delivery_proofs ----------------------------
(***************************************************************************)
(* What an install writes and verifies, what the renderers put out and what    *)
(* the evidence of a dry run says, for any catalog, steps and scenarios.       *)
(***************************************************************************)
EXTENDS InstallPipeline, InstallVerify, ComposeRender, KubernetesRender, DryRunEvidence,
        SequenceTheorems, FiniteSetTheorems, TLAPS

-----------------------------------------------------------------------------
(***************************************************************************)
(* InstallPipeline                                                          *)
(***************************************************************************)

(* As root the secret file is written before .env.                           *)
Ahead == asked.root /\ at \in {"move_aside", "move_in", "env_file"}

PipelineTyped ==
  /\ made \in Nat /\ secretKey \in Nat /\ envFile \in Nat /\ creds \in Nat /\ data \in Nat
  /\ secretFile \in Nat \cup {Dir}
  /\ DOMAIN asked = {"services", "root"} /\ DOMAIN unit = {"profiles", "enabled"}

(* While an install writes, its secret is the one .env has, if that has one.   *)
KeyKept ==
  /\ at \in {"secret_files", "move_aside", "move_in", "env_file"} =>
       secretKey # 0 /\ envFile \in {0, secretKey}
  /\ at \in {"secret_files", "move_aside", "move_in"} => asked.root \/ envFile = secretKey

(* A database was initialised from a secret file that was there, and unless     *)
(* data were kept or a file left behind that was the secret of .env.            *)
CopiesAgree ==
  /\ creds \in {0, envFile}
  /\ data # 0 => secretFile \notin {0, Dir}
  /\ ~keptData /\ ~stray =>
       /\ data \in {0, envFile}
       /\ secretFile \in {0, Dir, envFile} \/ (Ahead /\ secretFile = secretKey)

PipelineInv == PipelineTyped /\ KeyKept /\ CopiesAgree

(* A fresh host holds no secret and no data.                                *)
LEMMA PipelineInitInv == PipelineInit => PipelineInv
  BY PipelineAssumption
  DEF PipelineInit, NotAsked, PipelineInv, PipelineTyped, KeyKept, CopiesAgree, Ahead

(* Where a step leads.                                                      *)
LEMMA Successor ==
  ASSUME Proceed
  PROVE  /\ asked' = asked
         /\ at \in {"doctor", "cloudflare", "bootstrap", "compose_config", "models", "deploy",
                    "gpu_metrics", "boot_unit"}
              => at' \in {"cloudflare", "bootstrap", "env_write", "models", "deploy",
                          "gpu_metrics", "boot_unit", "credentials"}
         /\ at' \in {"gpu_metrics", "boot_unit"} /\ at \in {"doctor", "cloudflare", "bootstrap",
              "compose_config", "models", "gpu_metrics", "boot_unit"} => at = "gpu_metrics"
         /\ at = "env_write" => at' = IF asked.root THEN "secret_files" ELSE "env_file"
         /\ at = "secret_files" => at' = "move_aside"
         /\ at = "move_aside" => at' = "move_in"
         /\ at = "move_in" => at' = IF asked.root THEN "env_file" ELSE "compose_config"
         /\ at = "env_file" => at' = IF asked.root THEN "compose_config" ELSE "secret_files"
         /\ at = "boot_unit" => at' = "credentials"
         /\ at = "deploy" => at' = "gpu_metrics"
  BY DEF Proceed, NextStep

(* An end without a write, wherever it comes.                                *)
LEMMA StopsAgree ==
  ASSUME PipelineInv, Ends, stray' = Strays,
         UNCHANGED <<envFile, secretFile, creds, data, unit, made, keptData>>
  PROVE  PipelineInv'
  BY DEF Ends, NotAsked, Strays, PipelineInv, PipelineTyped, KeyKept, CopiesAgree, Ahead

(* A step that touches no copy of the secret.                                *)
LEMMA PassesAgree ==
  ASSUME PipelineInv, DOMAIN asked' = DOMAIN asked, DOMAIN unit' = DOMAIN unit,
         UNCHANGED <<secretKey, envFile, secretFile, creds, data, made, keptData, stray>>,
         ~Ahead \/ (Ahead' /\ UNCHANGED asked),
         at' \in {"secret_files", "move_aside", "move_in", "env_file"} =>
           at \in {"secret_files", "move_aside", "move_in"} /\ UNCHANGED asked
  PROVE  PipelineInv'
  BY DEF PipelineInv, PipelineTyped, KeyKept, CopiesAgree, Ahead

(* A database that starts for the first time reads the secret file.             *)
LEMMA MountsAgree ==
  ASSUME PipelineInv, NEW services, MakeMounts(services), ~Ahead \/ at' = "idle",
         data' = data \/ (database \in services /\ data' = Initialised),
         at' \notin {"secret_files", "move_aside", "move_in", "env_file"},
         UNCHANGED <<asked, secretKey>> \/ Ends,
         UNCHANGED <<envFile, creds, unit, made, keptData>>,
         (stray' = stray /\ ~Ahead) \/ stray' = Strays
  PROVE  PipelineInv'
<1>1. /\ secretFile' = secretFile \/ (secretFile = 0 /\ secretFile' = Dir)
      /\ database \in services => secretFile' # 0
  BY PipelineAssumption DEF MakeMounts
<1>2. data' = data \/ (data = 0 /\ data' = secretFile' /\ secretFile' = secretFile
                          /\ data' \notin {0, Dir})
  BY <1>1 DEF Initialised
<1>3. PipelineTyped' /\ KeyKept'
  BY <1>1, <1>2, PipelineAssumption
  DEF PipelineInv, PipelineTyped, KeyKept, Initialised, Ends, NotAsked
<1>4. ~stray' /\ ~keptData => ~stray /\ secretFile \in {0, Dir, envFile}
  BY DEF Strays, PipelineInv, CopiesAgree
<1>5. CopiesAgree'
  <2>1. creds' \in {0, envFile'} /\ (data' # 0 => secretFile' \notin {0, Dir})
    BY <1>1, <1>2 DEF PipelineInv, CopiesAgree
  <2>2. ~keptData' /\ ~stray' => data' \in {0, envFile'} /\ secretFile' \in {0, Dir, envFile'}
    BY <1>1, <1>2, <1>4 DEF PipelineInv, CopiesAgree
  <2> QED BY <2>1, <2>2 DEF CopiesAgree
<1> QED BY <1>3, <1>5 DEF PipelineInv

(* The step that fills the missing secrets in keeps the ones it finds.      *)
LEMMA EnvWriteAgrees ==
  ASSUME PipelineInv, EnvWrite
  PROVE  PipelineInv'
<1>1. /\ at = "env_write" /\ at' = IF asked.root THEN "secret_files" ELSE "env_file"
      /\ asked' = asked
  BY Successor DEF EnvWrite
<1>2. /\ UNCHANGED <<envFile, secretFile, creds, data, unit, keptData, stray>>
      /\ secretKey' \in Nat \ {0} /\ envFile \in {0, secretKey'} /\ made' \in Nat
  BY DEF EnvWrite, files, host, ghosts, RuntimeKey, PipelineInv, PipelineTyped
<1> QED BY <1>1, <1>2 DEF PipelineInv, PipelineTyped, KeyKept, CopiesAgree, Ahead

(* So does the write of .env.                                               *)
LEMMA WriteEnvFileAgrees ==
  ASSUME PipelineInv, WriteEnvFile
  PROVE  PipelineInv'
<1>1. /\ at = "env_file" /\ at' = IF asked.root THEN "compose_config" ELSE "secret_files"
      /\ asked' = asked
  BY Successor DEF WriteEnvFile
<1>2. /\ UNCHANGED <<secretKey, secretFile, creds, data, unit, made, keptData>>
      /\ envFile' = secretKey /\ secretKey # 0 /\ envFile \in {0, secretKey}
      /\ ~stray' => ~stray \/ (data = 0 /\ secretFile = envFile')
  BY <1>1 DEF WriteEnvFile, host, counters, PipelineInv, KeyKept
<1>3. PipelineTyped' /\ KeyKept'
  BY <1>1, <1>2 DEF PipelineInv, PipelineTyped, KeyKept
<1>4. CopiesAgree'
  BY <1>1, <1>2 DEF PipelineInv, CopiesAgree, PipelineTyped, Ahead
<1> QED BY <1>3, <1>4 DEF PipelineInv

(* A secret file is written with the secret of .env.                        *)
LEMMA WriteSecretFileAgrees ==
  ASSUME PipelineInv, WriteSecretFile
  PROVE  PipelineInv'
<1>1. at = "secret_files" /\ at' = "move_aside" /\ asked' = asked
  BY Successor DEF WriteSecretFile
<1>2. /\ UNCHANGED <<secretKey, envFile, creds, data, unit, made, keptData>>
      /\ secretFile' \in {secretFile, secretKey} /\ secretKey # 0 /\ envFile \in {0, secretKey}
      /\ ~stray' => ~stray \/ (data = 0 /\ secretFile' = envFile)
  BY <1>1 DEF WriteSecretFile, host, counters, PipelineInv, KeyKept
<1>3. asked.root \/ envFile = secretKey
  BY <1>1 DEF PipelineInv, KeyKept
<1>4. PipelineTyped' /\ KeyKept'
  BY <1>1, <1>2, <1>3 DEF PipelineInv, PipelineTyped, KeyKept
<1>5. CopiesAgree'
  BY <1>1, <1>2, <1>3, PipelineAssumption DEF PipelineInv, CopiesAgree, PipelineTyped, Ahead
<1> QED BY <1>4, <1>5 DEF PipelineInv

(* uninstall leaves no data behind whose secret is gone.                    *)
LEMMA UninstallAgrees ==
  ASSUME PipelineInv, NEW wipe \in BOOLEAN, Uninstall(wipe)
  PROVE  PipelineInv'
<1>1. /\ UNCHANGED <<at, asked, secretKey, made, unit>> /\ at = "idle" /\ stray' = stray
      /\ (envFile' = 0 /\ creds' = 0) \/ UNCHANGED <<envFile, creds>>
      /\ UNCHANGED <<secretFile, data>> \/ (secretFile' = 0 /\ data' = 0)
      /\ keptData' = (secretFile' # 0 /\ (keptData \/ envFile' = 0))
  BY DEF Uninstall
<1>2. PipelineTyped' /\ KeyKept'
  BY <1>1 DEF PipelineInv, PipelineTyped, KeyKept
<1>3. CopiesAgree'
  BY <1>1 DEF PipelineInv, PipelineTyped, CopiesAgree, Ahead
<1> QED BY <1>2, <1>3 DEF PipelineInv

(* A deploy initialises data with the secret of its configuration.          *)
LEMMA DeploysAgree ==
  ASSUME PipelineInv, DeployStep \/ (\E services \in Selections : DeployCommand(services)) \/ Reboot
  PROVE  PipelineInv'
<1>1. CASE DeployStep
  <2>1. at = "deploy" /\ at' \in {"gpu_metrics", "idle"}
    BY <1>1, Successor DEF DeployStep, Ends
  <2>2. /\ MakeMounts(asked.services)
        /\ data' = data \/ (database \in asked.services /\ data' = Initialised)
    BY <1>1 DEF DeployStep, DeployPasses, DeployFails
  <2>3. /\ UNCHANGED <<asked, secretKey>> \/ Ends
        /\ UNCHANGED <<envFile, creds, unit, made, keptData, stray>>
    BY <1>1 DEF DeployStep, Proceed, counters
  <2> QED BY <2>1, <2>2, <2>3, MountsAgree DEF Ahead
<1>2. ASSUME NEW services \in Selections, DeployCommand(services) PROVE PipelineInv'
  <2>1. /\ MakeMounts(services)
        /\ data' = data \/ (database \in services /\ data' = Initialised)
    BY <1>2 DEF DeployCommand, DeployPasses, DeployFails
  <2>2. /\ UNCHANGED <<asked, secretKey, envFile, creds, unit, made, keptData, stray>>
        /\ at = "idle" /\ at' = "idle"
    BY <1>2 DEF DeployCommand
  <2> QED BY <2>1, <2>2, MountsAgree DEF Ahead
<1>3. CASE Reboot
  <2> DEFINE started == serving \cup Brought
  <2>1. MakeMounts(started) /\ serving' \subseteq started
    BY <1>3 DEF Reboot
  <2>2. data' = data \/ (database \in started /\ data' = Initialised)
    BY <1>3, <2>1 DEF Reboot
  <2>3. UNCHANGED <<envFile, creds, unit, made, keptData>>
    BY <1>3 DEF Reboot
  <2>4. at' = "idle" /\ Ends /\ stray' = Strays
    BY <1>3 DEF Reboot, Ends
  <2> HIDE DEF started
  <2> QED BY <2>1, <2>2, <2>3, <2>4, MountsAgree
<1> QED BY <1>1, <1>2, <1>3

(* Every step keeps data and secrets together.                              *)
LEMMA PipelineStep == PipelineInv /\ [PipelineNext]_pipelineVars => PipelineInv'
<1> SUFFICES ASSUME PipelineInv, [PipelineNext]_pipelineVars PROVE PipelineInv'
  OBVIOUS
<1>1. CASE UNCHANGED pipelineVars
  BY <1>1 DEF pipelineVars, PipelineInv, PipelineTyped, KeyKept, CopiesAgree, Ahead
<1>2. ASSUME NEW services \in Selections, NEW root \in BOOLEAN, BeginPipeline(services, root)
      PROVE  PipelineInv'
  BY <1>2, PassesAgree DEF BeginPipeline, files, host, Ahead, PipelineInv, PipelineTyped
<1>3. ASSUME Stops PROVE PipelineInv'
  BY <1>3, StopsAgree DEF Stops, files, host, counters
<1>4. ASSUME Passes, at \in {"doctor", "cloudflare", "bootstrap", "compose_config", "models",
                             "gpu_metrics"}
      PROVE  PipelineInv'
  <2>1. at' \in {"cloudflare", "bootstrap", "env_write", "models", "deploy", "gpu_metrics",
                 "boot_unit", "credentials"}
    BY <1>4, Successor DEF Passes
  <2> QED BY <1>4, <2>1, Successor, PassesAgree DEF Passes, files, host, counters, ghosts, Ahead
<1>5. CASE DoctorStep \/ CloudflareTokenStep \/ BootstrapStep \/ ComposeConfigStep
             \/ ModelDownloadStep \/ GpuMetricsStep \/ WriteFails \/ StagingFails \/ CancelInstall
  BY <1>3, <1>4, <1>5 DEF DoctorStep, CloudflareTokenStep, BootstrapStep, ComposeConfigStep,
     ModelDownloadStep, GpuMetricsStep, WriteFails, StagingFails, CancelInstall
<1>6. CASE KillInstall
  BY <1>6, StopsAgree DEF KillInstall, files, host
<1>7. CASE EnvWrite \/ WriteEnvFile \/ WriteSecretFile
  BY <1>7, EnvWriteAgrees, WriteEnvFileAgrees, WriteSecretFileAgrees
<1>8. CASE MoveConfigAside \/ MoveConfigIn
  <2>1. \/ at = "move_aside" /\ at' = "move_in"
        \/ at = "move_in" /\ at' = IF asked.root THEN "env_file" ELSE "compose_config"
    BY <1>8, Successor DEF MoveConfigAside, MoveConfigIn
  <2>2. UNCHANGED <<asked, secretKey, envFile, secretFile, creds, data, unit, made, keptData, stray>>
    BY <1>8, Successor DEF MoveConfigAside, MoveConfigIn, host, counters, ghosts
  <2> QED BY <2>1, <2>2, PassesAgree DEF Ahead
<1>9. CASE BootUnit
  <2>1. at = "boot_unit" /\ at' = "credentials" /\ DOMAIN unit' = DOMAIN unit /\ asked' = asked
    BY <1>9, Successor DEF BootUnit, PipelineInv, PipelineTyped
  <2> QED BY <1>9, <2>1, PassesAgree DEF BootUnit, files, counters, Ahead
<1>10. CASE WriteCredentials
  BY <1>10 DEF WriteCredentials, Ends, NotAsked, host, counters, ghosts, PipelineInv,
               PipelineTyped, KeyKept, CopiesAgree, Ahead
<1>11. ASSUME NEW wipe \in BOOLEAN, Uninstall(wipe) PROVE PipelineInv'
  BY <1>11, UninstallAgrees
<1>12. CASE DeployStep \/ (\E services \in Selections : DeployCommand(services)) \/ Reboot
  BY <1>12, DeploysAgree
<1> QED BY <1>1, <1>2, <1>5, <1>6, <1>7, <1>8, <1>9, <1>10, <1>11, <1>12 DEF PipelineNext

(* The secret a database was initialised with stays the one in .env, in its     *)
(* file and in the credentials, whatever installs stop or come again.          *)
THEOREM SecretsStayReadable == PipelineSpec => []DataReadable
<1>1. PipelineInv => DataReadable
  BY DEF PipelineInv, PipelineTyped, KeyKept, CopiesAgree, DataReadable, OneSecret, Ahead
<1> QED BY <1>1, PipelineInitInv, PipelineStep, PTL DEF PipelineSpec

-----------------------------------------------------------------------------
(* The boot unit                                                           *)

HasFile(services) == database \in services => secretFile \notin {0, Dir}

UpAsAsked ==
  /\ at # "idle" => asked.services \in Selections /\ ~booted
  /\ at \in {"gpu_metrics", "boot_unit"} =>
       compose = asked.services /\ serving \subseteq compose /\ HasFile(compose)

(* While nothing else has chosen services the unit is for those that run.       *)
ArmedUnit ==
  armed # {} =>
    /\ armed = compose /\ armed \in Selections /\ serving \subseteq compose /\ HasFile(armed)
    /\ unit.enabled /\ unit.profiles = UnitProfiles(armed)

BootInv == UpAsAsked /\ ArmedUnit /\ BootBringsBack

(* A step that neither chooses services nor starts any.                       *)
LEMMA BootAside ==
  ASSUME BootInv, UNCHANGED <<compose, serving, unit, booted>>,
         armed' \in {armed, {}}, at # "idle", Ends \/ UNCHANGED asked,
         at' \in {"gpu_metrics", "boot_unit"} => at \in {"gpu_metrics", "boot_unit"},
         secretFile' = secretFile \/ secretFile' \notin {0, Dir}
  PROVE  BootInv'
  BY DEF Ends, BootInv, UpAsAsked, ArmedUnit, HasFile, BootBringsBack

(* Nothing is claimed of a reboot while the unit is older than the deploy. *)
LEMMA DeployStepBoots ==
  ASSUME BootInv, DeployStep
  PROVE  BootInv'
<1>1. armed' = {} /\ UNCHANGED booted /\ at = "deploy" /\ ~booted
  BY DEF DeployStep, BootInv, UpAsAsked
<1>2. CASE DeployPasses(asked.services) /\ Proceed
  <2>1. at' = "gpu_metrics" /\ asked' = asked
    BY <1>1, <1>2, Successor
  <2>2. compose' = asked.services /\ serving' = asked.services
    BY <1>2 DEF DeployPasses
  <2>3. database \in asked.services => secretFile' \notin {0, Dir}
    BY <1>2, PipelineAssumption DEF DeployPasses, CanRun, MakeMounts
  <2> QED BY <1>1, <2>1, <2>2, <2>3 DEF BootInv, UpAsAsked, ArmedUnit, HasFile, BootBringsBack
<1>3. CASE at' = "idle"
  BY <1>1, <1>3 DEF BootInv, UpAsAsked, ArmedUnit, BootBringsBack
<1> QED BY <1>2, <1>3 DEF DeployStep, Ends

(* The boot unit is written for the services deployed.                      *)
LEMMA BootUnitBoots ==
  ASSUME BootInv, BootUnit, PipelineTyped
  PROVE  BootInv'
<1>1. /\ at = "boot_unit" /\ at' = "credentials" /\ ~booted /\ ~booted'
      /\ UNCHANGED <<asked, secretFile, compose, serving>>
      /\ asked.services \in Selections /\ compose = asked.services /\ serving \subseteq compose
      /\ HasFile(compose)
  BY Successor DEF BootUnit, files, BootInv, UpAsAsked
<1>2. \/ armed' = {}
      \/ /\ armed' = asked.services
         /\ unit'.enabled /\ unit'.profiles = UnitProfiles(asked.services)
  BY DEF BootUnit, PipelineTyped
<1>3. UpAsAsked' /\ BootBringsBack'
  BY <1>1 DEF UpAsAsked, BootBringsBack
<1>4. ArmedUnit'
  BY <1>1, <1>2 DEF ArmedUnit, HasFile
<1> QED BY <1>3, <1>4 DEF BootInv

(* The unit names a profile of every service that it is for.                  *)
LEMMA RebootBoots ==
  ASSUME BootInv, Reboot
  PROVE  BootInv'
<1>1. /\ at' = "idle" /\ UNCHANGED <<compose, unit, armed>>
  BY DEF Reboot, Ends
<1>2. UpAsAsked'
  BY <1>1 DEF UpAsAsked
<1> SUFFICES ASSUME armed # {} PROVE ArmedUnit' /\ BootBringsBack'
  BY <1>1, <1>2 DEF BootInv, ArmedUnit, BootBringsBack
<1>3. /\ armed = compose /\ armed \in Selections /\ serving \subseteq compose /\ HasFile(armed)
      /\ unit.enabled /\ unit.profiles = UnitProfiles(armed)
  BY DEF BootInv, ArmedUnit
<1>4. Brought = armed
  BY <1>3, PipelineAssumption DEF Brought, UnitProfiles
<1>5. PICK rest \in SUBSET serving : serving' = {s \in rest \cup Brought : CanRun(s)}
  BY DEF Reboot
<1>6. serving' = {s \in armed : CanRun(s)}
  BY <1>3, <1>4, <1>5
<1>7. database \in armed => secretFile' \notin {0, Dir}
  BY <1>3 DEF HasFile, Reboot, MakeMounts
<1>8. ArmedUnit'
  BY <1>1, <1>3, <1>6, <1>7 DEF ArmedUnit, HasFile
<1>9. BootBringsBack'
  BY <1>1, <1>6, <1>7 DEF BootBringsBack, CanRun
<1> QED BY <1>8, <1>9

(* Every step keeps the boot unit to the last install.                      *)
LEMMA BootStep == PipelineInv /\ BootInv /\ [PipelineNext]_pipelineVars => BootInv'
<1> SUFFICES ASSUME PipelineInv, BootInv, [PipelineNext]_pipelineVars PROVE BootInv'
  OBVIOUS
<1>1. CASE UNCHANGED pipelineVars
  BY <1>1 DEF pipelineVars, BootInv, UpAsAsked, ArmedUnit, HasFile, BootBringsBack
<1>2. ASSUME NEW services \in Selections, NEW root \in BOOLEAN, BeginPipeline(services, root)
      PROVE  BootInv'
  BY <1>2 DEF BeginPipeline, files, host, BootInv, UpAsAsked, ArmedUnit, HasFile, BootBringsBack
<1>3. ASSUME Stops, at # "idle" PROVE BootInv'
  BY <1>3, BootAside DEF Stops, Ends, files, host
<1>4. ASSUME Passes, at \in {"doctor", "cloudflare", "bootstrap", "compose_config", "models",
                             "gpu_metrics"}
      PROVE  BootInv'
  <2>1. at' \in {"gpu_metrics", "boot_unit"} => at = "gpu_metrics"
    BY <1>4, Successor DEF Passes
  <2>2. UNCHANGED <<compose, serving, unit, booted, armed, asked, secretFile>>
    BY <1>4, Successor DEF Passes, files, host, ghosts
  <2> QED BY <1>4, <2>1, <2>2, BootAside
<1>5. CASE DoctorStep \/ CloudflareTokenStep \/ BootstrapStep \/ ComposeConfigStep
             \/ ModelDownloadStep \/ GpuMetricsStep \/ WriteFails \/ StagingFails \/ CancelInstall
  BY <1>3, <1>4, <1>5 DEF DoctorStep, CloudflareTokenStep, BootstrapStep, ComposeConfigStep,
     ModelDownloadStep, GpuMetricsStep, WriteFails, StagingFails, CancelInstall
<1>6. CASE KillInstall
  BY <1>6, BootAside DEF KillInstall, Ends, files, host
<1>7. CASE EnvWrite \/ WriteEnvFile \/ MoveConfigAside \/ MoveConfigIn \/ WriteCredentials
  <2>1. /\ at # "idle" /\ at' \notin {"gpu_metrics", "boot_unit"}
        /\ Ends \/ UNCHANGED asked
    BY <1>7, Successor DEF EnvWrite, WriteEnvFile, MoveConfigAside, MoveConfigIn,
                           WriteCredentials, Ends
  <2>2. UNCHANGED <<compose, serving, unit, booted, armed, secretFile>>
    BY <1>7 DEF EnvWrite, WriteEnvFile, MoveConfigAside, MoveConfigIn, WriteCredentials, files,
                host, ghosts
  <2> QED BY <2>1, <2>2, BootAside
<1>8. CASE WriteSecretFile
  <2>1. at = "secret_files" /\ at' = "move_aside" /\ asked' = asked
    BY <1>8, Successor DEF WriteSecretFile
  <2>2. secretFile' = secretFile \/ secretFile' \notin {0, Dir}
    BY <1>8, <2>1, PipelineAssumption DEF WriteSecretFile, PipelineInv, PipelineTyped, KeyKept
  <2>3. UNCHANGED <<compose, serving, unit, booted, armed>>
    BY <1>8 DEF WriteSecretFile, host
  <2> QED BY <2>1, <2>2, <2>3, BootAside
<1>9. CASE DeployStep \/ BootUnit \/ Reboot
  BY <1>9, DeployStepBoots, BootUnitBoots, RebootBoots DEF PipelineInv
<1>10. ASSUME NEW services \in Selections, DeployCommand(services) PROVE BootInv'
  BY <1>10 DEF DeployCommand, BootInv, UpAsAsked, ArmedUnit, BootBringsBack
<1>11. ASSUME NEW wipe \in BOOLEAN, Uninstall(wipe) PROVE BootInv'
  BY <1>11 DEF Uninstall, BootInv, UpAsAsked, ArmedUnit, BootBringsBack
<1> QED BY <1>1, <1>2, <1>5, <1>6, <1>7, <1>8, <1>9, <1>10, <1>11 DEF PipelineNext

(* Whenever the boot unit has acted, all the services of the last install run   *)
(* and no other.                                                            *)
THEOREM BootsAsInstalled == PipelineSpec => []BootBringsBack
<1>1. PipelineInit => BootInv
  BY DEF PipelineInit, BootInv, UpAsAsked, ArmedUnit, BootBringsBack
<1>2. BootInv => BootBringsBack
  BY DEF BootInv
<1> QED BY <1>1, <1>2, PipelineInitInv, PipelineStep, BootStep, PTL DEF PipelineSpec

-----------------------------------------------------------------------------
(***************************************************************************)
(* InstallVerify                                                            *)
(***************************************************************************)

WriteSteps == {"write", "secrets", "configs", "config-in", "env", "version"}
ScenarioSteps == WriteSteps \cup {"read", "dryrun", "compose", "pull"}
Fields == {"env", "domain", "secret", "token", "config", "version", "compose"}

(* A scenario is at work only while there is one, and has its directory.     *)
VerifyShape ==
  /\ keysMade \in Nat
  /\ todo \in Seq(Scenario)
  /\ upNext \in {"idle", "ansible", "report"} \cup ScenarioSteps
  /\ upNext \in {"ansible"} \cup ScenarioSteps => todo # <<>>
  /\ DOMAIN work = Scenario
  /\ \A s \in Scenario : /\ DOMAIN work[s] = Fields
                         /\ work[s].env \in Nat \cup {NotYet}
  /\ DOMAIN results = Scenario

(* What the writers have left for the head of the queue, step by step.       *)
WrittenSoFar ==
  /\ upNext \in ScenarioSteps \ {"write", "dryrun", "compose", "pull"} => key \in Nat
  /\ upNext \in {"configs", "config-in", "env", "version", "read"} /\ Here \in Edge =>
       work[Here].token /\ work[Here].secret = key
  /\ upNext \in {"env", "version", "read"} => work[Here].config
  /\ upNext \in {"version", "read"} => work[Here].env = key /\ work[Here].domain = domain
  /\ upNext = "read" => work[Here].version = current

(* An exit code is that of a verification that has reported.                 *)
AlarmMeant ==
  /\ upNext # "idle" => exitCode = NotYet
  /\ NoFalseAlarm

VerifyInv == VerifyShape /\ WrittenSoFar /\ AlarmMeant

-----------------------------------------------------------------------------
(* The head of a queue that is not empty is one of its scenarios.            *)
LEMMA HereIsScenario ==
  ASSUME todo \in Seq(Scenario), todo # <<>>
  PROVE  /\ Here \in Scenario
         /\ Tail(todo) \in Seq(Scenario)
         /\ Len(todo) # 1 => Tail(todo) # <<>>
<1>1. Here \in Scenario /\ Tail(todo) \in Seq(Scenario) /\ Len(Tail(todo)) = Len(todo) - 1
  BY HeadTailProperties DEF Here
<1>2. Len(todo) \in Nat /\ (Tail(todo) = <<>> => Len(Tail(todo)) = 0)
  BY LenProperties, EmptySeq
<1> QED
  BY <1>1, <1>2

(* Concluding a scenario keeps the invariant where a failure is accounted   *)
(* for and the directories keep their form.                                 *)
LEMMA ConcludeKeeps ==
  ASSUME VerifyInv, upNext \in ScenarioSteps,
         NEW result, Conclude(result),
         result = "failed" => Here \in troubled',
         troubled \subseteq troubled',
         keysMade' \in Nat,
         DOMAIN work' = Scenario,
         \A s \in Scenario : DOMAIN work'[s] = Fields /\ work'[s].env \in Nat \cup {NotYet}
  PROVE  VerifyInv'
<1>1. todo # <<>> /\ todo \in Seq(Scenario)
  BY DEF VerifyInv, VerifyShape
<1>2. Here \in Scenario /\ Tail(todo) \in Seq(Scenario) /\ (Len(todo) # 1 => Tail(todo) # <<>>)
  BY <1>1, HereIsScenario
<1>3. /\ upNext' \in {"report", "write"}
      /\ upNext' = "write" => todo' # <<>>
      /\ todo' \in Seq(Scenario)
  BY <1>2 DEF Conclude
<1>4. VerifyShape'
  <2>1. DOMAIN results' = Scenario
    BY DEF Conclude, VerifyInv, VerifyShape
  <2>2. QED
    BY <1>3, <2>1 DEF VerifyShape, ScenarioSteps, WriteSteps
<1>5. WrittenSoFar'
  BY <1>3 DEF WrittenSoFar, ScenarioSteps, WriteSteps
<1>6. AlarmMeant'
  <2>1. exitCode' = NotYet
    BY DEF Conclude, VerifyInv, AlarmMeant, ScenarioSteps, WriteSteps
  <2>2. ASSUME NEW s \in Scenario, results'[s] = "failed" PROVE s \in troubled'
    BY <2>2, <1>2 DEF Conclude, VerifyInv, VerifyShape, AlarmMeant, NoFalseAlarm
  <2>3. QED
    BY <2>1, <2>2, VerifyAssumption DEF AlarmMeant, NoFalseAlarm
<1> QED
  BY <1>4, <1>5, <1>6 DEF VerifyInv

(* Going on to the next step of the scenario.                               *)
LEMMA ContinueKeeps ==
  ASSUME VerifyInv, upNext \in ScenarioSteps,
         NEW step \in ScenarioSteps, Continue(step),
         keysMade' \in Nat,
         DOMAIN work' = Scenario,
         \A s \in Scenario : DOMAIN work'[s] = Fields /\ work'[s].env \in Nat \cup {NotYet},
         WrittenSoFar'
  PROVE  VerifyInv'
<1>1. VerifyShape'
  BY DEF Continue, VerifyInv, VerifyShape
<1>2. AlarmMeant'
  BY DEF Continue, VerifyInv, AlarmMeant, NoFalseAlarm, ScenarioSteps, WriteSteps
<1> QED
  BY <1>1, <1>2 DEF VerifyInv

-----------------------------------------------------------------------------
(* Nothing has been verified.                                              *)
LEMMA VerifyInvInit == VerifyInit => VerifyInv
BY VerifyAssumption, EmptySeq
   DEF VerifyInit, VerifyInv, VerifyShape, WrittenSoFar, AlarmMeant, NoFalseAlarm, Empty, Fields,
       ScenarioSteps, WriteSteps

(* A verification begins with what the directories have, or with none.       *)
LEMMA BeginKeeps ==
  ASSUME VerifyInv, NEW request \in Requests, NEW d \in Domain, NEW kept \in BOOLEAN,
         BeginVerification(request, d, kept)
  PROVE  VerifyInv'
<1>1. upNext' = "ansible" /\ todo' = request /\ exitCode' = NotYet
  BY DEF BeginVerification
<1>2. DOMAIN work' = Scenario
      /\ \A s \in Scenario : DOMAIN work'[s] = Fields /\ work'[s].env \in Nat \cup {NotYet}
  <2>1. CASE kept
    BY <2>1 DEF BeginVerification, VerifyInv, VerifyShape
  <2>2. CASE ~kept
    BY <2>2 DEF BeginVerification, Empty, Fields
  <2>3. QED
    BY <2>1, <2>2
<1>3. VerifyShape'
  BY <1>1, <1>2, VerifyAssumption DEF BeginVerification, VerifyInv, VerifyShape
<1>4. WrittenSoFar'
  BY <1>1 DEF WrittenSoFar, ScenarioSteps, WriteSteps
<1>5. AlarmMeant'
  BY <1>1, VerifyAssumption DEF BeginVerification, AlarmMeant, NoFalseAlarm
<1> QED
  BY <1>3, <1>4, <1>5 DEF VerifyInv

(* The writers, in their order.                                             *)
LEMMA WritersKeep ==
  ASSUME VerifyInv, PrepareWrite \/ WriteSecrets \/ StageConfigs \/ WriteEnv \/ WriteVersions
  PROVE  VerifyInv'
<1>1. /\ upNext \in ScenarioSteps
      /\ DOMAIN work = Scenario
      /\ \A s \in Scenario : DOMAIN work[s] = Fields /\ work[s].env \in Nat \cup {NotYet}
  BY DEF PrepareWrite, WriteSecrets, StageConfigs, WriteEnv, WriteVersions, ScenarioSteps,
         WriteSteps, VerifyInv, VerifyShape
<1>2. Here \in Scenario
  BY <1>1, HereIsScenario DEF VerifyInv, VerifyShape
<1>3. CASE PrepareWrite
  <2>1. key' \in Nat /\ keysMade' \in Nat
    BY <1>1, <1>2, <1>3 DEF PrepareWrite, VerifyInv, VerifyShape
  <2>2. WrittenSoFar'
    BY <1>3, <2>1 DEF PrepareWrite, Continue, WrittenSoFar
  <2>3. QED
    BY <1>1, <1>3, <2>1, <2>2, ContinueKeeps DEF PrepareWrite, ScenarioSteps, WriteSteps
<1>4. CASE WriteSecrets
  <2>1. /\ Here' = Here
        /\ work'[Here].secret = SecretContent
        /\ work'[Here].token = (Here \in Edge \/ work[Here].token)
        /\ DOMAIN work' = Scenario
        /\ \A s \in Scenario : DOMAIN work'[s] = Fields /\ work'[s].env \in Nat \cup {NotYet}
    BY <1>1, <1>2, <1>4 DEF WriteSecrets, Continue, Here, Fields
  <2>2. WrittenSoFar'
    BY <1>4, <2>1 DEF WriteSecrets, Continue, SecretContent, VerifyInv, WrittenSoFar,
                      ScenarioSteps, WriteSteps
  <2>3. QED
    BY <1>1, <1>4, <2>1, <2>2, ContinueKeeps
       DEF WriteSecrets, ScenarioSteps, WriteSteps, VerifyInv, VerifyShape
<1>5. CASE StageConfigs
  <2>1. /\ Here' = Here
        /\ work'[Here] = [work[Here] EXCEPT !.config = (upNext = "config-in")]
        /\ DOMAIN work' = Scenario
        /\ \A s \in Scenario : DOMAIN work'[s] = Fields /\ work'[s].env \in Nat \cup {NotYet}
    BY <1>1, <1>2, <1>5 DEF StageConfigs, Continue, Here, Fields
  <2>2. WrittenSoFar'
    BY <1>1, <1>2, <1>5, <2>1 DEF StageConfigs, Continue, VerifyInv, WrittenSoFar, Fields,
                      ScenarioSteps, WriteSteps
  <2>3. QED
    BY <1>1, <1>5, <2>1, <2>2, ContinueKeeps
       DEF StageConfigs, ScenarioSteps, WriteSteps, VerifyInv, VerifyShape
<1>6. CASE WriteEnv
  <2>1. /\ Here' = Here
        /\ work'[Here] = [work[Here] EXCEPT !.env = key, !.domain = domain]
        /\ key \in Nat
        /\ DOMAIN work' = Scenario
        /\ \A s \in Scenario : DOMAIN work'[s] = Fields /\ work'[s].env \in Nat \cup {NotYet}
    BY <1>1, <1>2, <1>6 DEF WriteEnv, Continue, Here, Fields, VerifyInv, WrittenSoFar,
                            ScenarioSteps, WriteSteps
  <2>2. WrittenSoFar'
    BY <1>1, <1>2, <1>6, <2>1 DEF WriteEnv, Continue, VerifyInv, WrittenSoFar, Fields,
                      ScenarioSteps, WriteSteps
  <2>3. QED
    BY <1>1, <1>6, <2>1, <2>2, ContinueKeeps
       DEF WriteEnv, ScenarioSteps, WriteSteps, VerifyInv, VerifyShape
<1>7. CASE WriteVersions
  <2>1. /\ Here' = Here
        /\ work'[Here] = [work[Here] EXCEPT !.version = current]
        /\ DOMAIN work' = Scenario
        /\ \A s \in Scenario : DOMAIN work'[s] = Fields /\ work'[s].env \in Nat \cup {NotYet}
    BY <1>1, <1>2, <1>7 DEF WriteVersions, Continue, Here, Fields
  <2>2. WrittenSoFar'
    BY <1>1, <1>2, <1>7, <2>1 DEF WriteVersions, Continue, VerifyInv, WrittenSoFar, Fields,
                      ScenarioSteps, WriteSteps
  <2>3. QED
    BY <1>1, <1>7, <2>1, <2>2, ContinueKeeps
       DEF WriteVersions, ScenarioSteps, WriteSteps, VerifyInv, VerifyShape
<1> QED
  BY <1>3, <1>4, <1>5, <1>6, <1>7

(* What has been written passes what is read back.                          *)
LEMMA ReadBackKeeps ==
  ASSUME VerifyInv, ReadBack
  PROVE  VerifyInv'
<1>1. upNext = "read" /\ upNext \in ScenarioSteps
  BY DEF ReadBack, ScenarioSteps
<1>2. /\ key \in Nat
      /\ Here \in Edge => work[Here].token /\ work[Here].secret = key
      /\ work[Here].config /\ work[Here].env = key
      /\ work[Here].domain = domain /\ work[Here].version = current
  BY <1>1 DEF VerifyInv, WrittenSoFar, ScenarioSteps, WriteSteps
<1>3. EnvValuesAgree(Here) /\ SecretsAgree(Here) /\ ConfigsThere(Here) /\ VersionsAgree(Here)
  BY <1>2, VerifyAssumption DEF EnvValuesAgree, SecretsAgree, ConfigsThere, VersionsAgree
<1>4. Continue("dryrun") /\ UNCHANGED <<key, work, keysMade>>
  BY <1>3 DEF ReadBack
<1>5. WrittenSoFar'
  BY <1>4 DEF Continue, WrittenSoFar, ScenarioSteps, WriteSteps
<1> QED
  BY <1>1, <1>4, <1>5, ContinueKeeps DEF VerifyInv, VerifyShape, ScenarioSteps

(* The dry run, the commands and a write that fails: outside failures are in *)
(* troubled.                                                                *)
LEMMA CommandsKeep ==
  ASSUME VerifyInv, WriteTrouble \/ DryRun \/ ComposeCommands \/ SkipCompose
  PROVE  VerifyInv'
<1>1. /\ upNext \in ScenarioSteps
      /\ DOMAIN work = Scenario /\ keysMade \in Nat
      /\ \A s \in Scenario : DOMAIN work[s] = Fields /\ work[s].env \in Nat \cup {NotYet}
  BY DEF WriteTrouble, DryRun, ComposeCommands, SkipCompose, ScenarioSteps,
         WriteSteps, VerifyInv, VerifyShape
<1>2. CASE WriteTrouble
  BY <1>1, <1>2, ConcludeKeeps DEF WriteTrouble
<1>3. CASE DryRun
  <2>1. CASE Continue("compose")
    <3>1. WrittenSoFar'
      BY <2>1 DEF Continue, WrittenSoFar, ScenarioSteps, WriteSteps
    <3>2. QED
      BY <1>1, <1>3, <2>1, <3>1, ContinueKeeps DEF DryRun, ScenarioSteps
  <2>2. CASE Conclude("failed") /\ troubled' = troubled \cup {Here}
    BY <1>1, <1>3, <2>2, ConcludeKeeps DEF DryRun
  <2>3. QED
    BY <1>3, <2>1, <2>2 DEF DryRun
<1>4. CASE ComposeCommands
  <2>1. /\ DOMAIN work' = Scenario /\ keysMade' \in Nat
        /\ \A s \in Scenario : DOMAIN work'[s] = Fields /\ work'[s].env \in Nat \cup {NotYet}
    BY <1>1, <1>4 DEF ComposeCommands, Fields
  <2>2. CASE Continue("pull")
    <3>1. WrittenSoFar'
      BY <2>2 DEF Continue, WrittenSoFar, ScenarioSteps, WriteSteps
    <3>2. QED
      BY <1>1, <2>1, <2>2, <3>1, ContinueKeeps DEF ScenarioSteps
  <2>3. CASE Conclude("failed") /\ troubled' = troubled \cup {Here}
    BY <1>1, <2>1, <2>3, ConcludeKeeps
  <2>4. CASE Conclude("ok") /\ UNCHANGED troubled
    BY <1>1, <2>1, <2>4, ConcludeKeeps
  <2>5. QED
    BY <1>4, <2>2, <2>3, <2>4 DEF ComposeCommands
<1>5. CASE SkipCompose
  BY <1>1, <1>5, ConcludeKeeps DEF SkipCompose
<1> QED
  BY <1>2, <1>3, <1>4, <1>5

(* What happens between the scenarios and around them.                      *)
LEMMA AroundKeeps ==
  ASSUME VerifyInv, AnsibleChecks \/ ReportVerification \/ KillVerification \/ NewCode
  PROVE  VerifyInv'
<1>1. CASE AnsibleChecks
  <2>1. upNext = "ansible" /\ upNext' = "write" /\ exitCode = NotYet
    BY <1>1 DEF AnsibleChecks, VerifyInv, AlarmMeant
  <2>2. VerifyShape'
    BY <1>1, <2>1 DEF AnsibleChecks, VerifyInv, VerifyShape, ScenarioSteps, WriteSteps
  <2>3. WrittenSoFar'
    BY <2>1 DEF WrittenSoFar, ScenarioSteps, WriteSteps
  <2>4. AlarmMeant'
    BY <1>1, <2>1, VerifyAssumption DEF AnsibleChecks, VerifyInv, AlarmMeant, NoFalseAlarm
  <2>5. QED
    BY <2>2, <2>3, <2>4 DEF VerifyInv
<1>2. CASE ReportVerification
  <2>1. upNext' = "idle"
    BY <1>2 DEF ReportVerification
  <2>2. VerifyShape'
    BY <1>2, <2>1 DEF ReportVerification, VerifyInv, VerifyShape, ScenarioSteps, WriteSteps
  <2>3. WrittenSoFar'
    BY <2>1 DEF WrittenSoFar, ScenarioSteps, WriteSteps
  <2>4. exitCode' = 1 => \/ \E s \in Scenario : results[s] = "failed"
                         \/ \E i \in DOMAIN checks : ~checks[i]
    BY <1>2 DEF ReportVerification
  <2>5. AlarmMeant'
    BY <1>2, <2>1, <2>4 DEF ReportVerification, VerifyInv, AlarmMeant, NoFalseAlarm
  <2>6. QED
    BY <2>2, <2>3, <2>5 DEF VerifyInv
<1>3. CASE KillVerification
  <2>1. upNext' = "idle" /\ todo' = <<>> /\ exitCode = NotYet
    BY <1>3 DEF KillVerification, VerifyInv, AlarmMeant
  <2>2. VerifyShape'
    BY <1>3, <2>1, EmptySeq DEF KillVerification, VerifyInv, VerifyShape, ScenarioSteps,
                                WriteSteps
  <2>3. WrittenSoFar'
    BY <2>1 DEF WrittenSoFar, ScenarioSteps, WriteSteps
  <2>4. AlarmMeant'
    BY <1>3, <2>1 DEF KillVerification, VerifyInv, AlarmMeant, NoFalseAlarm
  <2>5. QED
    BY <2>2, <2>3, <2>4 DEF VerifyInv
<1>4. CASE NewCode
  <2>1. upNext' = "idle" /\ upNext = "idle"
    BY <1>4 DEF NewCode
  <2>2. VerifyShape'
    BY <1>4 DEF NewCode, VerifyInv, VerifyShape
  <2>3. WrittenSoFar'
    BY <2>1 DEF WrittenSoFar, ScenarioSteps, WriteSteps
  <2>4. AlarmMeant'
    BY <1>4 DEF NewCode, VerifyInv, AlarmMeant, NoFalseAlarm
  <2>5. QED
    BY <2>2, <2>3, <2>4 DEF VerifyInv
<1> QED
  BY <1>1, <1>2, <1>3, <1>4

(* Every step of a verification keeps the invariant.                        *)
LEMMA VerifyInvStep ==
  ASSUME VerifyInv, [VerifyNext]_verifyVars
  PROVE  VerifyInv'
<1>1. CASE UNCHANGED verifyVars
  BY <1>1 DEF verifyVars, VerifyInv, VerifyShape, WrittenSoFar, AlarmMeant, NoFalseAlarm, Here
<1>2. CASE \E request \in Requests, d \in Domain, kept \in BOOLEAN :
             BeginVerification(request, d, kept)
  BY <1>2, BeginKeeps
<1> QED
  BY <1>1, <1>2, WritersKeep, ReadBackKeeps, CommandsKeep, AroundKeeps DEF VerifyNext

(* A scenario of `agmind verify install` fails, and the command with it, only *)
(* for a reason outside: what an earlier verification left in a kept work    *)
(* directory never fails what is read back.                                 *)
THEOREM FailuresAreReal == VerifySpec => []NoFalseAlarm
<1>1. VerifyInv => NoFalseAlarm
  BY DEF VerifyInv, AlarmMeant
<1> QED
  BY <1>1, VerifyInvInit, VerifyInvStep, PTL DEF VerifySpec

-----------------------------------------------------------------------------
(***************************************************************************)
(* ComposeRender                                                            *)
(***************************************************************************)

(* The catalog is of the commit, and a stack what the renderer makes of it.  *)
FromCommit == descriptors \in Commits

(* What the checks that passed say of the catalog.                           *)
LanesChecked ==
  passed = "passed" =>
    /\ AvailableProfiles = UNION Lanes
    /\ \A lane \in Lanes, S \in SUBSET Service :
         S = SelectServices(lane) => ~Refuses(S, FALSE, CiGroups)

(* S: the services, P: the profiles that were asked for, of a render by them. *)
StackIs(S, P, labels, project) ==
  /\ stack.selected = S /\ stack.labels = labels
  /\ stack.by = "profiles" => P # {} /\ S = SelectServices(P)
  /\ stack.refused = Refuses(S, labels, HostGroups)
  /\ ~stack.refused => stack.made = RenderCompose(S, labels, project)

StackRendered ==
  stack.by # "nothing" =>
    \E S \in SUBSET Service, P \in SUBSET AvailableProfiles, labels \in BOOLEAN,
       project \in Projects \cup {DefaultProject} : StackIs(S, P, labels, project)

ComposeInv == FromCommit /\ LanesChecked /\ StackRendered

-----------------------------------------------------------------------------
(* The services of a profile are among those of a selection that asks for it. *)
LEMMA LaneWithin ==
  ASSUME NEW profiles \in SUBSET AvailableProfiles, NEW p \in profiles,
         "full" \notin profiles
  PROVE  SelectServices({p}) \subseteq SelectServices(profiles)
BY DEF SelectServices

(* A selection is covered by lanes that lie within it.                       *)
LEMMA LanesCover ==
  ASSUME AvailableProfiles = UNION Lanes,
         NEW profiles \in (SUBSET AvailableProfiles) \ {{}}
  PROVE  /\ \E lane \in Lanes : SelectServices(lane) \subseteq SelectServices(profiles)
         /\ \A s \in SelectServices(profiles) :
              \E lane \in Lanes : /\ s \in SelectServices(lane)
                                  /\ SelectServices(lane) \subseteq SelectServices(profiles)
<1>1. CASE "full" \in profiles
  <2>1. SelectServices({"full"}) = SelectServices(profiles)
    BY <1>1 DEF SelectServices
  <2>2. {"full"} \in Lanes
    BY CatalogAssumption
  <2>3. QED
    BY <2>1, <2>2
<1>2. CASE "full" \notin profiles
  <2>1. ASSUME NEW p \in profiles PROVE {p} \in Lanes
    <3>1. PICK lane \in Lanes : p \in lane
      OBVIOUS
    <3>2. \E q \in lane : lane = {q}
      BY CatalogAssumption
    <3>3. QED
      BY <3>1, <3>2
  <2>2. \A p \in profiles : SelectServices({p}) \subseteq SelectServices(profiles)
    BY <1>2, LaneWithin
  <2>3. ASSUME NEW s \in SelectServices(profiles)
        PROVE  \E p \in profiles : s \in SelectServices({p})
    BY <1>2 DEF SelectServices
  <2>4. \E p \in profiles : TRUE
    OBVIOUS
  <2>5. QED
    BY <2>1, <2>2, <2>3, <2>4
<1> QED
  BY <1>1, <1>2

(* Lanes that all render make every selection render, but for the groups of   *)
(* a host and for authelia.                                                 *)
LEMMA LanesSuffice ==
  ASSUME AvailableProfiles = UNION Lanes,
         \A lane \in Lanes : ~Refuses(SelectServices(lane), FALSE, CiGroups),
         NEW profiles \in (SUBSET AvailableProfiles) \ {{}},
         NEW labels, Refuses(SelectServices(profiles), labels, HostGroups)
  PROVE  \/ labels /\ Ungated(SelectServices(profiles)) # {}
         \/ UnknownGroups(SelectServices(profiles), HostGroups) # {}
<1> DEFINE S == SelectServices(profiles)
<1>1. S # {}
  <2>1. PICK lane \in Lanes : SelectServices(lane) \subseteq S
    BY LanesCover
  <2>2. SelectServices(lane) # {}
    BY <2>1 DEF Refuses
  <2>3. QED
    BY <2>1, <2>2
<1>2. MissingDependencies(S) = {}
  <2>1. ASSUME NEW s \in S, NEW d \in descriptors[s].depends
        PROVE  d \in S
    <3>1. PICK lane \in Lanes : s \in SelectServices(lane) /\ SelectServices(lane) \subseteq S
      BY LanesCover
    <3>2. MissingDependencies(SelectServices(lane)) = {}
      BY <3>1 DEF Refuses
    <3>3. <<s, d>> \notin UNION {{<<t, e>> : e \in descriptors[t].depends \ SelectServices(lane)} :
                                   t \in SelectServices(lane)}
      BY <3>2 DEF MissingDependencies
    <3>4. d \in SelectServices(lane)
      BY <3>1, <3>3
    <3>5. QED
      BY <3>1, <3>4
  <2>2. QED
    BY <2>1 DEF MissingDependencies
<1>3. UnresolvedConsumes(S) = {}
  <2>1. ASSUME NEW s \in S, NEW cap \in descriptors[s].consumes \ (Optional \cup Pulled),
               <<s, cap>> \notin Known
        PROVE  ProvidersIn(S, cap) # {}
    <3>1. PICK lane \in Lanes : s \in SelectServices(lane) /\ SelectServices(lane) \subseteq S
      BY LanesCover
    <3>2. UnresolvedConsumes(SelectServices(lane)) = {}
      BY <3>1 DEF Refuses
    <3>3. ProvidersIn(SelectServices(lane), cap) # {}
      BY <2>1, <3>1, <3>2 DEF UnresolvedConsumes
    <3>4. QED
      BY <3>1, <3>3 DEF ProvidersIn
  <2>2. QED
    BY <2>1 DEF UnresolvedConsumes
<1>4. (UNION {descriptors[s].networks : s \in S}) \ (Registered \cup {"default"}) = {}
  <2>1. ASSUME NEW s \in S
        PROVE  descriptors[s].networks \subseteq Registered \cup {"default"}
    <3>1. PICK lane \in Lanes : s \in SelectServices(lane)
      BY LanesCover
    <3>2. (UNION {descriptors[t].networks : t \in SelectServices(lane)})
            \ (Registered \cup {"default"}) = {}
      BY <3>1 DEF Refuses
    <3>3. QED
      BY <3>1, <3>2
  <2>2. QED
    BY <2>1
<1> HIDE DEF S
<1>5. QED
  BY <1>1, <1>2, <1>3, <1>4 DEF Refuses, S

(* Without more than one network, and on the default one, a service is on it *)
(* alone.                                                                   *)
LEMMA OnlyNetwork ==
  ASSUME NEW networks, OnDefault(networks), ~(Cardinality(networks) > 1)
  PROVE  networks \in {{}, {"default"}}
<1>1. CASE networks = {}
  BY <1>1
<1>2. CASE "default" \in networks
  <2>1. IsFiniteSet(networks) /\ Cardinality(networks) \in Nat
    BY FS_CardinalityType DEF OnDefault
  <2>2. /\ IsFiniteSet(networks \ {"default"})
        /\ Cardinality(networks \ {"default"}) = Cardinality(networks) - 1
    BY <1>2, <2>1, FS_RemoveElement
  <2>3. Cardinality(networks \ {"default"}) \in Nat
    BY <2>2, FS_CardinalityType
  <2>4. Cardinality(networks \ {"default"}) = 0
    BY <2>1, <2>2, <2>3
  <2>5. networks \ {"default"} = {}
    BY <2>2, <2>4, FS_EmptySet
  <2>6. QED
    BY <1>2, <2>5
<1> QED
  BY <1>1, <1>2 DEF OnDefault

(* What is on the default network is rendered on that of the project, and on *)
(* that alone where nothing is pinned.                                      *)
LEMMA RenderedOnDefault ==
  ASSUME NEW s \in Service, OnDefault(descriptors[s].networks), NEW project
  PROVE  /\ <<project, "default">> \in NetworksOf(s, project)
         /\ Pinned(s, project) \in {{}, {<<project, "default">>}}
         /\ Pinned(s, project) = {} => NetworksOf(s, project) = {<<project, "default">>}
<1>1. <<project, "default">> \in NetworksOf(s, project)
  BY DEF NetworksOf, OnDefault
<1>2. Pinned(s, project) \in {{}, {<<project, "default">>}}
  BY DEF Pinned
<1>3. ASSUME Pinned(s, project) = {}
      PROVE  NetworksOf(s, project) = {<<project, "default">>}
  <2>1. ~(Cardinality(descriptors[s].networks) > 1)
    BY <1>3 DEF Pinned
  <2>2. descriptors[s].networks \in {{}, {"default"}}
    BY <2>1, OnlyNetwork
  <2>3. QED
    BY <2>2 DEF NetworksOf
<1> QED
  BY <1>1, <1>2, <1>3

-----------------------------------------------------------------------------
(* What is read of the catalog stays while the catalog does.                 *)
LEMMA SameCatalog ==
  ASSUME descriptors' = descriptors
  PROVE  /\ Service' = Service /\ AvailableProfiles' = AvailableProfiles
         /\ \A P : SelectServices(P)' = SelectServices(P)
         /\ \A S, labels, groups : Refuses(S, labels, groups)' = Refuses(S, labels, groups)
         /\ \A S, labels, project :
              RenderCompose(S, labels, project)' = RenderCompose(S, labels, project)
<1>1. Service' = Service /\ AvailableProfiles' = AvailableProfiles
  BY DEF Service, AvailableProfiles
<1>2. ASSUME NEW P PROVE SelectServices(P)' = SelectServices(P)
  BY DEF Service, SelectServices
<1>3. ASSUME NEW S, NEW labels, NEW groups
      PROVE  Refuses(S, labels, groups)' = Refuses(S, labels, groups)
  BY DEF Refuses, MissingDependencies, UnresolvedConsumes, ProvidersIn, Ungated, UnknownGroups
<1>4. ASSUME NEW S, NEW labels, NEW project
      PROVE  RenderCompose(S, labels, project)' = RenderCompose(S, labels, project)
  BY DEF RenderCompose, NetworksOf, RoutedOf, Pinned
<1> QED
  BY <1>1, <1>2, <1>3, <1>4

(* The catalog and what it is checked for are not the renderer's to change.   *)
LEMMA CheckedStays ==
  ASSUME ComposeInv, descriptors' = descriptors, passed' = passed
  PROVE  FromCommit' /\ LanesChecked'
<1>1. FromCommit'
  BY DEF ComposeInv, FromCommit
<1>2. LanesChecked'
  BY SameCatalog DEF ComposeInv, LanesChecked
<1> QED
  BY <1>1, <1>2

(* No check has run and nothing is rendered.                                *)
LEMMA ComposeInvInit == ComposeInit => ComposeInv
<1> SUFFICES ASSUME ComposeInit PROVE ComposeInv
  OBVIOUS
<1>1. descriptors \in Commits /\ passed = "not yet" /\ stack.by = "nothing"
  BY DEF ComposeInit
<1> QED
  BY <1>1 DEF ComposeInv, FromCommit, LanesChecked, StackRendered

(* The checks look, and change neither the catalog nor a stack.              *)
LEMMA CheckKeeps ==
  ASSUME ComposeInv, CheckCatalog
  PROVE  ComposeInv'
<1>1. UNCHANGED <<descriptors, stack>>
  BY DEF CheckCatalog
<1>2. FromCommit'
  BY <1>1 DEF ComposeInv, FromCommit
<1>3. LanesChecked'
  <2>1. passed' = "passed" =>
          /\ AvailableProfiles = UNION Lanes
          /\ \A lane \in Lanes : ~Refuses(SelectServices(lane), FALSE, CiGroups)
    BY DEF CheckCatalog
  <2>2. QED
    BY <1>1, <2>1, SameCatalog DEF LanesChecked
<1>4. StackRendered'
  <2>1. StackRendered /\ stack' = stack
    BY <1>1 DEF ComposeInv
  <2>2. ASSUME NEW S, NEW P, NEW labels, NEW project, StackIs(S, P, labels, project)
        PROVE  StackIs(S, P, labels, project)'
    BY <1>1, <2>2, SameCatalog DEF StackIs
  <2>3. CASE stack.by = "nothing"
    BY <2>1, <2>3 DEF StackRendered
  <2>4. CASE stack.by # "nothing"
    <3>1. PICK S \in SUBSET Service, P \in SUBSET AvailableProfiles, labels \in BOOLEAN,
               project \in Projects \cup {DefaultProject} : StackIs(S, P, labels, project)
      BY <2>1, <2>4 DEF StackRendered
    <3>2. StackIs(S, P, labels, project)'
      BY <2>2, <3>1
    <3> QED
      BY <1>1, <3>1, <3>2, SameCatalog DEF StackRendered
  <2> QED
    BY <2>3, <2>4
<1> QED
  BY <1>2, <1>3, <1>4 DEF ComposeInv

(* A render keeps the invariant.                                            *)
LEMMA RenderKeeps ==
  ASSUME ComposeInv, NEW by, NEW S \in SUBSET Service, NEW P \in SUBSET AvailableProfiles,
         NEW flag, NEW project \in Projects \cup {DefaultProject},
         RenderToString(by, S, flag, project),
         by = "profiles" => P # {} /\ S = SelectServices(P)
  PROVE  ComposeInv'
<1> DEFINE labels == IF flag = "derived" THEN Router \in S ELSE flag = "yes"
<1>1. /\ descriptors' = descriptors /\ passed' = passed
      /\ stack' = [by |-> by, selected |-> S, labels |-> labels,
                   refused |-> Refuses(S, labels, HostGroups),
                   made |-> IF Refuses(S, labels, HostGroups) THEN NoStack
                            ELSE RenderCompose(S, labels, project)]
  BY DEF RenderToString
<1>2. labels \in BOOLEAN
  <2>1. (Router \in S) \in BOOLEAN /\ (flag = "yes") \in BOOLEAN
    OBVIOUS
  <2>2. QED
    BY <2>1, Zenon
<1> HIDE DEF labels
<1>3. StackIs(S, P, labels, project)'
  <2>1. /\ stack'.by = by /\ stack'.selected = S /\ stack'.labels = labels
        /\ stack'.refused = Refuses(S, labels, HostGroups)
        /\ ~stack'.refused => stack'.made = RenderCompose(S, labels, project)
    BY <1>1
  <2>2. QED
    BY <1>1, <2>1, SameCatalog DEF StackIs
<1>4. StackRendered'
  BY <1>1, <1>2, <1>3, SameCatalog DEF StackRendered
<1> QED
  BY <1>1, <1>4, CheckedStays DEF ComposeInv

(* Every step keeps the invariant.                                          *)
LEMMA ComposeInvStep ==
  ASSUME ComposeInv, [ComposeNext]_composeVars
  PROVE  ComposeInv'
<1>1. CASE UNCHANGED composeVars
  <2>1. descriptors' = descriptors /\ passed' = passed /\ stack' = stack
    BY <1>1 DEF composeVars
  <2>2. StackRendered'
    <3>1. StackRendered
      BY DEF ComposeInv
    <3>2. QED
      BY <2>1, <3>1, SameCatalog DEF StackRendered, StackIs
  <2>3. QED
    BY <2>1, <2>2, CheckedStays DEF ComposeInv
<1>2. ASSUME NEW profiles \in (SUBSET AvailableProfiles) \ {{}},
             NEW flag \in {"derived", "yes", "no"}, RenderProfiles(profiles, flag)
      PROVE  ComposeInv'
  <2>1. SelectServices(profiles) \in SUBSET Service
    BY DEF SelectServices
  <2>2. QED
    BY <1>2, <2>1, RenderKeeps DEF RenderProfiles
<1>3. ASSUME NEW S \in (SUBSET Service) \ {{}}, NEW flag \in {"derived", "yes", "no"},
             NEW project \in Projects, RenderScenario(S, flag, project)
      PROVE  ComposeInv'
  BY <1>3, RenderKeeps DEF RenderScenario
<1> QED
  BY <1>1, <1>2, <1>3, CheckKeeps DEF ComposeNext

(* The checks look at one profile at a time, and yet a commit that passes    *)
(* them renders whatever profiles the operator combines: a render is refused *)
(* for want of authelia or of a group of the host, and for nothing else.     *)
THEOREM ChecksCoverSelections == ComposeSpec => []CheckedRenders
<1>1. ASSUME ComposeInv, passed = "passed", stack.by = "profiles", stack.refused
      PROVE  \/ (stack.labels /\ Ungated(stack.selected) # {})
             \/ UnknownGroups(stack.selected, HostGroups) # {}
  <2>1. PICK S \in SUBSET Service, P \in SUBSET AvailableProfiles, labels \in BOOLEAN,
             project \in Projects \cup {DefaultProject} : StackIs(S, P, labels, project)
    BY <1>1 DEF ComposeInv, StackRendered
  <2>2. /\ P \in (SUBSET AvailableProfiles) \ {{}}
        /\ stack.selected = SelectServices(P) /\ stack.labels = labels
        /\ Refuses(SelectServices(P), labels, HostGroups)
    BY <1>1, <2>1 DEF StackIs
  <2>3. \A lane \in Lanes : SelectServices(lane) \in SUBSET Service
    BY DEF SelectServices
  <2>4. /\ AvailableProfiles = UNION Lanes
        /\ \A lane \in Lanes : ~Refuses(SelectServices(lane), FALSE, CiGroups)
    BY <1>1, <2>3 DEF ComposeInv, LanesChecked
  <2>5. QED
    BY <2>2, <2>4, LanesSuffice
<1>2. ComposeInv => CheckedRenders
  BY <1>1 DEF CheckedRenders
<1> QED
  BY <1>2, ComposeInvInit, ComposeInvStep, PTL DEF ComposeSpec

(* The edge shares with each service it routes to every network that Docker   *)
(* may give it, and with authelia one, whatever the project is called.       *)
THEOREM EdgeReachesRoutes == ComposeSpec => []RoutesReach
<1>1. ASSUME ComposeInv, stack.by # "nothing", ~stack.refused, Router \in stack.selected
      PROVE  LET networks == stack.made.networks
             IN \A s \in stack.made.routed :
                  /\ \A n \in IF stack.made.pinned[s] = {} THEN networks[s]
                              ELSE stack.made.pinned[s] :
                       n \in networks[s] \cap networks[Router]
                  /\ s \in stack.made.gated =>
                       Gate \in stack.made.services /\ networks[Gate] \cap networks[Router] # {}
  <2> DEFINE S == stack.selected
  <2>1. PICK project \in Projects \cup {DefaultProject} :
          /\ S \subseteq Service
          /\ ~Refuses(S, stack.labels, HostGroups)
          /\ stack.made = RenderCompose(S, stack.labels, project)
    BY <1>1 DEF ComposeInv, StackRendered, StackIs
  <2>2. /\ S \subseteq Service /\ descriptors \in Commits
        /\ stack.labels => Ungated(S) = {}
    <3> HIDE DEF S
    <3>1. descriptors \in Commits
      BY <1>1 DEF ComposeInv, FromCommit
    <3>2. QED
      BY <2>1, <3>1 DEF Refuses
  <2>3. \A s \in S : s \in {Router, Gate} \/ descriptors[s].chain # "none" =>
                       OnDefault(descriptors[s].networks)
    BY <2>2, CatalogAssumption DEF Service
  <2> DEFINE net == <<project, "default">>
  <2>4. \A s \in S : s \in {Router, Gate} \/ descriptors[s].chain # "none" =>
          /\ net \in NetworksOf(s, project)
          /\ Pinned(s, project) \in {{}, {net}}
          /\ Pinned(s, project) = {} => NetworksOf(s, project) = {net}
    BY <2>2, <2>3, RenderedOnDefault
  <2>5. /\ stack.made.services = S
        /\ stack.made.routed = RoutedOf(S, stack.labels)
        /\ stack.made.gated = {s \in RoutedOf(S, stack.labels) : descriptors[s].chain = "gated"}
        /\ \A s \in S : /\ stack.made.networks[s] = NetworksOf(s, project)
                        /\ stack.made.pinned[s] = Pinned(s, project)
    BY <2>1 DEF RenderCompose
  <2> HIDE DEF S, net
  <2>6. ASSUME NEW s \in stack.made.routed
        PROVE  /\ \A n \in IF stack.made.pinned[s] = {} THEN stack.made.networks[s]
                           ELSE stack.made.pinned[s] :
                    n \in stack.made.networks[s] \cap stack.made.networks[Router]
               /\ s \in stack.made.gated =>
                    /\ Gate \in stack.made.services
                    /\ stack.made.networks[Gate] \cap stack.made.networks[Router] # {}
    <3>1. s \in S /\ descriptors[s].chain # "none" /\ stack.labels
      BY <2>5 DEF RoutedOf
    <3>2. Router \in S /\ net \in stack.made.networks[Router]
      BY <1>1, <2>4, <2>5 DEF S
    <3>3. \A n \in IF stack.made.pinned[s] = {} THEN stack.made.networks[s]
                   ELSE stack.made.pinned[s] : n = net
      BY <2>4, <2>5, <3>1
    <3>4. net \in stack.made.networks[s]
      BY <2>4, <2>5, <3>1
    <3>5. ASSUME s \in stack.made.gated
          PROVE  Gate \in S /\ net \in stack.made.networks[Gate]
      <4>1. descriptors[s].chain = "gated"
        BY <2>5, <3>5
      <4>2. Gate \in S
        BY <2>2, <3>1, <4>1 DEF Ungated
      <4>3. QED
        BY <2>4, <2>5, <4>2
    <3>6. QED
      BY <2>5, <3>2, <3>3, <3>4, <3>5
  <2>7. QED
    BY <2>6
<1>2. ComposeInv => RoutesReach
  BY <1>1 DEF RoutesReach
<1> QED
  BY <1>2, ComposeInvInit, ComposeInvStep, PTL DEF ComposeSpec

-----------------------------------------------------------------------------
(***************************************************************************)
(* KubernetesRender                                                         *)
(***************************************************************************)

(* The result of a render is that of its descriptors; a strict one has no     *)
(* warning.                                                                 *)
RenderInv ==
  \/ rendered = NotRendered
  \/ /\ rendered.descriptors \in Catalogs
     /\ rendered.result = RenderKubernetes(rendered.descriptors)
     /\ rendered.strict => rendered.result.warnings = {}

-----------------------------------------------------------------------------
(* An argument is one of the descriptor's, or the provider that takes the     *)
(* place of Docker's.                                                       *)
LEMMA SwappedArgs ==
  ASSUME NEW d, NEW value \in Swapped(d)
  PROVE  value \in d.command \/ value = IngressProvider
BY DEF Swapped

(* The provider of Kubernetes is text.                                       *)
LEMMA ProviderIsText == \A i \in DOMAIN IngressProvider : IngressProvider[i].is = "text"
<1> DEFINE piece == [is |-> "text", name |-> "ingress", form |-> ""]
<1>1. piece.is = "text"
  OBVIOUS
<1> HIDE DEF piece
<1>2. \A i \in DOMAIN <<piece>> : <<piece>>[i] = piece
  OBVIOUS
<1>3. IngressProvider = <<piece>>
  BY DEF IngressProvider, piece
<1> QED
  BY <1>1, <1>2, <1>3

(* A secret in an argument that does not resolve has an entry of its name.    *)
LEMMA SecretsHaveEntries ==
  ASSUME NEW d, NEW name \in CommandSecrets(d)
  PROVE  \E e \in ContainerEnv(d) : e.name = name
<1> DEFINE own == {EnvEntry(d.env[i], KnownEnv(d)) : i \in DOMAIN d.env}
           added == {[name |-> n, from |-> "secret", key |-> n] :
                       n \in CommandSecrets(d) \ {e.name : e \in own}}
<1>1. ContainerEnv(d) = own \cup added
  BY DEF ContainerEnv
<1>2. CASE \E e \in own : e.name = name
  BY <1>1, <1>2
<1>3. CASE ~\E e \in own : e.name = name
  <2>1. [name |-> name, from |-> "secret", key |-> name] \in added
    BY <1>3
  <2>2. QED
    BY <1>1, <2>1
<1> QED
  BY <1>2, <1>3

(* What an argument becomes: text alone, or itself with its secrets as        *)
(* references.                                                              *)
LEMMA ArgForm ==
  ASSUME NEW value, NEW known, NEW arg, arg = ArgForKubernetes(value, known)
  PROVE  /\ Resolved(value, known) =>
              /\ Holes(arg) = {}
              /\ \A k \in DOMAIN arg : arg[k].is # "ref"
         /\ ~Resolved(value, known) =>
              /\ DOMAIN arg = DOMAIN value
              /\ Holes(arg) = Holes(value) \ Secrets(value)
              /\ \A k \in Secrets(value) : arg[k].name = value[k].name
              /\ \A k \in DOMAIN value \ Secrets(value) : arg[k] = value[k]
<1>1. ASSUME Resolved(value, known)
      PROVE  Holes(arg) = {} /\ \A k \in DOMAIN arg : arg[k].is # "ref"
  <2>1. arg = <<Text>>
    BY <1>1 DEF ArgForKubernetes
  <2>2. \A k \in DOMAIN arg : arg[k].is = "text"
    <3>1. Text.is = "text"
      BY DEF Text
    <3>2. \A k \in DOMAIN <<Text>> : <<Text>>[k] = Text
      OBVIOUS
    <3>3. QED
      BY <2>1, <3>1, <3>2
  <2>3. QED
    BY <2>2 DEF Holes
<1>2. ASSUME ~Resolved(value, known)
      PROVE  /\ DOMAIN arg = DOMAIN value
             /\ Holes(arg) = Holes(value) \ Secrets(value)
             /\ \A k \in Secrets(value) : arg[k].name = value[k].name
             /\ \A k \in DOMAIN value \ Secrets(value) : arg[k] = value[k]
  <2>1. arg = [i \in DOMAIN value |->
                 IF i \in Secrets(value) THEN Reference(value[i].name) ELSE value[i]]
    BY <1>2 DEF ArgForKubernetes
  <2>2. Secrets(value) \subseteq DOMAIN value
    BY DEF Secrets, Holes
  <2>3. \A k \in Secrets(value) : arg[k].is = "ref" /\ arg[k].name = value[k].name
    <3>1. \A n : Reference(n).is = "ref" /\ Reference(n).name = n
      BY DEF Reference
    <3>2. \A k \in Secrets(value) : arg[k] = Reference(value[k].name)
      BY <2>1, <2>2
    <3>3. QED
      BY <3>1, <3>2
  <2>4. \A k \in DOMAIN value \ Secrets(value) : arg[k] = value[k]
    BY <2>1
  <2>5. DOMAIN arg = DOMAIN value
    BY <2>1
  <2>6. Holes(arg) = Holes(value) \ Secrets(value)
    BY <2>3, <2>4, <2>5 DEF Holes
  <2>7. QED
    BY <2>3, <2>4, <2>5, <2>6
<1> QED
  BY <1>1, <1>2

(* A $(NAME) in an argument has its entry.                                   *)
LEMMA ReferencesHaveEntries ==
  ASSUME NEW ds \in Catalogs, NEW d \in ds, NEW arg \in CommandFor(d), NEW k \in DOMAIN arg,
         arg[k].is = "ref"
  PROVE  \E e \in ContainerEnv(d) : e.name = arg[k].name
<1>1. PICK value \in Swapped(d) : arg = ArgForKubernetes(value, KnownEnv(d))
  BY DEF CommandFor
<1>2. ~Resolved(value, KnownEnv(d)) /\ k \in DOMAIN value
  BY <1>1, ArgForm
<1>3. value \in d.command
  <2>1. CASE value = IngressProvider
    <3>1. \A i \in DOMAIN value : value[i].is = "text"
      BY <2>1, ProviderIsText
    <3>2. Secrets(value) = {}
      BY <3>1 DEF Secrets, Holes
    <3>3. arg[k] = value[k]
      BY <1>1, <1>2, <3>2, ArgForm
    <3>4. QED
      BY <1>2, <3>1, <3>3
  <2>2. QED
    BY <2>1, SwappedArgs
<1>4. k \in Secrets(value)
  <2>1. value[k].is # "ref"
    BY <1>2, <1>3, RenderAssumption
  <2>2. QED
    BY <1>1, <1>2, <2>1, ArgForm
<1>5. arg[k].name = value[k].name
  BY <1>1, <1>2, <1>4, ArgForm
<1>6. value[k].name \in CommandSecrets(d)
  BY <1>2, <1>3, <1>4 DEF CommandSecrets, UnresolvedArgs
<1> QED
  BY <1>5, <1>6, SecretsHaveEntries

(* A hole of an argument that resolves as a whole resolves alone.            *)
LEMMA ResolvesAlone ==
  ASSUME NEW value, NEW known, NEW j \in Holes(value), Resolved(value, known)
  PROVE  Resolved(<<value[j]>>, known)
<1> DEFINE parts == {Contribution(value[i], known, FALSE) : i \in DOMAIN value}
           alone == <<value[j]>>
<1>1. "unresolved" \notin parts
  <2>1. ASSUME "unresolved" \in parts PROVE Resolve(value, known, FALSE) = "unresolved"
    BY <2>1 DEF Resolve
  <2>2. QED
    BY <2>1 DEF Resolved
<1>2. Contribution(value[j], known, FALSE) # "unresolved"
  BY <1>1 DEF Holes
<1>3. {Contribution(alone[i], known, FALSE) : i \in DOMAIN alone}
        = {Contribution(value[j], known, FALSE)}
  <2>1. DOMAIN alone = {1} /\ alone[1] = value[j]
    OBVIOUS
  <2>2. QED
    BY <2>1
<1>4. ~(Cardinality(Holes(alone)) >= Rounds)
  <2>1. Holes(alone) = {1}
    BY DEF Holes
  <2>2. Cardinality(Holes(alone)) = 1
    BY <2>1, FS_Singleton
  <2>3. QED
    BY <2>2, RenderAssumption
<1> HIDE DEF alone
<1>5. Resolve(alone, known, FALSE) # "unresolved"
  BY <1>2, <1>3, <1>4 DEF Resolve
<1> QED
  BY <1>5 DEF Resolved, alone

(* A hole that stays in an argument is flagged, or it is beside a secret and  *)
(* would have resolved.                                                     *)
LEMMA HolesFlagged ==
  ASSUME NEW d, NEW arg \in CommandFor(d), Holes(arg) # {}
  PROVE  FlaggedArgs(d) # {} \/ Mixed(d)
<1>1. CASE ~Resolved(arg, KnownEnv(d))
  BY <1>1 DEF FlaggedArgs
<1>2. CASE Resolved(arg, KnownEnv(d))
  <2>1. PICK value \in Swapped(d) : arg = ArgForKubernetes(value, KnownEnv(d))
    BY DEF CommandFor
  <2>2. ~Resolved(value, KnownEnv(d))
    BY <2>1, ArgForm
  <2>3. /\ DOMAIN arg = DOMAIN value
        /\ Holes(arg) = Holes(value) \ Secrets(value)
        /\ \A k \in DOMAIN value \ Secrets(value) : arg[k] = value[k]
    BY <2>1, <2>2, ArgForm
  <2>4. PICK j \in Holes(arg) : TRUE
    OBVIOUS
  <2>5. arg[j] = value[j] /\ j \in Holes(value) \ Secrets(value) /\ j \in DOMAIN value
    BY <2>3 DEF Holes
  <2>6. value \in d.command
    <3>1. value # IngressProvider
      BY <2>5, ProviderIsText DEF Holes
    <3>2. QED
      BY <3>1, SwappedArgs
  <2>7. Secrets(value) # {}
    <3>1. ASSUME Secrets(value) = {} PROVE FALSE
      <4>1. arg = [i \in DOMAIN value |-> value[i]]
        BY <2>1, <2>2, <3>1 DEF ArgForKubernetes
      <4>2. \A i \in DOMAIN value : arg[i] = value[i]
        BY <4>1
      <4>3. /\ Holes(arg) = Holes(value)
            /\ {Contribution(arg[i], KnownEnv(d), FALSE) : i \in DOMAIN arg}
                 = {Contribution(value[i], KnownEnv(d), FALSE) : i \in DOMAIN value}
        BY <2>3, <3>1, <4>2
      <4>4. Resolve(arg, KnownEnv(d), FALSE) = Resolve(value, KnownEnv(d), FALSE)
        BY <4>3 DEF Resolve
      <4>5. QED
        BY <1>2, <2>2, <4>4 DEF Resolved
    <3>2. QED
      BY <3>1
  <2>8. Resolved(<<value[j]>>, KnownEnv(d))
    BY <1>2, <2>5, ResolvesAlone
  <2>9. QED
    BY <2>5, <2>6, <2>7, <2>8 DEF Mixed
<1> QED
  BY <1>1, <1>2

(* An entry whose text is passed on is flagged.                              *)
LEMMA RawFlagged ==
  ASSUME NEW d, NEW e \in ContainerEnv(d), e.from = "raw"
  PROVE  FlaggedEnv(d) # {}
<1>1. \E i \in DOMAIN d.env : e = EnvEntry(d.env[i], KnownEnv(d))
  BY DEF ContainerEnv
<1> QED
  BY <1>1 DEF FlaggedEnv

(* What is flagged has its warning.                                         *)
LEMMA FlagsWarn ==
  ASSUME NEW ds, NEW d \in ds, ~Omitted(d)
  PROVE  /\ FlaggedArgs(d) # {} =>
              Warn(d, "command-interpolation", "warning") \in RenderKubernetes(ds).warnings
         /\ FlaggedEnv(d) # {} =>
              Warn(d, "env-interpolation", "warning") \in RenderKubernetes(ds).warnings
<1>1. /\ FlaggedArgs(d) # {} => Warn(d, "command-interpolation", "warning") \in Warnings(d)
      /\ FlaggedEnv(d) # {} => Warn(d, "env-interpolation", "warning") \in Warnings(d)
  BY DEF Warnings, When
<1>2. Warnings(d) \subseteq RenderKubernetes(ds).warnings
  BY DEF RenderKubernetes
<1> QED
  BY <1>1, <1>2

-----------------------------------------------------------------------------
(* Nothing is rendered; a render is of its descriptors, and a check only      *)
(* looks at it.                                                             *)
LEMMA RenderInvHolds ==
  /\ RenderInit => RenderInv
  /\ RenderInv /\ [RenderNext]_renderVars => RenderInv'
<1>1. RenderInit => RenderInv
  BY DEF RenderInit, RenderInv
<1>2. ASSUME RenderInv, [RenderNext]_renderVars
      PROVE  RenderInv'
  <2>1. ASSUME NEW ds \in Catalogs, NEW strict \in BOOLEAN, Render(ds, strict)
        PROVE  RenderInv'
    <3>1. /\ rendered' = [descriptors |-> ds, result |-> RenderKubernetes(ds),
                          strict |-> strict]
          /\ strict => RenderKubernetes(ds).warnings = {}
      BY <2>1 DEF Render
    <3>2. /\ rendered'.descriptors = ds /\ rendered'.result = RenderKubernetes(ds)
          /\ rendered'.strict = strict
      BY <3>1
    <3>3. QED
      BY <3>1, <3>2 DEF RenderInv
  <2>2. ASSUME rendered' = rendered
        PROVE  RenderInv'
    BY <1>2, <2>2 DEF RenderInv
  <2>3. QED
    BY <1>2, <2>1, <2>2 DEF RenderNext, Check, renderVars
<1> QED
  BY <1>1, <1>2

(* No placeholder of a descriptor gets lost on its way to Kubernetes: a       *)
(* reference has its entry, a hole that stays is flagged, but for one beside *)
(* a secret that would have resolved alone.                                 *)
THEOREM NoPlaceholderLost == RenderSpec => []PlaceholdersAccounted
<1>1. ASSUME RenderInv, NEW p \in rendered.result.deployments
      PROVE  /\ \A arg \in p.args : \A k \in DOMAIN arg :
                  arg[k].is = "ref" => \E e \in p.env : e.name = arg[k].name
             /\ (\E arg \in p.args : Holes(arg) # {}) =>
                  \/ HasWarning(p.service, "command-interpolation") /\ ~rendered.strict
                  \/ \E d \in rendered.descriptors : d.name = p.service /\ Mixed(d)
             /\ (\E e \in p.env : e.from = "raw") =>
                  HasWarning(p.service, "env-interpolation") /\ ~rendered.strict
  <2>1. rendered # NotRendered
    BY <1>1 DEF NotRendered
  <2>2. PICK ds \in Catalogs : /\ rendered.descriptors = ds
                               /\ rendered.result = RenderKubernetes(ds)
                               /\ rendered.strict => rendered.result.warnings = {}
    BY <1>1, <2>1 DEF RenderInv
  <2>3. PICK d \in ds : ~Omitted(d) /\ p = Deployment(d)
    BY <1>1, <2>2 DEF RenderKubernetes
  <2>4. p.service = d.name /\ p.env = ContainerEnv(d) /\ p.args = CommandFor(d)
    BY <2>3 DEF Deployment
  <2>5. ASSUME NEW code, Warn(d, code, "warning") \in rendered.result.warnings
        PROVE  HasWarning(p.service, code) /\ ~rendered.strict
    <3>1. Warn(d, code, "warning").service = d.name /\ Warn(d, code, "warning").code = code
      BY DEF Warn
    <3>2. HasWarning(p.service, code)
      BY <2>4, <2>5, <3>1 DEF HasWarning
    <3>3. ~rendered.strict
      BY <2>2, <2>5
    <3>4. QED
      BY <3>2, <3>3
  <2>6. \A arg \in p.args : \A k \in DOMAIN arg :
          arg[k].is = "ref" => \E e \in p.env : e.name = arg[k].name
    BY <2>4, ReferencesHaveEntries
  <2>7. ASSUME NEW arg \in p.args, Holes(arg) # {}
        PROVE  \/ HasWarning(p.service, "command-interpolation") /\ ~rendered.strict
               \/ \E x \in rendered.descriptors : x.name = p.service /\ Mixed(x)
    <3>1. CASE FlaggedArgs(d) # {}
      BY <2>2, <2>3, <2>5, <3>1, FlagsWarn
    <3>2. CASE Mixed(d)
      BY <2>2, <2>4, <3>2
    <3>3. QED
      BY <2>4, <2>7, <3>1, <3>2, HolesFlagged
  <2>8. ASSUME NEW e \in p.env, e.from = "raw"
        PROVE  HasWarning(p.service, "env-interpolation") /\ ~rendered.strict
    <3>1. FlaggedEnv(d) # {}
      BY <2>4, <2>8, RawFlagged
    <3>2. QED
      BY <2>2, <2>3, <2>5, <3>1, FlagsWarn
  <2>9. QED
    BY <2>6, <2>7, <2>8
<1>2. RenderInv => PlaceholdersAccounted
  BY <1>1 DEF PlaceholdersAccounted
<1> QED
  BY <1>2, RenderInvHolds, PTL DEF RenderSpec

-----------------------------------------------------------------------------
(***************************************************************************)
(* DryRunEvidence                                                           *)
(***************************************************************************)

ProofFields == {"at", "ids", "cluster", "gpu", "reports", "report", "clean"}
OnTarget == proof.at \in {"render", "preflight", "apply", "report"}
Recording == proof.at \in {"metadata", "command", "summary", "checksums"}
HasReport == proof.at \in {"preflight", "apply", "report"}

EvidenceTyped ==
  /\ catalog \in Nat /\ proofs \in Nat /\ DOMAIN bundle = Artifact
  /\ \A a \in Artifact \ {<<"checksums">>} : bundle[a] \in Contents \cup {Absent, Damaged}
  /\ DOMAIN proof = ProofFields /\ proof.ids \in Seq(Target) /\ proof.reports \in Seq(Reports)
  /\ proof.cluster \in BOOLEAN /\ proof.gpu \in BOOLEAN
  /\ HasReport => proof.report \in Reports

(* A run takes its targets one after the other, each once.                   *)
RunInOrder ==
  /\ proof.at = "idle" \/ OnTarget \/ Recording
  /\ \A i, j \in DOMAIN proof.ids : proof.ids[i] = proof.ids[j] => i = j
  /\ OnTarget => Len(proof.reports) < Len(proof.ids)
  /\ Recording => Len(proof.reports) = Len(proof.ids)
  /\ proof.at # "idle" => \A i \in DOMAIN proof.reports : proof.reports[i].target = proof.ids[i]
  /\ HasReport => proof.report.target = Current

(* A report that says passed is of a manifest that was accepted, if the file    *)
(* is still the one that it names.                                           *)
Done == {proof.reports[i] : i \in DOMAIN proof.reports}

Proven(r) ==
  r.status = "passed" =>
    /\ r.manifest # Absent
    /\ bundle[Manifest(r.target)] = r.manifest => <<r.target, r.manifest>> \in accepted

RunProven ==
  proof.at # "idle" =>
    /\ \A r \in Done : Proven(r)
    /\ proof.at \in {"preflight", "apply"} =>
         proof.report.status = "failed" /\ proof.report.manifest # Absent
    /\ proof.at = "report" => Proven(proof.report)
    /\ proof.at = "checksums" =>
         Summary \in {Absent, Damaged} \/ (Summary.ids = proof.ids /\ Summary.reports = proof.reports)

(* What the checksums seal is a whole run: its summary and its manifests.      *)
SealedProven ==
  Checksums \notin {Absent, Damaged} =>
    LET s == Checksums[<<"summary">>]
    IN <<"summary">> \in DOMAIN Checksums /\ s \notin {Absent, Damaged} =>
         \A i \in DOMAIN s.ids :
           /\ s.reports[i].status = "passed"
           /\ Manifest(s.ids[i]) \in DOMAIN Checksums
           /\ Checksums[Manifest(s.ids[i])] = s.reports[i].manifest
           => <<s.ids[i], s.reports[i].manifest>> \in accepted

EvidenceInv == EvidenceTyped /\ RunInOrder /\ RunProven /\ SealedProven

-----------------------------------------------------------------------------
(* The files of targets have names of their own.                            *)
LEMMA FilesDiffer ==
  /\ \A t, u : Manifest(t) = Manifest(u) => t = u
  /\ \A t, u : Report(t) = Report(u) => t = u
  /\ \A t, u : Manifest(t) # Report(u)
  /\ \A t : /\ Manifest(t) \notin {<<"command">>, <<"metadata">>, <<"summary">>, <<"checksums">>}
            /\ Report(t) \notin {<<"command">>, <<"metadata">>, <<"summary">>, <<"checksums">>}
  BY DEF Manifest, Report

(* So have the files of a run.                                              *)
LEMMA RunFilesDiffer ==
  /\ <<"command">> # <<"metadata">> /\ <<"command">> # <<"summary">>
  /\ <<"command">> # <<"checksums">> /\ <<"metadata">> # <<"summary">>
  /\ <<"metadata">> # <<"checksums">> /\ <<"summary">> # <<"checksums">>
  OBVIOUS

(* All of them are artifacts of the bundle.                                 *)
LEMMA AreArtifacts ==
  /\ \A t \in Target : Manifest(t) \in Artifact /\ Report(t) \in Artifact
  /\ {<<"command">>, <<"metadata">>, <<"summary">>, <<"checksums">>} \subseteq Artifact
  BY DEF Artifact, FilesOf

(* The targets a command asks for are a sequence of them without duplicates.    *)
LEMMA Selected ==
  ASSUME NEW names, NEW ids \in SelectTargets(names)
  PROVE  /\ ids \in Seq(Target)
         /\ \A i, j \in DOMAIN ids : ids[i] = ids[j] => i = j
<1>1. CASE names = <<>>
  BY <1>1, EvidenceAssumption DEF SelectTargets
<1>2. CASE names # <<>>
  BY <1>2 DEF SelectTargets
<1> QED BY <1>1, <1>2

(* The target at work is one that is not done yet.                          *)
LEMMA CurrentIsTarget ==
  ASSUME EvidenceTyped, RunInOrder, OnTarget
  PROVE  /\ Len(proof.reports) + 1 \in DOMAIN proof.ids /\ Current \in Target
         /\ \A i \in DOMAIN proof.reports : proof.ids[i] # Current
<1>1. Len(proof.reports) \in Nat /\ DOMAIN proof.reports = 1..Len(proof.reports)
      /\ Len(proof.ids) \in Nat /\ DOMAIN proof.ids = 1..Len(proof.ids)
  BY DEF EvidenceTyped
<1>2. Len(proof.reports) + 1 \in DOMAIN proof.ids
  BY <1>1 DEF RunInOrder
<1>3. Current \in Target
  BY <1>2 DEF Current, EvidenceTyped
<1>4. \A i \in DOMAIN proof.reports : i \in DOMAIN proof.ids /\ i # Len(proof.reports) + 1
  BY <1>1 DEF RunInOrder
<1> QED BY <1>2, <1>3, <1>4 DEF Current, RunInOrder

(* There is no run and no bundle yet.                                       *)
LEMMA EvidenceInitInv == EvidenceInit => EvidenceInv
  BY DEF EvidenceInit, NoProof, EvidenceInv, EvidenceTyped, RunInOrder, RunProven, SealedProven,
         Done, ProofFields, OnTarget, Recording, HasReport, Checksums, Artifact

-----------------------------------------------------------------------------
(* What a cluster has accepted stays so; the seal is of its own time.          *)
LEMMA SealKept ==
  ASSUME SealedProven, Checksums' = Checksums, accepted \subseteq accepted'
  PROVE  SealedProven'
  BY DEF SealedProven

(* What was proven stays so while its manifest is as it is, or is lost.         *)
LEMMA ProvenKept ==
  ASSUME EvidenceTyped, NEW r \in Reports, Proven(r), accepted \subseteq accepted',
         bundle'[Manifest(r.target)] \in {bundle[Manifest(r.target)], Absent, Damaged}
  PROVE  Proven(r)'
<1>1. r.manifest # Absent => r.manifest \notin {Absent, Damaged}
  BY EvidenceAssumption DEF Reports, Contents
<1> QED BY <1>1 DEF Proven

(* A step that writes one file which is no manifest of a report made so far.    *)
LEMMA OthersProven ==
  ASSUME EvidenceInv, proof.at # "idle", NEW a, NEW content,
         bundle' = [bundle EXCEPT ![a] = content], accepted \subseteq accepted',
         \A r \in Done : a # Manifest(r.target)
  PROVE  \A r \in Done : Proven(r)'
<1> SUFFICES ASSUME NEW r \in Done PROVE Proven(r)'
  OBVIOUS
<1>1. r \in Reports /\ Proven(r)
  BY DEF EvidenceInv, EvidenceTyped, RunProven, Done
<1>2. Manifest(r.target) \in Artifact
  BY <1>1, AreArtifacts DEF Reports
<1>3. bundle'[Manifest(r.target)] = bundle[Manifest(r.target)]
  BY <1>2 DEF EvidenceInv, EvidenceTyped
<1> QED BY <1>1, <1>3, ProvenKept DEF EvidenceInv

(* A run begins with its targets chosen and nothing reported.               *)
LEMMA BeginProofInv ==
  ASSUME EvidenceInv, NEW args \in Invocations, BeginProof(args)
  PROVE  EvidenceInv'
<1>1. PICK ids \in SelectTargets(args.asked) :
        proof' = [NoProof EXCEPT !.at = IF ids = <<>> THEN "metadata" ELSE "render", !.ids = ids,
                                 !.cluster = args.cluster, !.gpu = args.gpu]
  BY DEF BeginProof
<1>2. /\ ids \in Seq(Target)
      /\ \A i, j \in DOMAIN ids : ids[i] = ids[j] => i = j
  BY Selected
<1>3. /\ DOMAIN proof' = ProofFields /\ proof'.at \in {"metadata", "render"} /\ proof'.ids = ids
      /\ proof'.at = IF ids = <<>> THEN "metadata" ELSE "render"
      /\ proof'.cluster = args.cluster /\ proof'.gpu = args.gpu /\ proof'.reports = <<>>
  BY <1>1 DEF NoProof, ProofFields
<1>4. UNCHANGED <<catalog, bundle, accepted>> /\ proofs' \in Nat
  BY DEF BeginProof, EvidenceInv, EvidenceTyped
<1>5. EvidenceTyped'
  BY <1>2, <1>3, <1>4, EvidenceAssumption DEF EvidenceInv, EvidenceTyped, HasReport
<1>6. RunInOrder'
  BY <1>2, <1>3 DEF RunInOrder, OnTarget, Recording, HasReport
<1>7. RunProven'
  BY <1>3 DEF RunProven, Done
<1> QED BY <1>4, <1>5, <1>6, <1>7, SealKept DEF EvidenceInv, Checksums

(* A rendered manifest is not accepted before a cluster says so.            *)
LEMMA RenderTargetInv ==
  ASSUME EvidenceInv, RenderTarget
  PROVE  EvidenceInv'
<1> DEFINE t == Current
<1>1. t \in Target /\ \A i \in DOMAIN proof.reports : proof.ids[i] # t
  BY CurrentIsTarget DEF EvidenceInv, RenderTarget, OnTarget
<1>2. Manifest(t) \in Artifact /\ RenderedManifest(t) \in Manifests
  BY <1>1, AreArtifacts DEF RenderedManifest, Manifests, EvidenceInv, EvidenceTyped
<1>3. /\ bundle' = [bundle EXCEPT ![Manifest(t)] = RenderedManifest(t)]
      /\ bundle'[Manifest(t)] = RenderedManifest(t)
      /\ UNCHANGED <<catalog, proofs, accepted>>
  BY <1>2 DEF RenderTarget, Wrote, EvidenceInv, EvidenceTyped
<1>4. /\ proof' = [proof EXCEPT !.at = IF proof.gpu THEN "preflight" ELSE "apply",
                                !.report = [Unproven EXCEPT !.manifest = RenderedManifest(t)]]
      /\ proof.at = "render"
  BY <1>3 DEF RenderTarget
<1> HIDE DEF t
<1>5. /\ DOMAIN proof' = ProofFields /\ proof'.at \in {"preflight", "apply"}
      /\ proof'.ids = proof.ids /\ proof'.reports = proof.reports
      /\ proof'.cluster = proof.cluster /\ proof'.gpu = proof.gpu
      /\ proof'.report = [Unproven EXCEPT !.manifest = RenderedManifest(t)]
  BY <1>4 DEF EvidenceInv, EvidenceTyped, ProofFields
<1>6. /\ proof'.report.target = t /\ proof'.report.status = "failed"
      /\ proof'.report.manifest = RenderedManifest(t) /\ proof'.report \in Reports
  BY <1>1, <1>2, <1>5 DEF Unproven, Reports, t
<1>7. EvidenceTyped'
  BY <1>2, <1>3, <1>5, <1>6, FilesDiffer DEF EvidenceInv, EvidenceTyped, Contents
<1>8. RunInOrder'
  BY <1>4, <1>5, <1>6 DEF EvidenceInv, RunInOrder, OnTarget, Recording, HasReport, Current, t
<1>9. RunProven'
  <2>1. \A r \in Done : Manifest(t) # Manifest(r.target)
    BY <1>1, <1>4, FilesDiffer DEF EvidenceInv, RunInOrder, Done
  <2>3. \A r \in Done : Proven(r)'
    BY <1>3, <1>4, <2>1, OthersProven
  <2>4. Done' = Done
    BY <1>5 DEF Done
  <2>2. proof'.report.manifest # Absent
    BY <1>2, <1>6, EvidenceAssumption DEF Contents
  <2> QED BY <1>5, <1>6, <2>2, <2>3, <2>4 DEF RunProven, Proven
<1>10. Checksums' = Checksums
  BY <1>3, FilesDiffer, AreArtifacts DEF Checksums, EvidenceInv, EvidenceTyped
<1> QED BY <1>3, <1>7, <1>8, <1>9, <1>10, SealKept DEF EvidenceInv

(* A step that only tells how the current target fares.                      *)
LEMMA ReportStep ==
  ASSUME EvidenceInv, OnTarget, UNCHANGED <<bundle, catalog, proofs>>, accepted \subseteq accepted',
         DOMAIN proof' = DOMAIN proof, proof'.ids = proof.ids, proof'.reports = proof.reports,
         proof'.cluster = proof.cluster, proof'.gpu = proof.gpu, proof'.at \in {"apply", "report"},
         proof'.report \in Reports, proof'.report.target = Current,
         proof'.at = "apply" => proof'.report.status = "failed" /\ proof'.report.manifest # Absent,
         proof'.at = "report" => Proven(proof.report)'
  PROVE  EvidenceInv'
<1>1. EvidenceTyped'
  BY DEF EvidenceInv, EvidenceTyped
<1>2. RunInOrder'
  BY DEF EvidenceInv, RunInOrder, OnTarget, Recording, HasReport, Current
<1>3. \A r \in Done : Proven(r)'
  <2> SUFFICES ASSUME NEW r \in Done PROVE Proven(r)'
    OBVIOUS
  <2>1. r \in Reports /\ Proven(r)
    BY DEF Done, EvidenceInv, EvidenceTyped, RunProven, OnTarget
  <2> QED BY <2>1, ProvenKept DEF EvidenceInv
<1>4. Done' = Done
  BY DEF Done
<1>5. RunProven'
  BY <1>3, <1>4 DEF RunProven
<1> QED BY <1>1, <1>2, <1>5, SealKept DEF EvidenceInv, Checksums

(* A target that does not render is reported as failed.                     *)
LEMMA RenderFailsInv ==
  ASSUME EvidenceInv, RenderFails
  PROVE  EvidenceInv'
<1>1. OnTarget /\ UNCHANGED <<bundle, catalog, proofs, accepted>>
  BY DEF RenderFails, OnTarget
<1>2. proof' = [proof EXCEPT !.at = "report", !.report = Unproven]
  BY DEF RenderFails
<1>3. /\ DOMAIN proof' = DOMAIN proof /\ proof'.ids = proof.ids /\ proof'.reports = proof.reports
      /\ proof'.cluster = proof.cluster /\ proof'.gpu = proof.gpu /\ proof'.at = "report"
      /\ proof'.report = Unproven
  BY <1>2 DEF EvidenceInv, EvidenceTyped, ProofFields
<1>4. Current \in Target
  BY <1>1, CurrentIsTarget DEF EvidenceInv
<1>5. Unproven \in Reports /\ Unproven.target = Current /\ Unproven.status = "failed"
  BY <1>4 DEF Unproven, Reports
<1>6. Proven(proof.report)'
  BY <1>3, <1>5 DEF Proven
<1> QED BY <1>1, <1>3, <1>5, <1>6, ReportStep

(* A host without kubectl reports the target as skipped.                    *)
LEMMA NoKubectlInv ==
  ASSUME EvidenceInv, NoKubectl
  PROVE  EvidenceInv'
<1>1. OnTarget /\ HasReport /\ UNCHANGED <<bundle, catalog, proofs, accepted>>
  BY DEF NoKubectl, OnTarget, HasReport
<1>2. proof.report \in Reports /\ proof.report.target = Current
  BY <1>1 DEF EvidenceInv, EvidenceTyped, RunInOrder
<1>3. /\ DOMAIN proof' = DOMAIN proof /\ proof'.ids = proof.ids /\ proof'.reports = proof.reports
      /\ proof'.cluster = proof.cluster /\ proof'.gpu = proof.gpu /\ proof'.at = "report"
      /\ proof'.report = [proof.report EXCEPT !.status = "skipped",
                                              !.gpu = IF proof.gpu THEN "skipped" ELSE "none"]
  BY DEF NoKubectl, EvidenceInv, EvidenceTyped, ProofFields
<1>4. /\ proof'.report \in Reports /\ proof'.report.target = Current
      /\ proof'.report.status = "skipped"
  BY <1>2, <1>3 DEF Reports
<1>5. Proven(proof.report)'
  BY <1>4 DEF Proven
<1> QED BY <1>1, <1>3, <1>4, <1>5, ReportStep

(* The preflight leaves the report failed, skipped or as it was.            *)
LEMMA PreflightInv ==
  ASSUME EvidenceInv, NEW answer \in Answers, Preflight(answer)
  PROVE  EvidenceInv'
<1> DEFINE outcome == Outcome(answer)
<1>1. OnTarget /\ HasReport /\ UNCHANGED <<bundle, catalog, proofs, accepted>>
  BY DEF Preflight, OnTarget, HasReport
<1>2. /\ proof.report \in Reports /\ proof.report.target = Current
      /\ proof.report.status = "failed" /\ proof.report.manifest # Absent
  BY <1>1 DEF EvidenceInv, EvidenceTyped, RunInOrder, RunProven, Preflight
<1>3. outcome \in {"passed", "skipped", "failed"}
  BY DEF Outcome
<1>4. /\ DOMAIN proof' = DOMAIN proof /\ proof'.ids = proof.ids /\ proof'.reports = proof.reports
      /\ proof'.cluster = proof.cluster /\ proof'.gpu = proof.gpu
      /\ proof'.at = IF outcome = "passed" THEN "apply" ELSE "report"
      /\ proof'.report = [proof.report EXCEPT !.gpu = outcome,
            !.status = IF outcome = "passed" THEN proof.report.status ELSE outcome]
  BY DEF Preflight, EvidenceInv, EvidenceTyped, ProofFields
<1> HIDE DEF outcome
<1>5. /\ proof'.report \in Reports /\ proof'.report.target = Current
      /\ proof'.report.status # "passed" /\ proof'.report.manifest # Absent
      /\ proof'.at = "apply" => proof'.report.status = "failed"
  BY <1>2, <1>3, <1>4 DEF Reports
<1>6. Proven(proof.report)'
  BY <1>5 DEF Proven
<1> QED BY <1>1, <1>4, <1>5, <1>6, ReportStep

(* The one way to a report that says passed.                                *)
LEMMA ServerDryRunInv ==
  ASSUME EvidenceInv, NEW answer \in Answers, ServerDryRun(answer)
  PROVE  EvidenceInv'
<1>1. OnTarget /\ HasReport /\ UNCHANGED <<bundle, catalog, proofs>> /\ accepted \subseteq accepted'
  BY DEF ServerDryRun, OnTarget, HasReport
<1>2. /\ proof.report \in Reports /\ proof.report.target = Current
      /\ proof.report.manifest # Absent
  BY <1>1 DEF EvidenceInv, EvidenceTyped, RunInOrder, RunProven, ServerDryRun
<1>3. /\ DOMAIN proof' = DOMAIN proof /\ proof'.ids = proof.ids /\ proof'.reports = proof.reports
      /\ proof'.cluster = proof.cluster /\ proof'.gpu = proof.gpu /\ proof'.at = "report"
      /\ proof'.report = [proof.report EXCEPT !.status = Outcome(answer)]
  BY DEF ServerDryRun, EvidenceInv, EvidenceTyped, ProofFields
<1>4. /\ proof'.report \in Reports /\ proof'.report.target = Current
      /\ proof'.report.manifest = proof.report.manifest /\ proof'.report.status = Outcome(answer)
  BY <1>2, <1>3 DEF Reports, Outcome
<1>5. Outcome(answer) = "passed" => <<Current, bundle[Manifest(Current)]>> \in accepted'
  BY DEF Outcome, ServerDryRun, Answers
<1>6. Proven(proof.report)'
  BY <1>1, <1>2, <1>4, <1>5 DEF Proven
<1> QED BY <1>1, <1>3, <1>4, <1>6, ReportStep

(* A report that is written is that of the target at work.                  *)
LEMMA WriteTargetReportInv ==
  ASSUME EvidenceInv, WriteTargetReport
  PROVE  EvidenceInv'
<1>1. proof.at = "report" /\ OnTarget /\ HasReport /\ UNCHANGED <<catalog, proofs, accepted>>
  BY DEF WriteTargetReport, OnTarget, HasReport
<1>2. proof.report \in Reports /\ proof.report.target = Current /\ Proven(proof.report)
  BY <1>1 DEF EvidenceInv, EvidenceTyped, RunInOrder, RunProven
<1>3. /\ DOMAIN proof' = ProofFields /\ proof'.ids = proof.ids
      /\ proof'.cluster = proof.cluster /\ proof'.gpu = proof.gpu
      /\ proof'.at = IF Len(proof.reports) + 1 = Len(proof.ids) THEN "metadata" ELSE "render"
      /\ proof'.reports = Append(proof.reports, proof.report)
  BY DEF WriteTargetReport, EvidenceInv, EvidenceTyped, ProofFields
<1>4. bundle' = [bundle EXCEPT ![Report(Current)] = proof.report]
  BY DEF WriteTargetReport, Wrote
<1>5. /\ proof.reports \in Seq(Reports) /\ Len(proof.reports) \in Nat
      /\ proof'.reports \in Seq(Reports) /\ Len(proof'.reports) = Len(proof.reports) + 1
      /\ \A i \in DOMAIN proof.reports : proof'.reports[i] = proof.reports[i]
      /\ proof'.reports[Len(proof.reports) + 1] = proof.report
      /\ DOMAIN proof'.reports = 1..(Len(proof.reports) + 1)
      /\ DOMAIN proof.reports = 1..Len(proof.reports)
  BY <1>2, <1>3, AppendProperties DEF EvidenceInv, EvidenceTyped
<1>6. EvidenceTyped'
  BY <1>1, <1>2, <1>3, <1>4, <1>5 DEF EvidenceInv, EvidenceTyped, HasReport, Contents
<1>7. RunInOrder'
  <2>1. Len(proof'.reports) <= Len(proof'.ids) /\ Len(proof.ids) \in Nat
    BY <1>1, <1>3, <1>5 DEF EvidenceInv, EvidenceTyped, RunInOrder
  <2>2. \A i \in DOMAIN proof'.reports : proof'.reports[i].target = proof'.ids[i]
    BY <1>1, <1>2, <1>3, <1>5 DEF EvidenceInv, RunInOrder, Current
  <2> QED BY <1>3, <1>5, <2>1, <2>2 DEF EvidenceInv, RunInOrder, OnTarget, Recording, HasReport
<1>8. RunProven'
  <2>0. proof.at # "idle" /\ \A r \in Done : Report(Current) # Manifest(r.target)
    BY <1>1, FilesDiffer
  <2>1. \A r \in Done : Proven(r)'
    BY <1>1, <1>4, <2>0, OthersProven
  <2>2. Done' = Done \cup {proof.report}
    <3>1. Done' = {proof'.reports[i] : i \in 1..(Len(proof.reports) + 1)}
      BY <1>5 DEF Done
    <3>2. Done = {proof.reports[i] : i \in 1..Len(proof.reports)}
      BY <1>5 DEF Done
    <3>3. 1..(Len(proof.reports) + 1) = 1..Len(proof.reports) \cup {Len(proof.reports) + 1}
      BY <1>5
    <3>4. \A i \in 1..Len(proof.reports) : proof'.reports[i] = proof.reports[i]
      BY <1>5
    <3>5. proof'.reports[Len(proof.reports) + 1] = proof.report
      BY <1>5
    <3> QED BY <3>1, <3>2, <3>3, <3>4, <3>5
  <2>3. bundle'[Manifest(Current)] = bundle[Manifest(Current)]
    BY <1>1, <1>4, FilesDiffer, CurrentIsTarget, AreArtifacts DEF EvidenceInv, EvidenceTyped
  <2>4. \A r \in {proof.report} : Proven(r)'
    BY <1>1, <1>2, <2>3 DEF Proven
  <2> QED BY <1>3, <2>1, <2>2, <2>4 DEF RunProven
<1>9. Checksums' = Checksums
  BY <1>4, FilesDiffer, AreArtifacts DEF Checksums, EvidenceInv, EvidenceTyped
<1> QED BY <1>1, <1>6, <1>7, <1>8, <1>9, SealKept DEF EvidenceInv

(* A step that writes a file of the run and goes on.                         *)
LEMMA RecordStep ==
  ASSUME EvidenceInv, NEW a \in {<<"metadata">>, <<"command">>, <<"summary">>},
         NEW content \in Contents, bundle' = [bundle EXCEPT ![a] = content],
         UNCHANGED <<catalog, proofs, accepted>>, Recording,
         NEW next \in {"command", "summary", "checksums"}, proof' = [proof EXCEPT !.at = next],
         next = "checksums" => a = <<"summary">> /\ content.ids = proof.ids
                                                /\ content.reports = proof.reports
  PROVE  EvidenceInv'
<1>1. /\ DOMAIN proof' = ProofFields /\ proof'.ids = proof.ids /\ proof'.reports = proof.reports
      /\ proof'.cluster = proof.cluster /\ proof'.gpu = proof.gpu /\ proof'.at = next
  BY DEF EvidenceInv, EvidenceTyped, ProofFields
<1>2. a \in Artifact /\ a # <<"checksums">>
  BY AreArtifacts, RunFilesDiffer
<1>3. EvidenceTyped'
  BY <1>1, <1>2 DEF EvidenceInv, EvidenceTyped, HasReport
<1>4. RunInOrder'
  BY <1>1 DEF EvidenceInv, RunInOrder, OnTarget, Recording, HasReport
<1>5. RunProven'
  <2>1. proof.at # "idle" /\ \A r \in Done : a # Manifest(r.target)
    BY FilesDiffer DEF Recording
  <2>2. \A r \in Done : Proven(r)'
    BY <2>1, OthersProven
  <2>3. Done' = Done
    BY <1>1 DEF Done
  <2>4. next = "checksums" => Summary' = content
    BY <1>2 DEF Summary, EvidenceInv, EvidenceTyped
  <2> QED BY <1>1, <2>2, <2>3, <2>4 DEF RunProven
<1>6. Checksums' = Checksums
  BY <1>2, AreArtifacts DEF Checksums, EvidenceInv, EvidenceTyped
<1> QED BY <1>3, <1>4, <1>5, <1>6, SealKept DEF EvidenceInv

(* A run is fine or it is not.                                              *)
LEMMA FineIsBoolean ==
  ASSUME NEW reports, NEW cluster
  PROVE  AllFine(reports, cluster) \in BOOLEAN
  BY DEF AllFine

(* The records of a run keep the invariant.                                 *)
LEMMA RecordsInv ==
  ASSUME EvidenceInv, WriteMetadata \/ WriteProofCommand \/ WriteSummary
  PROVE  EvidenceInv'
<1>1. ProofCommand \in Commands /\ [run |-> proofs] \in Metadata
  BY DEF ProofCommand, Commands, Metadata, EvidenceInv, EvidenceTyped
<1>2. CASE WriteMetadata
  BY <1>1, <1>2, RecordStep DEF WriteMetadata, Wrote, Contents, Recording
<1>3. CASE WriteProofCommand
  BY <1>1, <1>3, RecordStep DEF WriteProofCommand, Wrote, Contents, Recording
<1>4. CASE WriteSummary
  <2> DEFINE summary == [ok |-> AllFine(proof.reports, proof.cluster), ids |-> proof.ids,
                         cluster |-> proof.cluster, reports |-> proof.reports,
                         command |-> ProofCommand, metadata |-> [run |-> proofs]]
  <2>1. summary \in Summaries
    BY <1>1, FineIsBoolean DEF Summaries, EvidenceInv, EvidenceTyped
  <2>2. summary.ids = proof.ids /\ summary.reports = proof.reports
    OBVIOUS
  <2>3. /\ bundle' = [bundle EXCEPT ![<<"summary">>] = summary]
        /\ proof' = [proof EXCEPT !.at = "checksums"] /\ proof.at = "summary"
        /\ UNCHANGED <<catalog, proofs, accepted>>
    BY <1>4 DEF WriteSummary, Wrote
  <2> HIDE DEF summary
  <2> QED BY <2>1, <2>2, <2>3, RecordStep DEF Contents, Recording
<1> QED BY <1>2, <1>3, <1>4

(* Checksums seal what the bundle holds.                                    *)
LEMMA WriteChecksumsInv ==
  ASSUME EvidenceInv, WriteChecksums
  PROVE  EvidenceInv'
<1>1. /\ proof.at = "checksums" /\ proof' = NoProof /\ UNCHANGED <<catalog, proofs, accepted>>
      /\ bundle' = [bundle EXCEPT ![<<"checksums">>] = [a \in Listed |-> bundle[a]]]
  BY DEF WriteChecksums
<1>2. EvidenceTyped' /\ RunInOrder' /\ RunProven'
  BY <1>1 DEF NoProof, EvidenceInv, EvidenceTyped, RunInOrder, RunProven, ProofFields, OnTarget,
              Recording, HasReport
<1>3. Checksums' = [a \in Listed |-> bundle[a]]
  BY <1>1, AreArtifacts DEF Checksums, EvidenceInv, EvidenceTyped
<1>4. SealedProven'
  <2> SUFFICES ASSUME <<"summary">> \in Listed, Summary \notin {Absent, Damaged},
                      NEW i \in DOMAIN Summary.ids, Summary.reports[i].status = "passed",
                      Manifest(Summary.ids[i]) \in Listed,
                      bundle[Manifest(Summary.ids[i])] = Summary.reports[i].manifest
               PROVE  <<Summary.ids[i], Summary.reports[i].manifest>> \in accepted
    BY <1>1, <1>3 DEF SealedProven, Summary
  <2>1. Summary.ids = proof.ids /\ Summary.reports = proof.reports
    BY <1>1 DEF EvidenceInv, RunProven
  <2>2. i \in DOMAIN proof.reports
    BY <1>1, <2>1 DEF EvidenceInv, EvidenceTyped, RunInOrder, Recording
  <2>3. proof.reports[i].target = proof.ids[i] /\ Proven(proof.reports[i])
    BY <1>1, <2>2 DEF EvidenceInv, RunInOrder, RunProven, Done
  <2> QED BY <2>1, <2>3 DEF Proven
<1> QED BY <1>2, <1>4 DEF EvidenceInv

(* A damaged file proves nothing.                                           *)
LEMMA DamageInv ==
  ASSUME EvidenceInv, NEW a \in Artifact, Damage(a)
  PROVE  EvidenceInv'
<1>1. PICK lost \in {Absent, Damaged} : bundle' = [bundle EXCEPT ![a] = lost]
  BY DEF Damage, Wrote
<1>2. UNCHANGED <<catalog, proofs, accepted>> /\ proof' = [proof EXCEPT !.clean = FALSE]
  BY DEF Damage
<1>3. /\ DOMAIN proof' = ProofFields /\ proof'.ids = proof.ids /\ proof'.reports = proof.reports
      /\ proof'.cluster = proof.cluster /\ proof'.gpu = proof.gpu /\ proof'.at = proof.at
      /\ proof'.report = proof.report
  BY <1>2 DEF EvidenceInv, EvidenceTyped, ProofFields
<1>4. \A b \in Artifact : bundle'[b] \in {bundle[b], Absent, Damaged}
  BY <1>1 DEF EvidenceInv, EvidenceTyped
<1>5. EvidenceTyped'
  BY <1>1, <1>2, <1>3, <1>4 DEF EvidenceInv, EvidenceTyped, HasReport
<1>6. RunInOrder'
  BY <1>3 DEF EvidenceInv, RunInOrder, OnTarget, Recording, HasReport, Current
<1>7. \A r \in Reports : Proven(r) => Proven(r)'
  BY <1>2, <1>4, ProvenKept, AreArtifacts DEF EvidenceInv, Reports
<1>8. RunProven'
  <2> SUFFICES ASSUME proof.at # "idle" PROVE RunProven'
    BY <1>3 DEF RunProven
  <2>1. Done' = Done /\ Done \subseteq Reports /\ (HasReport => proof.report \in Reports)
    BY <1>3 DEF Done, EvidenceInv, EvidenceTyped
  <2>2. \A r \in Done : Proven(r)'
    BY <1>7, <2>1 DEF EvidenceInv, RunProven
  <2>3. proof.at = "report" => \A r \in {proof.report} : Proven(r)'
    BY <1>7, <2>1 DEF EvidenceInv, RunProven, HasReport
  <2>4. Summary' \in {Summary, Absent, Damaged}
    BY <1>4, AreArtifacts DEF Summary
  <2>5. proof.at = "report" => Proven(proof.report)'
    BY <1>3, <2>3 DEF Proven
  <2> QED BY <1>3, <2>1, <2>2, <2>4, <2>5 DEF EvidenceInv, RunProven
<1>9. SealedProven'
  <2>1. Checksums' \in {Checksums, Absent, Damaged}
    BY <1>4, AreArtifacts DEF Checksums
  <2> QED BY <1>2, <2>1 DEF EvidenceInv, SealedProven
<1> QED BY <1>5, <1>6, <1>8, <1>9 DEF EvidenceInv

(* Every step keeps the invariant.                                          *)
LEMMA EvidenceStep == EvidenceInv /\ [EvidenceNext]_evidenceVars => EvidenceInv'
<1> SUFFICES ASSUME EvidenceInv, [EvidenceNext]_evidenceVars PROVE EvidenceInv'
  OBVIOUS
<1>1. CASE UNCHANGED <<bundle, proof, accepted>> /\ catalog' \in Nat /\ proofs' = proofs
  <2>1. bundle' = bundle /\ proof' = proof /\ accepted' = accepted
    BY <1>1
  <2>2. EvidenceTyped'
    BY <1>1, <2>1 DEF EvidenceInv, EvidenceTyped, HasReport
  <2>3. RunInOrder'
    BY <2>1 DEF EvidenceInv, RunInOrder, OnTarget, Recording, HasReport, Current
  <2>4. RunProven'
    BY <2>1 DEF EvidenceInv, RunProven, Proven, Done, Summary
  <2>5. SealedProven'
    BY <2>1 DEF EvidenceInv, SealedProven, Checksums
  <2> QED BY <2>2, <2>3, <2>4, <2>5 DEF EvidenceInv
<1>2. CASE UNCHANGED evidenceVars
  BY <1>1, <1>2 DEF evidenceVars, EvidenceInv, EvidenceTyped
<1>3. CASE CatalogChanges
  BY <1>1, <1>3 DEF CatalogChanges, EvidenceInv, EvidenceTyped
<1>4. ASSUME NEW args \in Invocations, BeginProof(args) PROVE EvidenceInv'
  BY <1>4, BeginProofInv
<1>5. CASE RenderTarget \/ RenderFails \/ NoKubectl
  BY <1>5, RenderTargetInv, RenderFailsInv, NoKubectlInv
<1>6. ASSUME NEW answer \in Answers, Preflight(answer) \/ ServerDryRun(answer) PROVE EvidenceInv'
  BY <1>6, PreflightInv, ServerDryRunInv
<1>7. CASE WriteTargetReport \/ WriteMetadata \/ WriteProofCommand \/ WriteSummary \/ WriteChecksums
  BY <1>7, WriteTargetReportInv, RecordsInv, WriteChecksumsInv
<1>8. CASE KillProof
  <2>1. UNCHANGED <<catalog, bundle, proofs, accepted>> /\ proof' = NoProof
    BY <1>8 DEF KillProof
  <2>2. /\ DOMAIN proof' = ProofFields /\ proof'.at = "idle" /\ proof'.ids = <<>>
        /\ proof'.reports = <<>> /\ proof'.cluster = FALSE /\ proof'.gpu = FALSE
    BY <2>1 DEF NoProof, ProofFields
  <2>3. <<>> \in Seq(Target) /\ <<>> \in Seq(Reports)
    OBVIOUS
  <2>4. EvidenceTyped'
    BY <2>1, <2>2, <2>3 DEF EvidenceInv, EvidenceTyped, HasReport
  <2>5. RunInOrder' /\ RunProven'
    BY <2>2 DEF RunInOrder, RunProven, OnTarget, Recording, HasReport
  <2>6. SealedProven'
    BY <2>1 DEF EvidenceInv, SealedProven, Checksums
  <2> QED BY <2>4, <2>5, <2>6 DEF EvidenceInv
<1>9. ASSUME NEW a \in Artifact, Damage(a) PROVE EvidenceInv'
  BY <1>9, DamageInv
<1> QED BY <1>2, <1>3, <1>4, <1>5, <1>6, <1>7, <1>8, <1>9 DEF EvidenceNext

(* In a bundle that verifies, a target that is called passed is one whose       *)
(* manifest a cluster has accepted, whatever runs were killed in its directory   *)
(* and whatever files they left or lost.                                      *)
THEOREM VerifiedWasAccepted == EvidenceSpec => []PassedWasProven
<1>1. EvidenceInv => PassedWasProven
  <2> SUFFICES ASSUME EvidenceInv, Verified, NEW i \in DOMAIN Summary.ids,
                      Summary.reports[i].status = "passed"
               PROVE  <<Summary.ids[i], bundle[Manifest(Summary.ids[i])]>> \in accepted
    BY DEF PassedWasProven
  <2>1. bundle[Manifest(Summary.ids[i])] = Summary.reports[i].manifest
    BY DEF Verified, ManifestsMatch
  <2>2. <<"summary">> \in DOMAIN Checksums /\ Manifest(Summary.ids[i]) \in DOMAIN Checksums
    BY DEF Verified, RequiredListed, FilesOf, ToSet
  <2>3. /\ Checksums[<<"summary">>] = Summary
        /\ Checksums[Manifest(Summary.ids[i])] = Summary.reports[i].manifest
    BY <2>1, <2>2 DEF Verified, ChecksumsMatch, Summary
  <2>4. Checksums \notin {Absent, Damaged} /\ Summary \notin {Absent, Damaged}
    BY DEF Verified, ChecksumsMatch
  <2>5. <<Summary.ids[i], Summary.reports[i].manifest>> \in accepted
    BY <2>2, <2>3, <2>4 DEF EvidenceInv, SealedProven
  <2> QED BY <2>1, <2>5
<1> QED BY <1>1, EvidenceInitInv, EvidenceStep, PTL DEF EvidenceSpec

-----------------------------------------------------------------------------
(* What a run leaves when nothing disturbs it.                               *)

RunSummary ==
  [ok |-> AllFine(proof.reports, proof.cluster), ids |-> proof.ids, cluster |-> proof.cluster,
   reports |-> proof.reports, command |-> ProofCommand, metadata |-> [run |-> proofs]]

Kept(r) ==
  /\ bundle[Report(r.target)] = r
  /\ r.manifest = Absent \/ bundle[Manifest(r.target)] = r.manifest

CleanRun ==
  proof.clean /\ proof.at # "idle" =>
    /\ \A r \in Done : Kept(r)
    /\ HasReport =>
         proof.report.manifest = Absent \/ bundle[Manifest(Current)] = proof.report.manifest
    /\ proof.at \in {"command", "summary", "checksums"} => bundle[<<"metadata">>] = [run |-> proofs]
    /\ proof.at \in {"summary", "checksums"} => bundle[<<"command">>] = ProofCommand
    /\ proof.at = "checksums" => Summary = RunSummary

(* A step that writes a file of none of the targets done.                     *)
LEMMA OthersKept ==
  ASSUME EvidenceInv, NEW a, NEW content, bundle' = [bundle EXCEPT ![a] = content],
         \A r \in Done : Kept(r),
         \A r \in Done : a # Manifest(r.target) /\ a # Report(r.target)
  PROVE  \A r \in Done : Kept(r)'
<1> SUFFICES ASSUME NEW r \in Done PROVE Kept(r)'
  OBVIOUS
<1>1. r \in Reports
  BY DEF Done, EvidenceInv, EvidenceTyped
<1>2. Manifest(r.target) \in Artifact /\ Report(r.target) \in Artifact
  BY <1>1, AreArtifacts DEF Reports
<1> QED BY <1>2 DEF Kept, EvidenceInv, EvidenceTyped

(* A manifest that is rendered disturbs no target that is done.             *)
LEMMA RenderTargetClean ==
  ASSUME EvidenceInv, CleanRun, RenderTarget
  PROVE  CleanRun'
<1> DEFINE t == Current
<1>1. t \in Target /\ \A i \in DOMAIN proof.reports : proof.ids[i] # t
  BY CurrentIsTarget DEF EvidenceInv, RenderTarget, OnTarget
<1>2. /\ bundle' = [bundle EXCEPT ![Manifest(t)] = RenderedManifest(t)]
      /\ proof.at = "render"
  BY DEF RenderTarget, Wrote
<1>3. /\ proof'.at \in {"preflight", "apply"} /\ proof'.ids = proof.ids
      /\ proof'.reports = proof.reports /\ proof'.clean = proof.clean
      /\ proof'.report.manifest = bundle'[Manifest(t)]
  BY DEF RenderTarget, EvidenceInv, EvidenceTyped, ProofFields, Unproven
<1>4. Current' = t
  BY <1>3 DEF Current
<1> HIDE DEF t
<1>5. \A r \in Done : Manifest(t) # Manifest(r.target) /\ Manifest(t) # Report(r.target)
  BY <1>1, <1>2, FilesDiffer DEF EvidenceInv, RunInOrder, Done
<1>6. proof.clean => \A r \in Done : Kept(r)'
  BY <1>2, <1>5, OthersKept DEF CleanRun
<1>7. Done' = Done
  BY <1>3 DEF Done
<1> QED BY <1>3, <1>4, <1>6, <1>7 DEF CleanRun

(* The steps that only fill the report in disturb no file.                  *)
LEMMA ReportStepsClean ==
  ASSUME EvidenceInv, CleanRun,
         RenderFails \/ NoKubectl
           \/ (\E answer \in Answers : Preflight(answer) \/ ServerDryRun(answer))
  PROVE  CleanRun'
<1> DEFINE Reported == /\ bundle' = bundle /\ proof.at # "idle" /\ proof'.ids = proof.ids
                         /\ proof'.reports = proof.reports /\ proof'.clean = proof.clean
                         /\ proof'.at \in {"apply", "report"}
<1>1. Reported
  <2>1. CASE RenderFails
    BY <2>1 DEF RenderFails, EvidenceInv, EvidenceTyped, ProofFields
  <2>2. CASE NoKubectl
    BY <2>2 DEF NoKubectl, EvidenceInv, EvidenceTyped, ProofFields
  <2>3. ASSUME NEW answer \in Answers, Preflight(answer)
        PROVE  Reported
    BY <2>3 DEF Preflight, EvidenceInv, EvidenceTyped, ProofFields
  <2>4. ASSUME NEW answer \in Answers, ServerDryRun(answer)
        PROVE  Reported
    BY <2>4 DEF ServerDryRun, EvidenceInv, EvidenceTyped, ProofFields
  <2> QED BY <2>1, <2>2, <2>3, <2>4
<1>2. \/ proof'.report.manifest = Absent
      \/ HasReport /\ proof'.report.manifest = proof.report.manifest
  <2>1. CASE RenderFails
    BY <2>1 DEF RenderFails, Unproven, EvidenceInv, EvidenceTyped, ProofFields
  <2>2. CASE NoKubectl \/ (\E answer \in Answers : Preflight(answer) \/ ServerDryRun(answer))
    <3>1. HasReport /\ proof.report \in Reports
      BY <2>2 DEF NoKubectl, Preflight, ServerDryRun, HasReport, EvidenceInv, EvidenceTyped
    <3>2. CASE NoKubectl
      <4>1. proof'.report = [proof.report EXCEPT !.status = "skipped",
                                                 !.gpu = IF proof.gpu THEN "skipped" ELSE "none"]
        BY <3>2 DEF NoKubectl, EvidenceInv, EvidenceTyped, ProofFields
      <4> QED BY <3>1, <4>1 DEF Reports
    <3>3. ASSUME NEW answer \in Answers, Preflight(answer)
          PROVE  proof'.report.manifest = proof.report.manifest
      <4> DEFINE outcome == Outcome(answer)
      <4>1. proof'.report = [proof.report EXCEPT !.gpu = outcome,
                 !.status = IF outcome = "passed" THEN proof.report.status ELSE outcome]
        BY <3>3 DEF Preflight, EvidenceInv, EvidenceTyped, ProofFields
      <4> HIDE DEF outcome
      <4> QED BY <3>1, <4>1 DEF Reports
    <3>4. ASSUME NEW answer \in Answers, ServerDryRun(answer)
          PROVE  proof'.report.manifest = proof.report.manifest
      <4>1. proof'.report = [proof.report EXCEPT !.status = Outcome(answer)]
        BY <3>4 DEF ServerDryRun, EvidenceInv, EvidenceTyped, ProofFields
      <4> QED BY <3>1, <4>1 DEF Reports
    <3> QED BY <2>2, <3>1, <3>2, <3>3, <3>4
  <2> QED BY <2>1, <2>2
<1>3. Done' = Done /\ Current' = Current
  BY <1>1 DEF Done, Current
<1>4. proof.clean => \A r \in Done : Kept(r)'
  BY <1>1 DEF CleanRun, Kept
<1> QED BY <1>1, <1>2, <1>3, <1>4 DEF CleanRun

(* A report that is written is that of a whole target.                      *)
LEMMA WriteTargetReportClean ==
  ASSUME EvidenceInv, CleanRun, WriteTargetReport
  PROVE  CleanRun'
<1>1. proof.at = "report" /\ OnTarget /\ HasReport
  BY DEF WriteTargetReport, OnTarget, HasReport
<1>2. proof.report \in Reports /\ proof.report.target = Current /\ Current \in Target
  BY <1>1, CurrentIsTarget DEF EvidenceInv, EvidenceTyped, RunInOrder
<1>3. /\ proof'.at \in {"metadata", "render"} /\ proof'.clean = proof.clean
      /\ proof'.reports = Append(proof.reports, proof.report)
      /\ bundle' = [bundle EXCEPT ![Report(Current)] = proof.report]
  BY DEF WriteTargetReport, Wrote, EvidenceInv, EvidenceTyped, ProofFields
<1>4. Done' = Done \cup {proof.report}
  <2>1. /\ Len(proof.reports) \in Nat /\ DOMAIN proof.reports = 1..Len(proof.reports)
        /\ \A i \in DOMAIN proof.reports : proof'.reports[i] = proof.reports[i]
        /\ proof'.reports[Len(proof.reports) + 1] = proof.report
        /\ DOMAIN proof'.reports = 1..(Len(proof.reports) + 1)
    BY <1>2, <1>3, AppendProperties DEF EvidenceInv, EvidenceTyped
  <2> QED BY <2>1 DEF Done
<1>5. \A r \in Done : Report(Current) # Manifest(r.target) /\ Report(Current) # Report(r.target)
  BY <1>1, FilesDiffer, CurrentIsTarget DEF EvidenceInv, RunInOrder, Done
<1>6. proof.clean => \A r \in Done : Kept(r)'
  BY <1>1, <1>3, <1>5, OthersKept DEF CleanRun
<1>7. proof.clean => \A r \in {proof.report} : Kept(r)'
  BY <1>1, <1>2, <1>3, FilesDiffer, AreArtifacts DEF CleanRun, Kept, EvidenceInv, EvidenceTyped
<1> QED BY <1>3, <1>4, <1>6, <1>7 DEF CleanRun, HasReport

(* The records are written beside the files of the targets.                 *)
LEMMA RecordsClean ==
  ASSUME EvidenceInv, CleanRun, WriteMetadata \/ WriteProofCommand \/ WriteSummary
  PROVE  CleanRun'
<1>1. /\ proof.at # "idle" /\ proof'.ids = proof.ids /\ proof'.reports = proof.reports
      /\ proof'.clean = proof.clean /\ proof'.cluster = proof.cluster /\ proof'.gpu = proof.gpu
      /\ proofs' = proofs
  BY DEF WriteMetadata, WriteProofCommand, WriteSummary, EvidenceInv, EvidenceTyped, ProofFields
<1>2. Done' = Done /\ RunSummary' = RunSummary /\ ProofCommand' = ProofCommand
  BY <1>1 DEF Done, RunSummary, ProofCommand
<1>3. ASSUME NEW a \in {<<"metadata">>, <<"command">>, <<"summary">>}, NEW content,
             bundle' = [bundle EXCEPT ![a] = content], proof.clean
      PROVE  \A r \in Done : Kept(r)'
  <2>1. \A r \in Done : Kept(r)
    BY <1>1, <1>3 DEF CleanRun
  <2>2. \A r \in Done : r.target \in Target
    <3>1. \A i \in DOMAIN proof.reports : proof.reports[i] \in Reports
      BY DEF EvidenceInv, EvidenceTyped
    <3>2. \A r \in Reports : r.target \in Target
      BY DEF Reports
    <3> QED BY <3>1, <3>2 DEF Done
  <2>3. \A r \in Done : a # Manifest(r.target) /\ a # Report(r.target)
    BY <1>3, <2>2, FilesDiffer
  <2> QED BY <1>3, <2>1, <2>3, OthersKept
<1>4. CASE WriteMetadata
  <2>1. bundle' = [bundle EXCEPT ![<<"metadata">>] = [run |-> proofs]] /\ proof'.at = "command"
    BY <1>4 DEF WriteMetadata, Wrote, EvidenceInv, EvidenceTyped, ProofFields
  <2>2. proof.clean => \A r \in Done : Kept(r)'
    BY <1>3, <2>1
  <2>3. bundle'[<<"metadata">>] = [run |-> proofs]
    BY <2>1, AreArtifacts DEF EvidenceInv, EvidenceTyped
  <2> QED BY <1>1, <1>2, <2>1, <2>2, <2>3 DEF CleanRun, HasReport
<1>5. CASE WriteProofCommand
  <2>1. /\ bundle' = [bundle EXCEPT ![<<"command">>] = ProofCommand] /\ proof'.at = "summary"
        /\ proof.at = "command"
    BY <1>5 DEF WriteProofCommand, Wrote, EvidenceInv, EvidenceTyped, ProofFields
  <2>2. proof.clean => \A r \in Done : Kept(r)'
    BY <1>3, <2>1
  <2>3. bundle'[<<"command">>] = ProofCommand /\ bundle'[<<"metadata">>] = bundle[<<"metadata">>]
    BY <2>1, AreArtifacts, RunFilesDiffer DEF EvidenceInv, EvidenceTyped
  <2> QED BY <1>1, <1>2, <2>1, <2>2, <2>3 DEF CleanRun, HasReport
<1>6. CASE WriteSummary
  <2>1. /\ bundle' = [bundle EXCEPT ![<<"summary">>] = RunSummary] /\ proof'.at = "checksums"
        /\ proof.at = "summary"
    BY <1>6 DEF WriteSummary, Wrote, RunSummary, EvidenceInv, EvidenceTyped, ProofFields
  <2>2. proof.clean => \A r \in Done : Kept(r)'
    BY <1>3, <2>1
  <2>3. /\ bundle'[<<"summary">>] = RunSummary /\ bundle'[<<"metadata">>] = bundle[<<"metadata">>]
        /\ bundle'[<<"command">>] = bundle[<<"command">>]
    BY <2>1, AreArtifacts, RunFilesDiffer DEF EvidenceInv, EvidenceTyped
  <2> QED BY <1>1, <1>2, <2>1, <2>2, <2>3 DEF CleanRun, HasReport, Summary
<1> QED BY <1>4, <1>5, <1>6

(* The seal of a run that nothing disturbed.                                 *)
LEMMA SealVerifies ==
  ASSUME EvidenceInv, CleanRun, WriteChecksums, proof.clean,
         \A r \in Done : r.manifest # Absent
  PROVE  Verified'
<1>1. /\ proof.at = "checksums" /\ Recording
      /\ bundle' = [bundle EXCEPT ![<<"checksums">>] = [a \in Listed |-> bundle[a]]]
  BY DEF WriteChecksums, Recording
<1>2. \A a \in Artifact \ {<<"checksums">>} : bundle'[a] = bundle[a]
  BY <1>1 DEF EvidenceInv, EvidenceTyped
<1>3. Checksums' = [a \in Listed |-> bundle[a]]
  BY <1>1, AreArtifacts DEF Checksums, EvidenceInv, EvidenceTyped
<1>4. /\ Summary = RunSummary /\ bundle[<<"metadata">>] = [run |-> proofs]
      /\ bundle[<<"command">>] = ProofCommand /\ \A r \in Done : Kept(r)
  BY <1>1 DEF CleanRun
<1>5. /\ Summary' = RunSummary /\ bundle'[<<"metadata">>] = [run |-> proofs]
      /\ bundle'[<<"command">>] = ProofCommand
  BY <1>2, <1>4, AreArtifacts, RunFilesDiffer DEF Summary
<1>6. /\ proof.ids \in Seq(Target) /\ proof.reports \in Seq(Reports)
      /\ DOMAIN proof.reports = DOMAIN proof.ids
      /\ \A i \in DOMAIN proof.ids : proof.reports[i].target = proof.ids[i] /\ proof.ids[i] \in Target
                                     /\ proof.reports[i] \in Done
  BY <1>1 DEF EvidenceInv, EvidenceTyped, RunInOrder, Recording, Done
<1>7. \A i \in DOMAIN proof.ids :
        /\ bundle[Report(proof.ids[i])] = proof.reports[i]
        /\ bundle[Manifest(proof.ids[i])] = proof.reports[i].manifest
  BY <1>4, <1>6 DEF Kept
<1>8. ProofCommand \in Commands /\ [run |-> proofs] \in Metadata /\ RunSummary \in Summaries
  <2>1. ProofCommand \in Commands /\ [run |-> proofs] \in Metadata
    BY DEF ProofCommand, Commands, Metadata, EvidenceInv, EvidenceTyped
  <2> QED BY <2>1, FineIsBoolean DEF RunSummary, Summaries, EvidenceInv, EvidenceTyped
<1>9. \A a \in FilesOf(ToSet(proof.ids)) : a \in Artifact \ {<<"checksums">>} /\ bundle[a] # Absent
  <2>1. \A i \in DOMAIN proof.ids :
          bundle[Report(proof.ids[i])] # Absent /\ bundle[Manifest(proof.ids[i])] # Absent
    <3>1. \A r \in Done : r \in Reports
      BY <1>6 DEF Done
    <3>2. Absent \notin Reports
      BY EvidenceAssumption DEF Contents
    <3> QED BY <1>6, <1>7, <3>1, <3>2
  <2>2. /\ bundle[<<"command">>] # Absent /\ bundle[<<"metadata">>] # Absent
        /\ bundle[<<"summary">>] # Absent
    BY <1>4, <1>8, EvidenceAssumption DEF Contents, Summary
  <2> QED BY <1>6, <2>1, <2>2, FilesDiffer, RunFilesDiffer, AreArtifacts DEF FilesOf, ToSet
<1>10. Listed = FilesOf(ToSet(proof.ids))
  BY <1>9 DEF Listed, Present
<1>11. Checksums' \notin {Absent, Damaged}
  <2>1. Listed \in SUBSET Artifact /\ \A a \in Listed : bundle[a] \in Contents \cup {Damaged}
    BY <1>9, <1>10 DEF EvidenceInv, EvidenceTyped
  <2>2. Checksums' \in [Listed -> Contents \cup {Damaged}]
    BY <1>3, <2>1
  <2> QED BY <2>1, <2>2, EvidenceAssumption
<1>12. ChecksumsMatch'
  BY <1>2, <1>3, <1>9, <1>10, <1>11 DEF ChecksumsMatch
<1>13. RunSummary.ids = proof.ids /\ RunSummary.reports = proof.reports
  BY DEF RunSummary
<1>14. RequiredListed'
  <2>1. \A a \in Listed : bundle'[a] # Absent /\ a \in Artifact
    BY <1>2, <1>9, <1>10
  <2>2. FilesOf(ToSet(proof.ids)) \subseteq Present' \cap DOMAIN Checksums'
    BY <1>3, <1>10, <2>1 DEF Present
  <2>3. ToSet(Summary.ids)' = ToSet(proof.ids)
    BY <1>5, <1>13 DEF ToSet
  <2>4. FilesOf(ToSet(Summary.ids))' = FilesOf(ToSet(proof.ids))
    BY <2>3 DEF FilesOf
  <2> QED BY <2>2, <2>4 DEF RequiredListed
<1>15. SummaryConsistent'
  <2>1. proof.ids = [i \in DOMAIN proof.reports |-> proof.reports[i].target]
    BY <1>6
  <2>2. /\ RunSummary.ids = [i \in DOMAIN RunSummary.reports |-> RunSummary.reports[i].target]
        /\ RunSummary.command.ids = RunSummary.ids
        /\ RunSummary.command.cluster = RunSummary.cluster
        /\ RunSummary.ok = AllFine(RunSummary.reports, RunSummary.cluster)
    BY <2>1 DEF RunSummary, ProofCommand
  <2> QED BY <1>5, <2>2 DEF SummaryConsistent, AllFine
<1>16. RecordsMatch'
  BY <1>5 DEF RecordsMatch, RunSummary
<1>17. ReportsMatch' /\ ManifestsMatch'
  <2>1. \A i \in DOMAIN proof.ids :
          /\ bundle'[Report(proof.ids[i])] = proof.reports[i]
          /\ bundle'[Manifest(proof.ids[i])] = proof.reports[i].manifest
    BY <1>2, <1>6, <1>7, AreArtifacts, FilesDiffer
  <2>2. Summary'.ids = proof.ids /\ Summary'.reports = proof.reports
    BY <1>5, <1>13
  <2>3. ReportsMatch'
    BY <2>1, <2>2 DEF ReportsMatch, Report
  <2>4. ManifestsMatch'
    BY <2>1, <2>2 DEF ManifestsMatch, Manifest
  <2> QED BY <2>3, <2>4
<1>18. Summary' \notin {Absent, Damaged}
  BY <1>5, <1>8, EvidenceAssumption DEF Contents
<1> QED BY <1>12, <1>14, <1>15, <1>16, <1>17, <1>18 DEF Verified

(* Every step of a run that nothing disturbs keeps its files.               *)
LEMMA CleanStep ==
  EvidenceInv /\ CleanRun /\ [EvidenceNext]_evidenceVars => CleanRun'
<1> SUFFICES ASSUME EvidenceInv, CleanRun, [EvidenceNext]_evidenceVars PROVE CleanRun'
  OBVIOUS
<1>1. CASE UNCHANGED <<bundle, proof, proofs>>
  BY <1>1 DEF CleanRun, Kept, Done, HasReport, Current, ProofCommand, RunSummary, Summary, AllFine
<1>2. CASE UNCHANGED evidenceVars \/ CatalogChanges
  BY <1>1, <1>2 DEF evidenceVars, CatalogChanges
<1>3. ASSUME NEW args \in Invocations, BeginProof(args) PROVE CleanRun'
  <2>1. proof'.at \in {"metadata", "render"} /\ proof'.reports = <<>>
    BY <1>3 DEF BeginProof, NoProof
  <2> QED BY <2>1 DEF CleanRun, Done, HasReport
<1>4. CASE RenderTarget
  BY <1>4, RenderTargetClean
<1>5. CASE RenderFails \/ NoKubectl
             \/ (\E answer \in Answers : Preflight(answer) \/ ServerDryRun(answer))
  BY <1>5, ReportStepsClean
<1>6. CASE WriteTargetReport \/ WriteMetadata \/ WriteProofCommand \/ WriteSummary
  BY <1>6, WriteTargetReportClean, RecordsClean
<1>7. CASE WriteChecksums \/ KillProof
  BY <1>7 DEF WriteChecksums, KillProof, NoProof, CleanRun
<1>8. ASSUME NEW a \in Artifact, Damage(a) PROVE CleanRun'
  <2>1. ~proof'.clean
    BY <1>8 DEF Damage, EvidenceInv, EvidenceTyped, ProofFields
  <2> QED BY <2>1 DEF CleanRun
<1> QED BY <1>2, <1>3, <1>4, <1>5, <1>6, <1>7, <1>8 DEF EvidenceNext

(* Every step keeps a completed bundle verifiable until it is touched.      *)
LEMMA CompletedStep ==
  EvidenceInv /\ CleanRun /\ CompletedVerifies /\ [EvidenceNext]_evidenceVars => CompletedVerifies'
<1> SUFFICES ASSUME EvidenceInv, CleanRun, CompletedVerifies, [EvidenceNext]_evidenceVars
             PROVE  CompletedVerifies'
  OBVIOUS
<1>1. ASSUME UNCHANGED <<bundle, settled>> PROVE CompletedVerifies'
  <2>1. Summary' = Summary /\ Checksums' = Checksums /\ Present' = Present
    BY <1>1 DEF Summary, Checksums, Present
  <2>2. (ChecksumsMatch <=> ChecksumsMatch') /\ (RecordsMatch <=> RecordsMatch')
    BY <1>1, <2>1 DEF ChecksumsMatch, RecordsMatch
  <2>3. SummaryConsistent => SummaryConsistent'
    BY <2>1 DEF SummaryConsistent, AllFine
  <2>4. RequiredListed => RequiredListed'
    BY <2>1 DEF RequiredListed, FilesOf, ToSet
  <2>5. (ReportsMatch => ReportsMatch') /\ (ManifestsMatch => ManifestsMatch')
    BY <1>1, <2>1 DEF ReportsMatch, ManifestsMatch, Report, Manifest
  <2>6. Verified => Verified'
    BY <2>1, <2>2, <2>3, <2>4, <2>5 DEF Verified
  <2> QED BY <1>1, <2>1, <2>6 DEF CompletedVerifies
<1>2. ASSUME settled' = FALSE PROVE CompletedVerifies'
  BY <1>2 DEF CompletedVerifies
<1>3. CASE WriteChecksums
  <2>1. /\ settled' = proof.clean /\ proof.at = "checksums"
        /\ bundle' = [bundle EXCEPT ![<<"checksums">>] = [a \in Listed |-> bundle[a]]]
    BY <1>3 DEF WriteChecksums
  <2>2. Summary' = Summary
    BY <2>1, AreArtifacts, RunFilesDiffer DEF Summary, EvidenceInv, EvidenceTyped
  <2>3. proof.clean => Summary.reports = proof.reports
    BY <2>1 DEF CleanRun, RunSummary
  <2>4. proof.clean /\ (\A i \in DOMAIN Summary'.reports : Summary'.reports[i].manifest # Absent)
          => \A r \in Done : r.manifest # Absent
    BY <2>2, <2>3 DEF Done
  <2> QED BY <1>3, <2>1, <2>4, SealVerifies DEF CompletedVerifies
<1>4. CASE RenderTarget \/ WriteTargetReport \/ WriteMetadata \/ WriteProofCommand \/ WriteSummary
             \/ (\E a \in Artifact : Damage(a))
  BY <1>2, <1>4 DEF RenderTarget, WriteTargetReport, WriteMetadata, WriteProofCommand, WriteSummary,
                    Damage, Wrote
<1>5. CASE RenderFails \/ NoKubectl \/ KillProof \/ CatalogChanges \/ UNCHANGED evidenceVars
             \/ (\E answer \in Answers : Preflight(answer) \/ ServerDryRun(answer))
             \/ (\E args \in Invocations : BeginProof(args))
  BY <1>1, <1>5 DEF RenderFails, NoKubectl, KillProof, CatalogChanges, evidenceVars, Preflight,
                    ServerDryRun, BeginProof
<1> QED BY <1>3, <1>4, <1>5 DEF EvidenceNext

(* What a run leaves when it completes does verify, also in a directory that     *)
(* another run has used before.                                              *)
THEOREM CompletedBundlesVerify == EvidenceSpec => []CompletedVerifies
<1>1. EvidenceInit => CleanRun /\ CompletedVerifies
  BY DEF EvidenceInit, NoProof, CleanRun, CompletedVerifies
<1> QED BY <1>1, EvidenceInitInv, EvidenceStep, CleanStep, CompletedStep, PTL DEF EvidenceSpec
=============================================================================
