---- MODULE MCInstall ----
(***************************************************************************)
(* The two halves of an install: the wizard up to the configuration it      *)
(* hands over, and the screen that installs it. The screen cares for no     *)
(* detail of the configuration, so a behaviour runs one half.               *)
(***************************************************************************)
EXTENDS SetupWizard, InstallRun, TLC

CONSTANT Parts

VARIABLE part

-----------------------------------------------------------------------------
(* A slice of the catalog: a stack of two services that needs three         *)
(* capabilities, an interface that consumes an LLM, two model servers and   *)
(* two vector stores.                                                       *)
Names == <<"dify-api", "dify-worker", "llama-embed", "llama-llm", "openwebui", "postgres",
           "qdrant", "weaviate">>
Dify == {"dify-api", "dify-worker"}
MCService == {Names[i] : i \in DOMAIN Names}
MCRank == [s \in Service |-> CHOOSE i \in DOMAIN Names : Names[i] = s]
MCSortKey == [MCRank EXCEPT !["qdrant"] = 0]
PerService(f) == [s \in Service |-> IF s \in DOMAIN f THEN f[s] ELSE {}]
MCDependsOn == PerService([s \in Dify |-> {"postgres"}])
MCProvides ==
  PerService(("llama-llm" :> {"llm"}) @@ ("llama-embed" :> {"embedding"})
             @@ ("qdrant" :> {"vector"}) @@ ("weaviate" :> {"vector"}) @@ ("postgres" :> {"sql"}))
MCConsumes ==
  PerService([s \in Dify |-> {"llm", "embedding", "vector"}] @@ ("openwebui" :> {"llm"}))
MCStackOf == PerService([s \in Dify |-> {"dify"}])
MCStackNeeds == [dify |-> {"llm", "embedding", "vector", "sql"}]
MCCrossProfile == (Dify \X {"llm", "embedding"}) \cup {<<"openwebui", "llm">>}
MCServiceOf == [llm |-> "llama-llm", embed |-> "llama-embed"]
MCDepartments ==
  <<<<"dify-api", "dify-worker", "openwebui">>,
    <<"postgres", "qdrant", "weaviate", "llama-embed", "llama-llm">>>>
MCDefaults == {"llama-llm", "llama-embed", "qdrant"}

MCSteps == <<"env", "models", "deploy">>

-----------------------------------------------------------------------------
InstallInit == part \in Parts /\ WizardInit /\ RunInit

InstallNext ==
  /\ UNCHANGED part
  /\ \/ part = "wizard" /\ WizardNext /\ UNCHANGED runVars
     \/ part = "screen" /\ RunNext /\ UNCHANGED wizardVars

(* In the wizard's behaviours no action of the screen with a fairness        *)
(* condition is ever enabled.                                              *)
InstallSpec ==
  InstallInit /\ [][InstallNext]_<<part, wizardVars, runVars>> /\ RunFairness
====
