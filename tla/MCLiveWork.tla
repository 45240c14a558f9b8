----------------------------- MODULE MCLiveWork -----------------------------
(* Instances for TLC of the work that outlives the step it began in: the     *)
(* runs of the platform with their webhooks, and the requests that wait for  *)
(* a permit of the provisioning service.  They share no state; each          *)
(* behaviour is of one of them, its part.                                    *)
EXTENDS PlatformRuns, ProvisionGate, TLC
CONSTANTS s1, s2, s3, s4

VARIABLE part

\* A query that fails is asked again; a failed check asks for approval, and if
\* that cannot be asked for, the workflow falls back on a tool, which always fails.
MCStepType == (s1 :> "query") @@ (s2 :> "policy_check") @@ (s3 :> "human_approval") @@ (s4 :> "tool")
MCOnSuccess == (s1 :> s2) @@ (s2 :> NoStep) @@ (s3 :> s1) @@ (s4 :> NoStep)
MCOnFailure == (s1 :> s1) @@ (s2 :> s3) @@ (s3 :> s4) @@ (s4 :> NoStep)

MCInit ==
  /\ part \in {"runs", "gate"}
  /\ RunInit /\ hook = {CHOOSE h \in Hook : TRUE}
  /\ GateInit
MCNext ==
  \/ part = "runs" /\ RunNext /\ UNCHANGED <<part, gateVars>>
  \/ part = "gate" /\ GateNext /\ UNCHANGED <<part, runVars>>
MCSpec ==
  /\ MCInit /\ [][MCNext]_<<part, runVars, gateVars>>
  /\ RunFairness /\ GateFairness   \* a part whose turn it is not has nothing enabled
=============================================================================
