---------------------------- MODULE PlatformRuns ----------------------------
(***************************************************************************)
(* platform/api: agent, workflow and research runs (handlers.js), and the  *)
(* webhooks they and the other handlers emit (lib/webhooks.js).            *)
(*                                                                         *)
(* A handler records the run, has the policies decide, and hands the work  *)
(* to ctx.waitUntil: the job goes on after the 202, and so does every      *)
(* webhook delivery.  Each awaited statement is a step that may throw; the *)
(* isolate may be evicted at any moment, and nothing takes its work up     *)
(* again.                                                                  *)
(***************************************************************************)
EXTENDS Naturals, FiniteSets

CONSTANTS
  Run,          \* runs: requests that create one
  WorkStep,     \* the steps of the workflow
  FirstStep,
  StepType,     \* StepType[s]
  OnSuccess,    \* OnSuccess[s], OnFailure[s]: the next step, or NoStep
  OnFailure,
  NoStep,
  GuardLimit,   \* steps a workflow run may take (50 in the code)
  Hook,         \* webhooks subscribed to approvalRequired
  MaxFaults     \* bound: statements that throw and isolates that die

Effect == {"allow", "conditional", "escalate", "deny"}
RunKind == {"agent", "workflow", "research"}
Attempts == 3

ASSUME RunAssumption ==
  /\ FirstStep \in WorkStep /\ NoStep \notin WorkStep
  /\ OnSuccess \in [WorkStep -> WorkStep \cup {NoStep}]
  /\ OnFailure \in [WorkStep -> WorkStep \cup {NoStep}]
  /\ GuardLimit \in Nat /\ MaxFaults \in Nat

VARIABLES
  run,        \* run[r]: the row of the run
  job,        \* job[r]: the handler, then the job it hands over
  hook,       \* the webhooks registered
  deliv,      \* deliv[r, h]: the delivery row and what delivers it
  faults      \* bound: faults so far

runVars == <<run, job, hook, deliv, faults>>

NoRun == [status |-> "none", receipt |-> "none"]
NoJob == [kind |-> "agent", pc |-> "idle", effect |-> "none", park |-> FALSE, dry |-> FALSE,
          step |-> NoStep, ok |-> TRUE, guard |-> 0, todo |-> {}, launched |-> FALSE,
          threw |-> FALSE]
NoDelivery == [pc |-> "none", attempts |-> 0, status |-> "none", delivered |-> FALSE,
               received |-> FALSE]

RunInit ==
  /\ run = [r \in Run |-> NoRun]
  /\ job = [r \in Run |-> NoJob]
  /\ hook \in SUBSET Hook
  /\ deliv = [d \in Run \X Hook |-> NoDelivery]
  /\ faults = 0

\* evaluate(): the most restrictive effect that matches; none is a deny, but
\* for research, which is allowed by default.
Rank(e) == CASE e = "allow" -> 0 [] e = "conditional" -> 1 [] e = "escalate" -> 2 [] e = "deny" -> 3
Evaluate(kind, matching) ==
  IF matching = {} THEN (IF kind = "research" THEN "allow" ELSE "deny")
  ELSE CHOOSE e \in matching : \A f \in matching : Rank(f) <= Rank(e)
\* Policies are created, and come into and go out of effect, at any time: any
\* may match when they are read.
Decisions(kind) == {Evaluate(kind, matching) : matching \in SUBSET Effect}

Pc(r) == job[r].pc
Go(r, pc) == job' = [job EXCEPT ![r].pc = pc]
Rows(r, status, receipt) ==
  run' = [run EXCEPT ![r] = [status |-> status,
            receipt |-> IF receipt = "none" THEN @.receipt ELSE receipt]]

RegisterWebhook(h) ==
  /\ h \notin hook
  /\ hook' = hook \cup {h}
  /\ UNCHANGED <<run, job, deliv, faults>>

-----------------------------------------------------------------------------
(* The handlers. *)

\* invokeAgent() and runWorkflow() insert the run before they ask; research
\* asks first.
Request(r) ==
  /\ Pc(r) = "idle"
  /\ \E kind \in RunKind, park, dry \in BOOLEAN :
       /\ park => kind = "agent"
       /\ dry => kind = "workflow"
       /\ job' = [job EXCEPT ![r] = [NoJob EXCEPT !.kind = kind, !.park = park, !.dry = dry,
                    !.pc = IF kind = "research" THEN "decide" ELSE "create",
                    !.step = IF kind = "workflow" THEN FirstStep ELSE NoStep]]
  /\ UNCHANGED <<run, hook, deliv, faults>>
CreateRun(r) ==
  /\ Pc(r) = "create"
  /\ Rows(r, "queued", "none")
  /\ Go(r, IF job[r].kind = "research" THEN "audit" ELSE "decide")
  /\ UNCHANGED <<hook, deliv, faults>>
\* The decision, its record, and for a refusal the signed receipt with its entry.
Refused(kind, effect) == effect = "deny" \/ (kind = "research" /\ effect = "escalate")
Decide(r) ==
  /\ Pc(r) = "decide"
  /\ \E effect \in Decisions(job[r].kind) :
       job' = [job EXCEPT ![r].effect = effect,
                 ![r].pc = IF job[r].kind # "research" THEN "audit"
                           ELSE IF Refused("research", effect) THEN "refused" ELSE "create"]
  /\ UNCHANGED <<run, hook, deliv, faults>>
ParkIfAsked(r) ==   \* Mutant: an agent waits only when its caller asked for it.
  /\ Pc(r) = "audit"
  /\ Go(r, IF Refused(job[r].kind, job[r].effect) THEN "turn down"
           ELSE IF job[r].kind = "agent" /\ job[r].park THEN "park"
           ELSE "launch")
  /\ UNCHANGED <<run, hook, deliv, faults>>
AuditRequest(r) ==
  /\ Pc(r) = "audit"
  /\ Go(r, IF Refused(job[r].kind, job[r].effect) THEN "turn down"
           ELSE IF job[r].kind = "agent" /\ (job[r].park \/ job[r].effect # "allow") THEN "park"
           ELSE "launch")
  /\ UNCHANGED <<run, hook, deliv, faults>>
TurnDown(r) ==
  /\ Pc(r) = "turn down"
  /\ Rows(r, "failed", "refusal")
  /\ Go(r, "done")
  /\ UNCHANGED <<hook, deliv, faults>>
Park(r) ==
  /\ Pc(r) = "park"
  /\ Rows(r, "awaiting_approval", "approval")
  /\ job' = [job EXCEPT ![r].pc = "emit", ![r].todo = hook]
  /\ UNCHANGED <<hook, deliv, faults>>
Launch(r) ==
  /\ Pc(r) = "launch"
  /\ job' = [job EXCEPT ![r].pc = "start", ![r].launched = TRUE]
  /\ UNCHANGED <<run, hook, deliv, faults>>

\* emit(): a row for each subscriber there was, each handed to a delivery.
EmitAndGoOn(r) ==   \* Mutant: a step that asked for approval does not end the job.
  /\ Pc(r) = "emit"
  /\ IF job[r].todo = {} THEN Go(r, IF job[r].kind = "workflow" THEN "finish" ELSE "done") /\ UNCHANGED deliv
     ELSE \E h \in job[r].todo :
       /\ deliv' = [deliv EXCEPT ![<<r, h>>] = [NoDelivery EXCEPT !.pc = "fetch"]]
       /\ job' = [job EXCEPT ![r].todo = @ \ {h}]
  /\ UNCHANGED <<run, hook, faults>>
Emit(r) ==
  /\ Pc(r) = "emit"
  /\ IF job[r].todo = {} THEN Go(r, "done") /\ UNCHANGED deliv
     ELSE \E h \in job[r].todo :
       /\ deliv' = [deliv EXCEPT ![<<r, h>>] = [NoDelivery EXCEPT !.pc = "fetch"]]
       /\ job' = [job EXCEPT ![r].todo = @ \ {h}]
  /\ UNCHANGED <<run, hook, faults>>

-----------------------------------------------------------------------------
(* The jobs. *)

StartRun(r) ==
  /\ Pc(r) = "start"
  /\ Rows(r, "running", "none")
  /\ Go(r, IF job[r].kind = "workflow" THEN "loop" ELSE "reason")
  /\ UNCHANGED <<hook, deliv, faults>>
\* runIntelligence() and the receipt: an answer with a citation, or an error
\* (nothing in scope, no provider, a refusal, nothing citable).
Reason(r) ==
  /\ Pc(r) = "reason"
  /\ \/ Go(r, "finish")
     \/ job' = [job EXCEPT ![r].pc = "catch", ![r].threw = TRUE]
  /\ UNCHANGED <<run, hook, deliv, faults>>

\* executeWorkflowRun(): while (current && guard++ < 50).
LoopUnguarded(r) ==   \* Mutant: the steps are not counted.
  /\ Pc(r) = "loop"
  /\ Go(r, IF job[r].step # NoStep /\ job[r].guard < GuardLimit THEN "step" ELSE "finish")
  /\ UNCHANGED <<run, hook, deliv, faults>>
Loop(r) ==
  /\ Pc(r) = "loop"
  /\ IF job[r].step # NoStep /\ job[r].guard < GuardLimit
     THEN job' = [job EXCEPT ![r].pc = "step", ![r].guard = @ + 1]
     ELSE Go(r, "finish")
  /\ UNCHANGED <<run, hook, deliv, faults>>
Outcomes(r) ==
  LET type == StepType[job[r].step] IN
  CASE job[r].dry \/ type = "transform" -> {TRUE}
    [] type = "tool" -> {FALSE}
    [] type = "policy_check" -> {effect = "allow" : effect \in Decisions("step")}
    [] OTHER -> {TRUE, FALSE}
NextStep(s, ok) == IF ok THEN OnSuccess[s] ELSE OnFailure[s]
Stepped(r, ok) ==
  LET next == NextStep(job[r].step, ok) IN
  job' = [job EXCEPT ![r].ok = ok, ![r].todo = {},
            ![r].step = IF ~ok /\ next = NoStep THEN @ ELSE next,
            ![r].pc = IF ~ok /\ next = NoStep THEN "give up" ELSE "loop"]
Awaits(r) == StepType[job[r].step] = "human_approval" /\ ~job[r].dry
WorkflowStep(r) ==
  /\ Pc(r) = "step" /\ ~Awaits(r)
  /\ \E ok \in Outcomes(r) : Stepped(r, ok)
  /\ UNCHANGED <<run, hook, deliv, faults>>
HumanApproval(r) ==
  /\ Pc(r) = "step" /\ Awaits(r)
  /\ Rows(r, "awaiting_approval", "none")
  /\ job' = [job EXCEPT ![r].pc = "emit", ![r].todo = hook]
  /\ UNCHANGED <<hook, deliv, faults>>
GiveUp(r) ==
  /\ Pc(r) = "give up"
  /\ Rows(r, "failed", "outcome")
  /\ Go(r, "done")
  /\ UNCHANGED <<hook, deliv, faults>>

FinishRun(r) ==
  /\ Pc(r) = "finish"
  /\ Rows(r, "succeeded", "outcome")
  /\ Go(r, "report")
  /\ UNCHANGED <<hook, deliv, faults>>
AuditCompletion(r) ==
  /\ Pc(r) = "report"
  /\ Go(r, "done")
  /\ UNCHANGED <<run, hook, deliv, faults>>
\* The catch writes the failure over whatever the row says; the receipt stays.
Catch(r) ==
  /\ Pc(r) = "catch"
  /\ Rows(r, "failed", "none")
  /\ Go(r, "done")
  /\ UNCHANGED <<hook, deliv, faults>>

-----------------------------------------------------------------------------
(* Deliveries: three attempts, the row updated after each. *)

Fetch(d) ==
  /\ deliv[d].pc = "fetch"
  /\ \E outcome \in {"2xx", "other", "no answer"}, received \in BOOLEAN :
       /\ outcome # "no answer" => received
       /\ deliv' = [deliv EXCEPT ![d].pc = "record", ![d].status = outcome,
                                 ![d].attempts = @ + 1, ![d].received = @ \/ received]
  /\ UNCHANGED <<run, job, hook, faults>>
RecordAndRetry(d) ==   \* Mutant: a delivery that fails is tried for ever.
  /\ deliv[d].pc = "record"
  /\ deliv' = [deliv EXCEPT ![d].delivered = (deliv[d].status = "2xx"),
                 ![d].attempts = 0,
                 ![d].pc = IF deliv[d].status = "2xx" THEN "done" ELSE "fetch"]
  /\ UNCHANGED <<run, job, hook, faults>>
Record(d) ==
  /\ deliv[d].pc = "record"
  /\ deliv' = [deliv EXCEPT ![d].delivered = (deliv[d].status = "2xx"),
                 ![d].pc = IF deliv[d].status = "2xx" \/ deliv[d].attempts = Attempts
                           THEN "done" ELSE "fetch"]
  /\ UNCHANGED <<run, job, hook, faults>>

-----------------------------------------------------------------------------
(* Faults. *)

Fault == faults < MaxFaults /\ faults' = faults + 1

\* Where a rejected statement leaves its job: the handler answers 500; startRun
\* and the catch have nothing around them; emit in a step fails the step.
Caught(r) ==
  CASE Pc(r) \in {"finish", "report", "loop", "give up"} -> "catch"
    [] OTHER -> "dead"
ThrowRun(r) ==
  /\ Fault
  /\ Pc(r) \notin {"idle", "done", "dead", "refused", "step", "reason", "launch", "loop"}
  /\ IF Pc(r) = "emit" /\ job[r].kind = "workflow" THEN Stepped(r, FALSE)
     ELSE job' = [job EXCEPT ![r].pc = Caught(r), ![r].threw = TRUE]
  /\ UNCHANGED <<run, hook, deliv>>
ThrowDelivery(d) ==
  /\ Fault
  /\ deliv[d].pc = "record"
  /\ deliv' = [deliv EXCEPT ![d].pc = "dead"]
  /\ UNCHANGED <<run, job, hook>>
\* The isolate of a request goes, with its job and its deliveries.
Evict(r) ==
  /\ Fault
  /\ Pc(r) \notin {"idle", "dead"}
  /\ Go(r, IF Pc(r) \in {"done", "refused"} THEN Pc(r) ELSE "dead")
  /\ deliv' = [d \in Run \X Hook |->
       IF d[1] = r /\ deliv[d].pc \in {"fetch", "record"}
       THEN [deliv[d] EXCEPT !.pc = "dead"] ELSE deliv[d]]
  /\ UNCHANGED <<run, hook>>

Handle(r) ==
  \/ CreateRun(r) \/ Decide(r) \/ AuditRequest(r) \/ TurnDown(r) \/ Park(r)
  \/ Launch(r) \/ Emit(r)
Job(r) ==
  \/ StartRun(r) \/ Reason(r) \/ Loop(r) \/ WorkflowStep(r) \/ HumanApproval(r)
  \/ GiveUp(r) \/ FinishRun(r) \/ AuditCompletion(r) \/ Catch(r)
Deliver(d) == Fetch(d) \/ Record(d)

RunNext ==
  \/ \E h \in Hook : RegisterWebhook(h)
  \/ \E r \in Run : Request(r) \/ Handle(r) \/ Job(r) \/ ThrowRun(r) \/ Evict(r)
  \/ \E d \in Run \X Hook : Deliver(d) \/ ThrowDelivery(d)

\* While an isolate lives its event loop resumes what was awaited.
RunFairness ==
  /\ \A r \in Run : WF_runVars(Handle(r)) /\ WF_runVars(Job(r))
  /\ \A d \in Run \X Hook : WF_runVars(Deliver(d))
RunSpec == RunInit /\ [][RunNext]_runVars /\ RunFairness

-----------------------------------------------------------------------------
(* Properties. *)

RunTypes ==
  /\ hook \subseteq Hook /\ faults \in 0 .. MaxFaults
  /\ \A r \in Run :
       /\ run[r].status \in {"none", "queued", "running", "awaiting_approval",
                             "succeeded", "failed"}
       /\ run[r].receipt \in {"none", "refusal", "approval", "outcome"}
       /\ job[r].guard \in 0 .. GuardLimit

\* Work only begins on a decision that lets it: an agent's on an allow nobody
\* asked to approve, research on neither a deny nor an escalate, a workflow's on
\* anything but a deny, whatever the policies have become since.  A run that
\* succeeded carries the receipt of its outcome, and one the policies refused
\* that of the refusal.
RunsAreGoverned ==
  \A r \in Run :
    /\ job[r].launched =>
         /\ job[r].effect \in Effect \ {"deny"}
         /\ job[r].kind = "agent" => job[r].effect = "allow" /\ ~job[r].park
         /\ job[r].kind = "research" => job[r].effect # "escalate"
    /\ run[r].status \in {"running", "succeeded"} => job[r].launched
    /\ run[r].status = "succeeded" => run[r].receipt = "outcome"
    /\ run[r].status = "failed" /\ ~job[r].launched =>
         job[r].effect = "deny" /\ run[r].receipt = "refusal"
    /\ run[r].receipt = "none" /\ run[r].status = "failed" => job[r].threw

RunInv == RunTypes /\ RunsAreGoverned

\* A caller that has read the outcome of a run has read the truth, but for two
\* ways: a run that succeeded turns to failed when the audit entry for it cannot
\* be written, and a workflow that waits for approval goes on when the message
\* asking for it could not be queued.
OutcomesStand ==
  [][\A r \in Run : run'[r].status # run[r].status =>
       /\ run[r].status # "failed"
       /\ run[r].status = "succeeded" => run'[r].status = "failed" /\ Pc(r) = "catch"
       /\ run[r].status = "awaiting_approval" => faults > 0 /\ job[r].kind = "workflow"]_runVars

\* A run that was handed to its job settles, cyclic workflows included, unless
\* its isolate is evicted or the database fails the very write that would say so.
Settled(r) == run[r].status \in {"awaiting_approval", "succeeded", "failed"}
LaunchedRunsSettle ==
  \A r \in Run : job[r].launched ~> ((Settled(r) /\ Pc(r) = "done") \/ Pc(r) = "dead")

\* A webhook delivery ends delivered or after three attempts, and one marked
\* delivered was received.
DeliveriesSettle ==
  \A d \in Run \X Hook :
    /\ deliv[d].pc = "fetch" ~> \/ deliv[d].pc = "dead"
                                \/ /\ deliv[d].pc = "done"
                                   /\ deliv[d].delivered \/ deliv[d].attempts = Attempts
    /\ [](deliv[d].delivered => deliv[d].received)

=============================================================================
