-------------------------- MODULE PlatformWorkProofs --------------------------
(***************************************************************************)
(* Runs are governed and their outcomes stand, for any number of runs, any *)
(* workflow, cyclic ones included, any webhooks and any number of faults;  *)
(* and what operators do at the console adds up, for any number of them,   *)
(* of drafts, leads, plans and sign-ins.                                   *)
(*                                                                         *)
(* RunInv is not inductive: that a run has started says nothing unless one *)
(* knows where its handler stood when the policies answered.  Phase(r)     *)
(* ties the row of a run to the place its handler or its job has reached.  *)
(*                                                                         *)
(* ConsoleInv is not inductive in any of its parts: what a finished run of *)
(* the agent has stored is known from what it had stored at each place, a  *)
(* draft is posted once because one decision at a time stands on it, a     *)
(* plan has no twin because what a sync still has to create is not there,  *)
(* changes of a plan follow on because the one under way starts where the  *)
(* last one ended, and the lock holds because the row counts at least what *)
(* is recent.                                                              *)
(***************************************************************************)
EXTENDS PlatformRuns, OpsConsole, FiniteSetTheorems, SequenceTheorems, TLAPS

(* Runs and workflows (PlatformRuns).                                      *)

Before == {"idle", "decide", "create", "audit", "refused", "turn down", "park", "launch"}
Begun == {"start", "reason", "loop", "step", "give up", "finish", "report", "catch"}
Place == Before \cup Begun \cup {"emit", "done", "dead"}

RunRow == [status : {"none", "queued", "running", "awaiting_approval", "succeeded", "failed"},
           receipt : {"none", "refusal", "approval", "outcome"}]
JobState ==
  [kind : RunKind, pc : Place, effect : Effect \cup {"none"}, park : BOOLEAN, dry : BOOLEAN,
   step : WorkStep \cup {NoStep}, ok : BOOLEAN, guard : 0 .. GuardLimit, todo : SUBSET Hook,
   launched : BOOLEAN, threw : BOOLEAN]
RunShapes ==
  /\ run \in [Run -> RunRow]
  /\ job \in [Run -> JobState]
  /\ hook \subseteq Hook
  /\ faults \in 0 .. MaxFaults

\* What has been decided where a job stands, and what it is a job of.
Decided(j) ==
  /\ j.pc \in {"create", "audit"} /\ j.kind = "research" => j.effect \in {"allow", "conditional"}
  /\ j.pc = "audit" => j.effect \in Effect
  /\ j.pc = "turn down" => j.effect = "deny"
  /\ j.launched \/ j.pc = "launch" =>
       /\ j.effect \in Effect \ {"deny"}
       /\ j.kind = "agent" => j.effect = "allow" /\ ~j.park
       /\ j.kind = "research" => j.effect # "escalate"
  /\ j.pc \in Before => ~j.launched
  /\ j.pc \in Begun => j.launched
  /\ j.pc = "park" => j.kind = "agent"
  /\ j.pc = "emit" => j.kind = (IF j.launched THEN "workflow" ELSE "agent")
  /\ j.pc \in {"loop", "step", "give up"} => j.kind = "workflow"
  /\ j.pc = "step" \/ (j.pc = "emit" /\ j.launched) => j.step \in WorkStep
  /\ j.pc = "catch" => j.threw

\* What the row says where a job stands; n is the number of faults.
RowAgrees(w, j, n) ==
  /\ j.pc \in Before => w.status \in {"none", "queued"}
  /\ w.status \in {"running", "succeeded"} => j.launched
  /\ w.status = "succeeded" => w.receipt = "outcome" /\ j.pc \in {"report", "catch", "done", "dead"}
  /\ w.status = "failed" => j.pc \in {"done", "dead"}
  /\ w.status = "failed" /\ ~j.launched => j.effect = "deny" /\ w.receipt = "refusal"
  /\ w.status = "failed" /\ w.receipt = "none" => j.threw
  /\ w.status = "awaiting_approval" =>
       j.pc \in {"emit", "done", "dead"} \/ (j.kind = "workflow" /\ n > 0)

InPhase(w, j, n) == Decided(j) /\ RowAgrees(w, j, n)
Phase(r) == InPhase(run[r], job[r], faults)
RunInd == RunShapes /\ \A r \in Run : Phase(r)

-----------------------------------------------------------------------------
\* What the policies answer is an effect; research is allowed by default.
LEMMA EvaluateIsEffect ==
  ASSUME NEW kind, NEW matching \in SUBSET Effect
  PROVE  Evaluate(kind, matching) \in Effect
<1>1. CASE matching = {}
  BY <1>1 DEF Evaluate, Effect
<1>2. CASE matching # {}
  <2>1. \E e \in matching : \A f \in matching : Rank(f) <= Rank(e)
    <3>1. /\ Rank("allow") = 0 /\ Rank("conditional") = 1
          /\ Rank("escalate") = 2 /\ Rank("deny") = 3
      BY DEF Rank
    <3>2. CASE "deny" \in matching
      BY <3>1, <3>2 DEF Effect
    <3>3. CASE "deny" \notin matching /\ "escalate" \in matching
      BY <3>1, <3>3 DEF Effect
    <3>4. CASE "deny" \notin matching /\ "escalate" \notin matching /\ "conditional" \in matching
      BY <3>1, <3>4 DEF Effect
    <3>5. CASE matching = {"allow"}
      BY <3>1, <3>5
    <3> QED
      BY <1>2, <3>2, <3>3, <3>4, <3>5 DEF Effect
  <2>2. (CHOOSE e \in matching : \A f \in matching : Rank(f) <= Rank(e)) \in matching
    BY <2>1
  <2> QED
    BY <1>2, <2>2 DEF Evaluate
<1> QED
  BY <1>1, <1>2

\* What the policies may answer at any place is a decision.
LEMMA DecisionsAreEffects == ASSUME NEW kind PROVE Decisions(kind) \subseteq Effect
BY EvaluateIsEffect DEF Decisions

\* No run has begun at first.
LEMMA RunInitInd == RunInit => RunInd
<1> SUFFICES ASSUME RunInit PROVE RunInd
  OBVIOUS
<1>1. NoRun \in RunRow /\ NoJob \in JobState
  BY RunAssumption DEF NoRun, RunRow, NoJob, JobState, RunKind, Place, Before
<1>2. RunShapes
  BY <1>1, RunAssumption DEF RunInit, RunShapes
<1>3. InPhase(NoRun, NoJob, 0)
  BY DEF InPhase, Decided, RowAgrees, NoRun, NoJob, Before, Begun
<1> QED
  BY <1>2, <1>3 DEF RunInit, RunInd, Phase

\* What the steps of r may rely on.
LEMMA ThisRun ==
  ASSUME RunInd, NEW r \in Run
  PROVE  /\ run \in [Run -> RunRow] /\ job \in [Run -> JobState]
         /\ run[r] \in RunRow /\ job[r] \in JobState /\ hook \subseteq Hook
         /\ faults \in 0 .. MaxFaults /\ faults \in Nat /\ MaxFaults \in Nat
         /\ Decided(job[r]) /\ RowAgrees(run[r], job[r], faults)
BY RunAssumption DEF RunInd, RunShapes, Phase, InPhase

\* What a step leaves of the job and of the row of r.
JobIs(r, pc, effect, step, launched, threw) ==
  /\ job' \in [Run -> JobState] /\ \A q \in Run \ {r} : job'[q] = job[q]
  /\ job'[r].pc = pc /\ job'[r].effect = effect /\ job'[r].step = step
  /\ job'[r].launched = launched /\ job'[r].threw = threw
  /\ job'[r].kind = job[r].kind /\ job'[r].park = job[r].park
JobGoes(r, pc) == JobIs(r, pc, job[r].effect, job[r].step, job[r].launched, job[r].threw)
RowIs(r, status, receipt) ==
  /\ run' \in [Run -> RunRow] /\ \A q \in Run \ {r} : run'[q] = run[q]
  /\ run'[r].status = status /\ run'[r].receipt = receipt
RowStays(r) == RowIs(r, run[r].status, run[r].receipt)

\* A job that goes on changes its place alone.
LEMMA GoIs == ASSUME RunInd, NEW r \in Run, NEW pc \in Place, Go(r, pc) PROVE JobGoes(r, pc)
<1>1. job'[r] = [job[r] EXCEPT !.pc = pc] /\ \A q \in Run \ {r} : job'[q] = job[q]
  BY ThisRun DEF Go
<1>2. [job[r] EXCEPT !.pc = pc] \in JobState
  BY ThisRun DEF JobState
<1>3. job' = [job EXCEPT ![r] = [job[r] EXCEPT !.pc = pc]]
  BY ThisRun DEF Go
<1>4. job' \in [Run -> JobState]
  BY <1>2, <1>3, ThisRun
<1> QED
  BY <1>1, <1>4, ThisRun DEF JobState, JobIs, JobGoes

\* A row that is written has the status and, if one was issued, the receipt.
LEMMA RowsIs ==
  ASSUME RunInd, NEW r \in Run,
         NEW status \in {"queued", "running", "awaiting_approval", "succeeded", "failed"},
         NEW receipt \in {"none", "refusal", "approval", "outcome"}, Rows(r, status, receipt)
  PROVE  RowIs(r, status, IF receipt = "none" THEN run[r].receipt ELSE receipt)
BY ThisRun DEF RunRow, Rows, RowIs

\* A row that nobody writes stays.
LEMMA RowIsSame == ASSUME RunInd, NEW r \in Run, UNCHANGED run PROVE RowStays(r)
BY ThisRun DEF RowIs, RowStays

\* A job that caught an error goes on, and is known to have thrown.
LEMMA CaughtIs ==
  ASSUME RunInd, NEW r \in Run, NEW pc \in Place,
         job' = [job EXCEPT ![r].pc = pc, ![r].threw = TRUE]
  PROVE  JobIs(r, pc, job[r].effect, job[r].step, job[r].launched, TRUE)
<1>1. job' = [job EXCEPT ![r] = [job[r] EXCEPT !.pc = pc, !.threw = TRUE]]
  BY ThisRun
<1>2. [job[r] EXCEPT !.pc = pc, !.threw = TRUE] \in JobState
  BY ThisRun DEF JobState
<1>3. job' \in [Run -> JobState] /\ \A q \in Run \ {r} : job'[q] = job[q]
  BY <1>1, <1>2, ThisRun
<1> QED
  BY <1>1, <1>3, ThisRun DEF JobIs, JobState

\* A step of one run: it is enough to look at that run.
LEMMA OneRunSteps ==
  ASSUME RunInd, NEW r \in Run, hook' \subseteq Hook, UNCHANGED faults \/ Fault,
         run' \in [Run -> RunRow], job' \in [Run -> JobState],
         \A q \in Run \ {r} : run'[q] = run[q] /\ job'[q] = job[q],
         InPhase(run'[r], job'[r], faults')
  PROVE  RunInd'
<1>1. faults' \in 0 .. MaxFaults /\ faults <= faults' /\ faults \in Nat /\ faults' \in Nat
  BY RunAssumption DEF RunInd, RunShapes, Fault
<1>2. ASSUME NEW q \in Run PROVE InPhase(run'[q], job'[q], faults')
  <2>1. CASE q # r
    <3>1. InPhase(run[q], job[q], faults)
      BY DEF RunInd, Phase
    <3>2. InPhase(run[q], job[q], faults')
      BY <1>1, <3>1 DEF InPhase, RowAgrees
    <3> QED
      BY <2>1, <3>2
  <2> QED
    BY <2>1
<1> QED
  BY <1>1, <1>2 DEF RunInd, RunShapes, Phase

\* The handler of a run.
LEMMA HandlerKeepsInd ==
  ASSUME RunInd, NEW r \in Run,
         CreateRun(r) \/ AuditRequest(r) \/ TurnDown(r)
  PROVE  RunInd'
<1>1. CASE CreateRun(r)
  <2>1. /\ job[r].pc = "create" /\ Go(r, IF job[r].kind = "research" THEN "audit" ELSE "decide")
        /\ Rows(r, "queued", "none") /\ UNCHANGED <<hook, faults>>
    BY <1>1 DEF CreateRun, Pc
  <2>2. JobGoes(r, IF job[r].kind = "research" THEN "audit" ELSE "decide")
    BY <2>1, GoIs DEF Place, Before, Begun
  <2>3. RowIs(r, "queued", run[r].receipt)
    BY <2>1, RowsIs
  <2>4. InPhase(run'[r], job'[r], faults')
    <3>1. Decided(job'[r])
      BY <2>1, <2>2, ThisRun DEF JobGoes, JobIs, Decided, Before, Begun, Effect
    <3>2. RowAgrees(run'[r], job'[r], faults')
      BY <2>1, <2>2, <2>3, ThisRun DEF JobGoes, JobIs, RowIs, Decided, RowAgrees, Before,
         Begun, Effect
    <3> QED
      BY <3>1, <3>2 DEF InPhase
  <2> QED
    BY <2>1, <2>2, <2>3, <2>4, ThisRun, OneRunSteps DEF JobGoes, JobIs, RowIs
<1>2. CASE AuditRequest(r)
  <2>1. /\ job[r].pc = "audit" /\ Go(r, IF Refused(job[r].kind, job[r].effect) THEN "turn down"
             ELSE IF job[r].kind = "agent" /\ (job[r].park \/ job[r].effect # "allow") THEN "park"
             ELSE "launch")
        /\ UNCHANGED <<run, hook, faults>>
    BY <1>2 DEF AuditRequest, Pc
  <2>2. JobGoes(r, IF Refused(job[r].kind, job[r].effect) THEN "turn down"
             ELSE IF job[r].kind = "agent" /\ (job[r].park \/ job[r].effect # "allow") THEN "park"
             ELSE "launch")
    BY <2>1, GoIs DEF Place, Before, Begun
  <2>3. RowStays(r)
    BY <2>1, RowIsSame
  <2>4. InPhase(run'[r], job'[r], faults')
    <3>1. Decided(job'[r])
      BY <2>1, <2>2, ThisRun DEF JobGoes, JobIs, Decided, Before, Begun, Refused, Effect
    <3>2. RowAgrees(run'[r], job'[r], faults')
      BY <2>1, <2>2, <2>3, ThisRun DEF JobGoes, JobIs, RowStays, RowIs, Decided,
         RowAgrees, Before, Begun, Refused, Effect
    <3> QED
      BY <3>1, <3>2 DEF InPhase
  <2> QED
    BY <2>1, <2>2, <2>3, <2>4, ThisRun, OneRunSteps DEF JobGoes, JobIs, RowStays, RowIs
<1>3. CASE TurnDown(r)
  <2>1. /\ job[r].pc = "turn down" /\ Go(r, "done")
        /\ Rows(r, "failed", "refusal") /\ UNCHANGED <<hook, faults>>
    BY <1>3 DEF TurnDown, Pc
  <2>2. JobGoes(r, "done")
    BY <2>1, GoIs DEF Place, Before, Begun
  <2>3. RowIs(r, "failed", "refusal")
    BY <2>1, RowsIs
  <2>4. InPhase(run'[r], job'[r], faults')
    <3>1. Decided(job'[r])
      BY <2>1, <2>2, ThisRun DEF JobGoes, JobIs, Decided, Before, Begun
    <3>2. RowAgrees(run'[r], job'[r], faults')
      BY <2>1, <2>2, <2>3, ThisRun DEF JobGoes, JobIs, RowIs, Decided, RowAgrees, Before,
         Begun
    <3> QED
      BY <3>1, <3>2 DEF InPhase
  <2> QED
    BY <2>1, <2>2, <2>3, <2>4, ThisRun, OneRunSteps DEF JobGoes, JobIs, RowIs
<1> QED
  BY <1>1, <1>2, <1>3

\* The job it hands over, where it only goes from place to place.
LEMMA JobKeepsInd ==
  ASSUME RunInd, NEW r \in Run,
         StartRun(r) \/ GiveUp(r) \/ FinishRun(r) \/ AuditCompletion(r) \/ Catch(r)
  PROVE  RunInd'
<1>1. CASE StartRun(r)
  <2>1. /\ job[r].pc = "start" /\ Go(r, IF job[r].kind = "workflow" THEN "loop" ELSE "reason")
        /\ Rows(r, "running", "none") /\ UNCHANGED <<hook, faults>>
    BY <1>1 DEF StartRun, Pc
  <2>2. JobGoes(r, IF job[r].kind = "workflow" THEN "loop" ELSE "reason")
    BY <2>1, GoIs DEF Place, Before, Begun
  <2>3. RowIs(r, "running", run[r].receipt)
    BY <2>1, RowsIs
  <2>4. InPhase(run'[r], job'[r], faults')
    <3>1. Decided(job'[r])
      BY <2>1, <2>2, ThisRun DEF JobGoes, JobIs, Decided, Before, Begun
    <3>2. RowAgrees(run'[r], job'[r], faults')
      BY <2>1, <2>2, <2>3, ThisRun DEF JobGoes, JobIs, RowIs, Decided, RowAgrees, Before,
         Begun
    <3> QED
      BY <3>1, <3>2 DEF InPhase
  <2> QED
    BY <2>1, <2>2, <2>3, <2>4, ThisRun, OneRunSteps DEF JobGoes, JobIs, RowIs
<1>2. CASE GiveUp(r)
  <2>1. /\ job[r].pc = "give up" /\ Go(r, "done")
        /\ Rows(r, "failed", "outcome") /\ UNCHANGED <<hook, faults>>
    BY <1>2 DEF GiveUp, Pc
  <2>2. JobGoes(r, "done")
    BY <2>1, GoIs DEF Place, Before, Begun
  <2>3. RowIs(r, "failed", "outcome")
    BY <2>1, RowsIs
  <2>4. InPhase(run'[r], job'[r], faults')
    <3>1. Decided(job'[r])
      BY <2>1, <2>2, ThisRun DEF JobGoes, JobIs, Decided, Before, Begun
    <3>2. RowAgrees(run'[r], job'[r], faults')
      BY <2>1, <2>2, <2>3, ThisRun DEF JobGoes, JobIs, RowIs, Decided, RowAgrees, Before,
         Begun
    <3> QED
      BY <3>1, <3>2 DEF InPhase
  <2> QED
    BY <2>1, <2>2, <2>3, <2>4, ThisRun, OneRunSteps DEF JobGoes, JobIs, RowIs
<1>3. CASE FinishRun(r)
  <2>1. /\ job[r].pc = "finish" /\ Go(r, "report")
        /\ Rows(r, "succeeded", "outcome") /\ UNCHANGED <<hook, faults>>
    BY <1>3 DEF FinishRun, Pc
  <2>2. JobGoes(r, "report")
    BY <2>1, GoIs DEF Place, Before, Begun
  <2>3. RowIs(r, "succeeded", "outcome")
    BY <2>1, RowsIs
  <2>4. InPhase(run'[r], job'[r], faults')
    <3>1. Decided(job'[r])
      BY <2>1, <2>2, ThisRun DEF JobGoes, JobIs, Decided, Before, Begun
    <3>2. RowAgrees(run'[r], job'[r], faults')
      BY <2>1, <2>2, <2>3, ThisRun DEF JobGoes, JobIs, RowIs, Decided, RowAgrees, Before,
         Begun
    <3> QED
      BY <3>1, <3>2 DEF InPhase
  <2> QED
    BY <2>1, <2>2, <2>3, <2>4, ThisRun, OneRunSteps DEF JobGoes, JobIs, RowIs
<1>4. CASE AuditCompletion(r)
  <2>1. /\ job[r].pc = "report" /\ Go(r, "done")
        /\ UNCHANGED <<run, hook, faults>>
    BY <1>4 DEF AuditCompletion, Pc
  <2>2. JobGoes(r, "done")
    BY <2>1, GoIs DEF Place, Before, Begun
  <2>3. RowStays(r)
    BY <2>1, RowIsSame
  <2>4. InPhase(run'[r], job'[r], faults')
    <3>1. Decided(job'[r])
      BY <2>1, <2>2, ThisRun DEF JobGoes, JobIs, RowStays, RowIs, Decided, Before, Begun
    <3>2. RowAgrees(run'[r], job'[r], faults')
      BY <2>1, <2>2, <2>3, ThisRun DEF JobGoes, JobIs, RowStays, RowIs, Decided, RowAgrees,
         Before, Begun
    <3> QED
      BY <3>1, <3>2 DEF InPhase
  <2> QED
    BY <2>1, <2>2, <2>3, <2>4, ThisRun, OneRunSteps DEF JobGoes, JobIs, RowStays, RowIs
<1>5. CASE Catch(r)
  <2>1. /\ job[r].pc = "catch" /\ Go(r, "done")
        /\ Rows(r, "failed", "none") /\ UNCHANGED <<hook, faults>>
    BY <1>5 DEF Catch, Pc
  <2>2. JobGoes(r, "done")
    BY <2>1, GoIs DEF Place, Before, Begun
  <2>3. RowIs(r, "failed", run[r].receipt)
    BY <2>1, RowsIs
  <2>4. InPhase(run'[r], job'[r], faults')
    <3>1. Decided(job'[r])
      BY <2>1, <2>2, ThisRun DEF JobGoes, JobIs, RowIs, Decided, Before, Begun
    <3>2. RowAgrees(run'[r], job'[r], faults')
      BY <2>1, <2>2, <2>3, ThisRun DEF JobGoes, JobIs, RowIs, Decided, RowAgrees, Before, Begun
    <3> QED
      BY <3>1, <3>2 DEF InPhase
  <2> QED
    BY <2>1, <2>2, <2>3, <2>4, ThisRun, OneRunSteps DEF JobGoes, JobIs, RowIs
<1> QED
  BY <1>1, <1>2, <1>3, <1>4, <1>5

\* Where the handler or the job changes more than its place.
LEMMA RequestKeepsInd == ASSUME RunInd, NEW r \in Run, Request(r) PROVE RunInd'
<1>1. PICK kind \in RunKind, park \in BOOLEAN, dry \in BOOLEAN :
        job' = [job EXCEPT ![r] = [NoJob EXCEPT !.kind = kind, !.park = park, !.dry = dry,
                  !.pc = IF kind = "research" THEN "decide" ELSE "create",
                  !.step = IF kind = "workflow" THEN FirstStep ELSE NoStep]]
  BY DEF Request
<1>2. job[r].pc = "idle" /\ UNCHANGED <<run, hook, faults>>
  BY DEF Request, Pc
<1> DEFINE j == [NoJob EXCEPT !.kind = kind, !.park = park, !.dry = dry,
                   !.pc = IF kind = "research" THEN "decide" ELSE "create",
                   !.step = IF kind = "workflow" THEN FirstStep ELSE NoStep]
<1>3. j \in JobState
  <2>1. NoJob \in JobState
    BY RunAssumption DEF NoJob, JobState, RunKind, Place, Before
  <2>2. /\ (IF kind = "research" THEN "decide" ELSE "create") \in Place
        /\ (IF kind = "workflow" THEN FirstStep ELSE NoStep) \in WorkStep \cup {NoStep}
    BY RunAssumption DEF Place, Before
  <2> QED
    BY <2>1, <2>2 DEF JobState
<1>4. job' \in [Run -> JobState] /\ job'[r] = j /\ \A q \in Run \ {r} : job'[q] = job[q]
  BY <1>1, <1>3, ThisRun
<1>5. j.pc \in {"decide", "create"} /\ ~j.launched
      /\ (j.kind = "research" => j.pc = "decide")
  BY DEF NoJob
<1> HIDE DEF j
<1>6. Decided(j)
  BY <1>5 DEF Decided, Before, Begun
<1>7. RowAgrees(run[r], j, faults)
  BY <1>2, <1>5, ThisRun DEF RowAgrees, Before
<1> QED
  BY <1>2, <1>4, <1>6, <1>7, ThisRun, OneRunSteps DEF InPhase

\* The policies answer the handler.
LEMMA DecideKeepsInd == ASSUME RunInd, NEW r \in Run, Decide(r) PROVE RunInd'
<1>1. PICK effect \in Effect :
        job' = [job EXCEPT ![r].effect = effect,
                  ![r].pc = IF job[r].kind # "research" THEN "audit"
                            ELSE IF Refused("research", effect) THEN "refused" ELSE "create"]
  BY DecisionsAreEffects DEF Decide
<1>2. job[r].pc = "decide" /\ UNCHANGED <<run, hook, faults>>
  BY DEF Decide, Pc
<1> DEFINE pc == IF job[r].kind # "research" THEN "audit"
                 ELSE IF Refused("research", effect) THEN "refused" ELSE "create"
<1>3. pc \in Place
  BY DEF Place, Before
<1>4. JobIs(r, pc, effect, job[r].step, job[r].launched, job[r].threw)
  <2> HIDE DEF pc
  <2>1. job' = [job EXCEPT ![r] = [job[r] EXCEPT !.effect = effect, !.pc = pc]]
    BY <1>1, ThisRun DEF pc
  <2>2. [job[r] EXCEPT !.effect = effect, !.pc = pc] \in JobState
    BY <1>3, ThisRun DEF JobState
  <2>3. job' \in [Run -> JobState] /\ \A q \in Run \ {r} : job'[q] = job[q]
    BY <2>1, <2>2, ThisRun
  <2> QED
    BY <2>1, <2>3, ThisRun DEF JobIs, JobState
<1>5. Decided(job'[r])
  BY <1>2, <1>4, ThisRun DEF JobIs, Decided, Before, Begun, Refused, Effect
<1>6. RowAgrees(run'[r], job'[r], faults')
  BY <1>2, <1>4, ThisRun DEF JobIs, RowAgrees, Before
<1> QED
  BY <1>2, <1>4, <1>5, <1>6, ThisRun, OneRunSteps DEF InPhase, JobIs

\* The handler hands the run to its job.
LEMMA LaunchKeepsInd == ASSUME RunInd, NEW r \in Run, Launch(r) PROVE RunInd'
<1>1. /\ job[r].pc = "launch" /\ UNCHANGED <<run, hook, faults>>
      /\ job' = [job EXCEPT ![r].pc = "start", ![r].launched = TRUE]
  BY DEF Launch, Pc
<1>2. JobIs(r, "start", job[r].effect, job[r].step, TRUE, job[r].threw)
  <2>1. job' = [job EXCEPT ![r] = [job[r] EXCEPT !.pc = "start", !.launched = TRUE]]
    BY <1>1, ThisRun
  <2>2. [job[r] EXCEPT !.pc = "start", !.launched = TRUE] \in JobState
    BY ThisRun DEF JobState, Place, Begun
  <2>3. job' \in [Run -> JobState] /\ \A q \in Run \ {r} : job'[q] = job[q]
    BY <2>1, <2>2, ThisRun
  <2> QED
    BY <2>1, <2>3, ThisRun DEF JobIs, JobState
<1>3. Decided(job'[r])
  <2>1. /\ job[r].effect \in Effect \ {"deny"}
        /\ job[r].kind = "agent" => job[r].effect = "allow" /\ ~job[r].park
        /\ job[r].kind = "research" => job[r].effect # "escalate"
    BY <1>1, ThisRun DEF Decided
  <2> QED
    BY <1>2, <2>1 DEF JobIs, Decided, Before
<1>4. RowAgrees(run'[r], job'[r], faults')
  BY <1>1, <1>2, ThisRun DEF JobIs, RowAgrees, Before
<1> QED
  BY <1>1, <1>2, <1>3, <1>4, ThisRun, OneRunSteps DEF InPhase, JobIs

\* A job that goes to its emit step takes the subscribers there are.
LEMMA WaitKeepsInd == ASSUME RunInd, NEW r \in Run, Park(r) \/ HumanApproval(r) PROVE RunInd'
<1>1. /\ job[r].pc \in {"park", "step"} /\ UNCHANGED <<hook, faults>>
      /\ job' = [job EXCEPT ![r].pc = "emit", ![r].todo = hook]
  BY DEF Park, HumanApproval, Pc
<1>2. PICK receipt \in {"approval", "none"} : Rows(r, "awaiting_approval", receipt)
  BY DEF Park, HumanApproval
<1>3. JobIs(r, "emit", job[r].effect, job[r].step, job[r].launched, job[r].threw)
  <2>1. job' = [job EXCEPT ![r] = [job[r] EXCEPT !.pc = "emit", !.todo = hook]]
    BY <1>1, ThisRun
  <2>2. [job[r] EXCEPT !.pc = "emit", !.todo = hook] \in JobState
    BY ThisRun DEF JobState, Place
  <2>3. job' \in [Run -> JobState] /\ \A q \in Run \ {r} : job'[q] = job[q]
    BY <2>1, <2>2, ThisRun
  <2> QED
    BY <2>1, <2>3, ThisRun DEF JobIs, JobState
<1>4. RowIs(r, "awaiting_approval", IF receipt = "none" THEN run[r].receipt ELSE receipt)
  BY <1>2, RowsIs
<1>5. Decided(job'[r])
  BY <1>1, <1>3, ThisRun DEF JobIs, Decided, Before, Begun
<1>6. RowAgrees(run'[r], job'[r], faults')
  BY <1>3, <1>4 DEF JobIs, RowIs, RowAgrees, Before
<1> QED
  BY <1>1, <1>3, <1>4, <1>5, <1>6, ThisRun, OneRunSteps DEF InPhase, JobIs, RowIs

\* An event is emitted to whoever subscribes.
LEMMA EmitKeepsInd == ASSUME RunInd, NEW r \in Run, Emit(r) PROVE RunInd'
<1>1. job[r].pc = "emit" /\ UNCHANGED <<run, hook, faults>>
  BY DEF Emit, Pc
<1>2. PICK pc \in {"emit", "done"} :
        JobIs(r, pc, job[r].effect, job[r].step, job[r].launched, job[r].threw)
  <2>1. CASE job[r].todo = {}
    BY <2>1, GoIs DEF Emit, Place, JobGoes
  <2>2. CASE job[r].todo # {}
    <3>1. PICK h \in job[r].todo : job' = [job EXCEPT ![r].todo = @ \ {h}]
      BY <2>2 DEF Emit
    <3>2. job' = [job EXCEPT ![r] = [job[r] EXCEPT !.todo = job[r].todo \ {h}]]
      BY <3>1, ThisRun
    <3>3. [job[r] EXCEPT !.todo = job[r].todo \ {h}] \in JobState
      BY ThisRun DEF JobState
    <3>4. job' \in [Run -> JobState] /\ \A q \in Run \ {r} : job'[q] = job[q]
      BY <3>2, <3>3, ThisRun
    <3>5. JobIs(r, "emit", job[r].effect, job[r].step, job[r].launched, job[r].threw)
      BY <1>1, <3>2, <3>4, ThisRun DEF JobIs, JobState
    <3> QED
      BY <3>5
  <2> QED
    BY <2>1, <2>2
<1>3. Decided(job'[r])
  BY <1>1, <1>2, ThisRun DEF JobIs, Decided, Before, Begun
<1>4. RowAgrees(run'[r], job'[r], faults')
  BY <1>1, <1>2, ThisRun DEF JobIs, RowAgrees, Before
<1> QED
  BY <1>1, <1>2, <1>3, <1>4, ThisRun, OneRunSteps DEF InPhase, JobIs

\* The agent or the research reasons, or the model fails.
LEMMA ReasonKeepsInd == ASSUME RunInd, NEW r \in Run, Reason(r) PROVE RunInd'
<1>1. job[r].pc = "reason" /\ UNCHANGED <<run, hook, faults>>
  BY DEF Reason, Pc
<1>2. PICK pc \in {"finish", "catch"}, threw \in BOOLEAN :
        /\ JobIs(r, pc, job[r].effect, job[r].step, job[r].launched, threw)
        /\ pc = "catch" => threw
        /\ job[r].threw => threw
  <2>1. CASE Go(r, "finish")
    <3>1. JobGoes(r, "finish") /\ job[r].threw \in BOOLEAN
      BY <2>1, GoIs, ThisRun DEF Place, Begun, JobState
    <3> QED
      BY <3>1 DEF JobGoes
  <2>2. CASE job' = [job EXCEPT ![r].pc = "catch", ![r].threw = TRUE]
    <3>1. JobIs(r, "catch", job[r].effect, job[r].step, job[r].launched, TRUE)
      BY <2>2, CaughtIs DEF Place, Begun
    <3> QED
      BY <3>1
  <2> QED
    BY <2>1, <2>2 DEF Reason
<1>3. Decided(job'[r])
  BY <1>1, <1>2, ThisRun DEF JobIs, Decided, Before, Begun
<1>4. RowAgrees(run'[r], job'[r], faults')
  BY <1>1, <1>2, ThisRun DEF JobIs, Decided, RowAgrees, Before, Begun
<1> QED
  BY <1>1, <1>2, <1>3, <1>4, ThisRun, OneRunSteps DEF InPhase, JobIs

\* A workflow takes up its next step, or has none left.
LEMMA LoopKeepsInd == ASSUME RunInd, NEW r \in Run, Loop(r) PROVE RunInd'
<1>1. job[r].pc = "loop" /\ UNCHANGED <<run, hook, faults>>
  BY DEF Loop, Pc
<1>2. PICK pc \in {"step", "finish"} :
        /\ JobIs(r, pc, job[r].effect, job[r].step, job[r].launched, job[r].threw)
        /\ pc = "step" => job[r].step \in WorkStep
  <2>1. CASE job[r].step # NoStep /\ job[r].guard < GuardLimit
    <3> DEFINE j == [job[r] EXCEPT !.pc = "step", !.guard = job[r].guard + 1]
    <3>1. job' = [job EXCEPT ![r] = j]
      BY <2>1, ThisRun DEF Loop
    <3>2. job[r].guard + 1 \in 0 .. GuardLimit /\ job[r].step \in WorkStep
      BY <2>1, ThisRun, RunAssumption DEF JobState
    <3>3. j \in JobState
      BY <3>2, ThisRun DEF JobState, Place, Begun
    <3>4. job' \in [Run -> JobState] /\ \A q \in Run \ {r} : job'[q] = job[q]
      BY <3>1, <3>3, ThisRun
    <3>5. JobIs(r, "step", job[r].effect, job[r].step, job[r].launched, job[r].threw)
      BY <3>1, <3>4, ThisRun DEF JobIs, JobState
    <3> QED
      BY <3>2, <3>5
  <2>2. CASE ~(job[r].step # NoStep /\ job[r].guard < GuardLimit)
    BY <2>2, GoIs DEF Loop, Place, Begun, JobGoes
  <2> QED
    BY <2>1, <2>2
<1>3. Decided(job'[r])
  BY <1>1, <1>2, ThisRun DEF JobIs, Decided, Before, Begun
<1>4. RowAgrees(run'[r], job'[r], faults')
  BY <1>1, <1>2, ThisRun DEF JobIs, Decided, RowAgrees, Before, Begun
<1> QED
  BY <1>1, <1>2, <1>3, <1>4, ThisRun, OneRunSteps DEF InPhase, JobIs

-----------------------------------------------------------------------------
(* The steps of a workflow, and faults. *)

\* A fault is one of those that are counted.
LEMMA FaultCounts == ASSUME RunInd, Fault PROVE faults' > 0
BY DEF RunInd, RunShapes, Fault

\* A step that succeeded or failed is followed by the next, or the run gives up.
LEMMA SteppedKeepsInd ==
  ASSUME RunInd, NEW r \in Run, NEW ok \in BOOLEAN, Stepped(r, ok), UNCHANGED <<run, hook>>,
         \/ job[r].pc = "step" /\ faults' = faults
         \/ job[r].pc = "emit" /\ job[r].kind = "workflow" /\ Fault
  PROVE  RunInd'
<1>1. job[r].launched /\ job[r].kind = "workflow" /\ job[r].step \in WorkStep
  BY ThisRun DEF Decided, Begun
<1>2. NextStep(job[r].step, ok) \in WorkStep \cup {NoStep}
  BY <1>1, RunAssumption DEF NextStep
<1>3. PICK pc \in {"loop", "give up"}, step \in WorkStep \cup {NoStep} :
        job' = [job EXCEPT ![r].ok = ok, ![r].todo = {}, ![r].step = step, ![r].pc = pc]
  BY <1>1, <1>2, ThisRun DEF Stepped
<1>4. JobIs(r, pc, job[r].effect, step, job[r].launched, job[r].threw)
  <2> DEFINE j == [job[r] EXCEPT !.ok = ok, !.todo = {}, !.step = step, !.pc = pc]
  <2>1. job' = [job EXCEPT ![r] = j]
    BY <1>3, ThisRun
  <2>2. j \in JobState
    BY ThisRun, ZenonT(40) DEF JobState, Place, Begun
  <2>3. job' \in [Run -> JobState] /\ \A q \in Run \ {r} : job'[q] = job[q]
    BY <2>1, <2>2, ThisRun
  <2>4. job'[r] = j
    BY <2>1, ThisRun
  <2>5. /\ j.pc = pc /\ j.effect = job[r].effect /\ j.step = step /\ j.kind = job[r].kind
        /\ j.launched = job[r].launched /\ j.threw = job[r].threw /\ j.park = job[r].park
    BY ThisRun DEF JobState
  <2> QED
    BY <2>3, <2>4, <2>5 DEF JobIs
<1>5. Decided(job'[r])
  BY <1>1, <1>4, ThisRun DEF JobIs, Decided, Before, Begun
<1>6. (faults' = faults /\ job[r].pc = "step") \/ faults' > 0
  BY FaultCounts
<1>7. RowAgrees(run'[r], job'[r], faults')
  <2>1. job[r].pc \in {"step", "emit"} /\ run'[r] = run[r]
    OBVIOUS
  <2>2. /\ run[r].status \notin {"failed", "succeeded"}
        /\ run[r].status = "awaiting_approval" => job[r].pc = "emit" \/ faults > 0
    BY <2>1, ThisRun DEF RowAgrees
  <2>3. run[r].status = "awaiting_approval" => faults' > 0
    BY <1>6, <2>2
  <2> QED
    BY <1>1, <1>4, <2>1, <2>2, <2>3 DEF JobIs, RowAgrees, Before
<1> QED
  BY <1>4, <1>5, <1>7, ThisRun, OneRunSteps DEF InPhase, JobIs

\* The step of a workflow is carried out.
LEMMA WorkflowStepKeepsInd == ASSUME RunInd, NEW r \in Run, WorkflowStep(r) PROVE RunInd'
<1>1. Outcomes(r) \subseteq BOOLEAN
  BY DEF Outcomes
<1>2. PICK ok \in BOOLEAN : Stepped(r, ok)
  BY <1>1 DEF WorkflowStep
<1> QED
  BY <1>2, SteppedKeepsInd DEF WorkflowStep, Pc

\* A statement throws, in the handler or in the job.
LEMMA ThrowRunKeepsInd == ASSUME RunInd, NEW r \in Run, ThrowRun(r) PROVE RunInd'
<1>1. /\ Fault /\ UNCHANGED <<run, hook>>
      /\ job[r].pc \notin {"idle", "done", "dead", "refused", "step", "reason", "launch", "loop"}
  BY DEF ThrowRun, Pc
<1>2. CASE job[r].pc = "emit" /\ job[r].kind = "workflow"
  <2>1. Stepped(r, FALSE)
    BY <1>2 DEF ThrowRun, Pc
  <2> QED
    BY <1>1, <1>2, <2>1, SteppedKeepsInd
<1>3. CASE ~(job[r].pc = "emit" /\ job[r].kind = "workflow")
  <2>1. job' = [job EXCEPT ![r].pc = Caught(r), ![r].threw = TRUE]
    BY <1>1, <1>3 DEF ThrowRun, Pc
  <2>6. \/ Caught(r) = "dead"
        \/ Caught(r) = "catch" /\ job[r].pc \in {"finish", "report", "give up"}
    <3>1. CASE job[r].pc \in {"finish", "report", "give up"}
      BY <3>1 DEF Caught, Pc
    <3>2. CASE job[r].pc \notin {"finish", "report", "loop", "give up"}
      <4>1. ~(Pc(r) \in {"finish", "report", "loop", "give up"})
        BY <3>2 DEF Pc
      <4>2. Caught(r) = "dead"
        BY <4>1, Zenon DEF Caught
      <4> QED
        BY <4>2
    <3> QED
      BY <1>1, <3>1, <3>2
  <2>2. JobIs(r, Caught(r), job[r].effect, job[r].step, job[r].launched, TRUE)
    BY <2>1, <2>6, CaughtIs DEF Place, Begun
  <2>3. Decided(job'[r])
    BY <1>1, <2>6, <2>2, ThisRun DEF JobIs, Decided, Before, Begun
  <2>4. faults' > 0
    BY <1>1, FaultCounts
  <2>5. RowAgrees(run'[r], job'[r], faults')
    BY <1>1, <2>6, <2>2, <2>4, ThisRun DEF JobIs, Decided, RowAgrees, Before, Begun
  <2> QED
    BY <1>1, <2>2, <2>3, <2>5, ThisRun, OneRunSteps DEF InPhase, JobIs
<1> QED
  BY <1>2, <1>3

\* The isolate goes, and with it what it was doing.
LEMMA EvictKeepsInd == ASSUME RunInd, NEW r \in Run, Evict(r) PROVE RunInd'
<1>1. PICK pc \in {"done", "refused", "dead"} :
        Go(r, pc) /\ (pc = "refused" => job[r].pc = "refused")
  BY DEF Evict, Pc
<1>2. job[r].pc \notin {"idle", "dead"} /\ Fault /\ UNCHANGED <<run, hook>>
  BY DEF Evict, Pc
<1>3. JobGoes(r, pc)
  BY <1>1, GoIs DEF Place, Before
<1>4. Decided(job'[r])
  BY <1>1, <1>3, ThisRun DEF JobGoes, JobIs, Decided, Before, Begun
<1>5. RowAgrees(run'[r], job'[r], faults')
  BY <1>1, <1>2, <1>3, ThisRun DEF JobGoes, JobIs, Decided, RowAgrees, Before, Begun
<1> QED
  BY <1>2, <1>3, <1>4, <1>5, ThisRun, OneRunSteps DEF InPhase, JobGoes, JobIs

\* Webhooks and deliveries leave every run as it is.
LEMMA OthersKeepInd ==
  ASSUME RunInd, UNCHANGED <<run, job>>, hook' \subseteq Hook, UNCHANGED faults \/ Fault
  PROVE  RunInd'
<1>1. faults' \in 0 .. MaxFaults /\ (faults > 0 => faults' > 0)
  BY RunAssumption DEF RunInd, RunShapes, Fault
<1>2. \A r \in Run : InPhase(run[r], job[r], faults')
  BY <1>1 DEF RunInd, Phase, InPhase, RowAgrees
<1> QED
  BY <1>1, <1>2 DEF RunInd, RunShapes, Phase

\* Every step keeps the invariant of runs.
LEMMA RunStepInd == RunInd /\ [RunNext]_runVars => RunInd'
<1> SUFFICES ASSUME RunInd, [RunNext]_runVars PROVE RunInd'
  OBVIOUS
<1>1. ASSUME NEW r \in Run, Request(r) \/ Handle(r) PROVE RunInd'
  BY <1>1, RequestKeepsInd, HandlerKeepsInd, DecideKeepsInd, WaitKeepsInd, LaunchKeepsInd,
     EmitKeepsInd DEF Handle
<1>2. ASSUME NEW r \in Run, Job(r) PROVE RunInd'
  BY <1>2, JobKeepsInd, ReasonKeepsInd, LoopKeepsInd, WorkflowStepKeepsInd, WaitKeepsInd DEF Job
<1>3. ASSUME NEW r \in Run, ThrowRun(r) \/ Evict(r) PROVE RunInd'
  BY <1>3, ThrowRunKeepsInd, EvictKeepsInd
<1>4. ASSUME NEW h \in Hook, RegisterWebhook(h) PROVE RunInd'
  BY <1>4, OthersKeepInd DEF RegisterWebhook, RunInd, RunShapes
<1>5. ASSUME NEW d \in Run \X Hook, Deliver(d) \/ ThrowDelivery(d) PROVE RunInd'
  BY <1>5, OthersKeepInd DEF Deliver, Fetch, Record, ThrowDelivery, RunInd, RunShapes
<1>6. CASE UNCHANGED runVars
  BY <1>6, OthersKeepInd DEF runVars, RunInd, RunShapes
<1> QED
  BY <1>1, <1>2, <1>3, <1>4, <1>5, <1>6 DEF RunNext

-----------------------------------------------------------------------------
\* Work begins only on a decision that lets it, success carries the receipt of
\* its outcome and refusal that of the refusal: for any runs, workflows,
\* policies and faults.
THEOREM RunsStayGoverned == RunSpec => []RunInv
<1>1. RunInd => RunInv
  <2> SUFFICES ASSUME RunInd PROVE RunInv
    OBVIOUS
  <2>1. RunTypes
    BY DEF RunTypes, RunInd, RunShapes, RunRow, JobState
  <2>2. RunsAreGoverned
    BY ThisRun DEF RunsAreGoverned, Decided, RowAgrees
  <2> QED
    BY <2>1, <2>2 DEF RunInv
<1> QED
  BY <1>1, RunInitInd, RunStepInd, PTL DEF RunSpec

\* The outcome a caller has read stands, but for the audit entry that cannot be
\* written and the message for approval that cannot be queued.
THEOREM OutcomesKeepStanding == RunSpec => OutcomesStand
<1> DEFINE Stands(r) ==
      run'[r].status # run[r].status =>
        /\ run[r].status # "failed"
        /\ run[r].status = "succeeded" => run'[r].status = "failed" /\ Pc(r) = "catch"
        /\ run[r].status = "awaiting_approval" => faults > 0 /\ job[r].kind = "workflow"
<1>1. RunInd /\ [RunNext]_runVars => [\A r \in Run : Stands(r)]_runVars
  <2> SUFFICES ASSUME RunInd, RunNext, NEW r \in Run, run'[r].status # run[r].status
               PROVE  Stands(r)
    BY Zenon
  <2>1. PICK q \in Run :
          \/ CreateRun(q) \/ TurnDown(q) \/ Park(q) \/ StartRun(q) \/ HumanApproval(q)
          \/ GiveUp(q) \/ FinishRun(q) \/ Catch(q)
    BY DEF RunNext, RegisterWebhook, Request, Handle, Job, ThrowRun, Evict, Deliver, ThrowDelivery,
           Decide, AuditRequest, Launch, Emit, Reason, Loop, WorkflowStep, AuditCompletion,
           Fetch, Record
  <2>2. r = q
    BY <2>1, ThisRun DEF CreateRun, TurnDown, Park, StartRun, HumanApproval, GiveUp,
       FinishRun, Catch, Rows
  <2>3. /\ Pc(r) \in {"create", "turn down", "park", "start", "step", "give up", "finish", "catch"}
        /\ Pc(r) = "catch" => Rows(r, "failed", "none")
    BY <2>1, <2>2 DEF CreateRun, TurnDown, Park, StartRun, HumanApproval, GiveUp,
       FinishRun, Catch, Pc
  <2>4. Rows(r, "failed", "none") => run'[r].status = "failed"
    BY RowsIs DEF RowIs
  <2> QED
    BY <2>3, <2>4, ThisRun DEF Pc, RowAgrees, Before
<1> QED
  BY <1>1, RunInitInd, RunStepInd, PTL DEF RunSpec, OutcomesStand

-----------------------------------------------------------------------------
-----------------------------------------------------------------------------
(* Sign-in: the lock of checkLogin(). *)

\* Failures within the last window.
Recent == {n \in DOMAIN wrong : wrong[n] + Window > minute}

\* The row counts at least the recent failures, its time is not before any of
\* them, and a row that counts enough has been locked since the last.
SignInInd ==
  /\ minute \in Nat /\ wrong \in Seq(Nat)
  /\ lockout \in [failures : Nat, until : Nat, at : Nat]
  /\ \A n \in DOMAIN wrong : wrong[n] <= lockout.at /\ wrong[n] <= minute
  /\ IsFiniteSet(Recent) /\ Cardinality(Recent) <= lockout.failures
  /\ lockout.failures >= MaxFailures => \A n \in DOMAIN wrong : wrong[n] + Lock <= lockout.until

\* The lock follows from what the row counts.
LEMMA SignInIndHolds == SignInInd => LockoutHolds
<1> SUFFICES ASSUME SignInInd, Cardinality(Recent) >= MaxFailures, Lock >= Window
             PROVE  Locked
  BY DEF LockoutHolds, Recent
<1>1. /\ MaxFailures \in Nat \ {0} /\ Window \in Nat /\ Lock \in Nat
      /\ minute \in Nat /\ wrong \in Seq(Nat) /\ lockout.failures \in Nat /\ lockout.until \in Nat
      /\ Cardinality(Recent) \in Nat
  BY ConsoleAssumption, FS_CardinalityType DEF SignInInd
<1>2. Recent # {}
  <2> SUFFICES ASSUME Recent = {} PROVE FALSE
    OBVIOUS
  <2>1. Cardinality(Recent) = 0
    BY FS_EmptySet
  <2> QED
    BY <1>1, <2>1
<1>3. PICK n \in DOMAIN wrong : wrong[n] + Window > minute
  BY <1>2 DEF Recent
<1>4. wrong[n] \in Nat
  BY <1>1, <1>3, LenProperties, ElementOfSeq
<1>5. lockout.failures >= MaxFailures
  BY <1>1 DEF SignInInd
<1>6. wrong[n] + Lock <= lockout.until
  BY <1>3, <1>5 DEF SignInInd
<1> QED
  BY <1>1, <1>3, <1>4, <1>6 DEF Locked

\* At first nothing is counted.
LEMMA SignInInitInd == ConsoleInit => SignInInd
<1> SUFFICES ASSUME ConsoleInit PROVE SignInInd
  OBVIOUS
<1>1. wrong = <<>> /\ minute = 0 /\ lockout = NoFailures /\ <<>> \in Seq(Nat) /\ DOMAIN <<>> = {}
  BY EmptySeq DEF ConsoleInit
<1>2. Recent = {}
  BY <1>1 DEF Recent
<1> QED
  BY <1>1, <1>2, FS_EmptySet DEF SignInInd, NoFailures

\* Time and every step of a sign-in keep it.
LEMMA SignInKeepsInd ==
  ASSUME SignInInd, SignInNext
  PROVE  SignInInd'
<1>1. /\ MaxFailures \in Nat \ {0} /\ Window \in Nat /\ Lock \in Nat \ {0}
      /\ minute \in Nat /\ wrong \in Seq(Nat) /\ lockout \in [failures : Nat, until : Nat, at : Nat]
      /\ Len(wrong) \in Nat /\ DOMAIN wrong = 1 .. Len(wrong)
      /\ \A n \in 1 .. Len(wrong) : wrong[n] \in Nat
      /\ IsFiniteSet(Recent) /\ Cardinality(Recent) \in Nat
  BY ConsoleAssumption, FS_CardinalityType, LenProperties, ElementOfSeq DEF SignInInd
<1>2. CASE Minute
  <2>1. minute' = minute + 1 /\ UNCHANGED <<lockout, wrong>>
    BY <1>2 DEF Minute
  <2>2. Recent' \subseteq Recent
    BY <1>1, <2>1 DEF Recent
  <2>3. /\ IsFiniteSet(Recent') /\ Cardinality(Recent') \in Nat
        /\ Cardinality(Recent') <= Cardinality(Recent)
    BY <1>1, <2>2, FS_Subset, FS_CardinalityType
  <2>4. \A n \in DOMAIN wrong' : wrong'[n] <= lockout'.at /\ wrong'[n] <= minute'
    BY <1>1, <2>1 DEF SignInInd
  <2> QED
    BY <1>1, <2>1, <2>3, <2>4 DEF SignInInd
<1>3. ASSUME NEW a \in Attempt, TryLogin(a)
      PROVE  SignInInd'
  BY <1>3 DEF TryLogin, SignInInd, Recent
<1>4. ASSUME NEW a \in Attempt, ClearFailures(a)
      PROVE  SignInInd'
  <2>1. /\ wrong' = <<>> /\ minute' = minute /\ lockout' = NoFailures
        /\ <<>> \in Seq(Nat) /\ DOMAIN <<>> = {}
    BY <1>4, EmptySeq DEF ClearFailures
  <2>2. Recent' = {}
    BY <2>1 DEF Recent
  <2> QED
    BY <1>1, <2>1, <2>2, FS_EmptySet DEF SignInInd, NoFailures
<1>5. ASSUME NEW a \in Attempt, RecordFailure(a), Locked
      PROVE  SignInInd'
  <2>1. /\ wrong' = wrong /\ minute' = minute
        /\ lockout' = [failures |-> lockout.failures, at |-> minute, until |-> lockout.until]
    BY <1>5 DEF RecordFailure, Failures
  <2>2. Recent' = Recent
    BY <2>1 DEF Recent
  <2> QED
    BY <1>1, <2>1, <2>2 DEF SignInInd
<1>6. ASSUME NEW a \in Attempt, RecordFailure(a), ~Locked
      PROVE  SignInInd'
  <2>1. /\ wrong' = Append(wrong, minute) /\ minute' = minute
        /\ lockout' = [failures |-> Failures, at |-> minute,
                       until |-> IF Failures >= MaxFailures THEN minute + Lock ELSE 0]
    BY <1>6 DEF RecordFailure
  <2>2. Failures = IF lockout.at + Window < minute THEN 1 ELSE lockout.failures + 1
    BY <1>6 DEF Failures
  <2>3. /\ wrong' \in Seq(Nat) /\ Len(wrong') = Len(wrong) + 1
        /\ \A n \in 1 .. Len(wrong) : wrong'[n] = wrong[n]
        /\ wrong'[Len(wrong) + 1] = minute
        /\ DOMAIN wrong' = 1 .. Len(wrong) + 1
    BY <1>1, <2>1, AppendProperties, LenProperties
  <2>4. \A n \in 1 .. Len(wrong) + 1 : n \in 1 .. Len(wrong) \/ n = Len(wrong) + 1
    BY <1>1
  <2>5. \A n \in DOMAIN wrong' : wrong'[n] <= minute
    <3>1. \A n \in 1 .. Len(wrong) : wrong[n] <= minute
      BY <1>1 DEF SignInInd
    <3>2. minute <= minute
      BY DEF SignInInd
    <3> SUFFICES ASSUME NEW n \in DOMAIN wrong' PROVE wrong'[n] <= minute
      OBVIOUS
    <3>3. CASE n \in 1 .. Len(wrong)
      BY <2>3, <3>1, <3>3
    <3>4. CASE n = Len(wrong) + 1
      BY <2>3, <3>2, <3>4
    <3> QED
      BY <2>3, <2>4, <3>3, <3>4
  <2>6. Failures \in Nat
    BY <1>1, <2>2
  <2>7. IsFiniteSet(Recent') /\ Cardinality(Recent') <= Failures
    <3>1. Recent' \subseteq Recent \cup {Len(wrong) + 1}
      BY <1>1, <2>1, <2>3, <2>4 DEF Recent
    <3>2. /\ IsFiniteSet(Recent \cup {Len(wrong) + 1})
          /\ Cardinality(Recent \cup {Len(wrong) + 1}) <= Cardinality(Recent) + 1
          /\ Cardinality(Recent \cup {Len(wrong) + 1}) \in Nat
      <4>1. /\ IsFiniteSet(Recent \cup {Len(wrong) + 1})
            /\ \/ Cardinality(Recent \cup {Len(wrong) + 1}) = Cardinality(Recent)
               \/ Cardinality(Recent \cup {Len(wrong) + 1}) = Cardinality(Recent) + 1
        BY <1>1, FS_AddElement
      <4> QED
        BY <1>1, <4>1
    <3>3. /\ IsFiniteSet(Recent') /\ Cardinality(Recent') \in Nat
          /\ Cardinality(Recent') <= Cardinality(Recent) + 1
      BY <1>1, <3>1, <3>2, FS_Subset, FS_CardinalityType
    <3>4. CASE lockout.at + Window < minute
      <4>1. Recent = {}
        BY <1>1, <3>4 DEF SignInInd, Recent
      <4>2. Cardinality(Recent) = 0
        BY <4>1, FS_EmptySet
      <4> QED
        BY <1>1, <2>2, <3>3, <3>4, <4>2
    <3>5. CASE ~(lockout.at + Window < minute)
      BY <1>1, <2>2, <3>3, <3>5 DEF SignInInd
    <3> QED
      BY <3>4, <3>5
  <2>8. Failures >= MaxFailures => \A n \in DOMAIN wrong' : wrong'[n] + Lock <= minute + Lock
    <3>1. \A n \in DOMAIN wrong' : wrong'[n] \in Nat
      BY <1>1, <2>3, ElementOfSeq
    <3> QED
      BY <1>1, <2>5, <3>1
  <2>9. lockout' \in [failures : Nat, until : Nat, at : Nat]
    BY <1>1, <2>1, <2>6
  <2>10. /\ lockout'.failures = Failures /\ lockout'.at = minute
         /\ Failures >= MaxFailures => lockout'.until = minute + Lock
    BY <2>1
  <2> QED
    BY <1>1, <2>1, <2>3, <2>5, <2>7, <2>8, <2>9, <2>10 DEF SignInInd
<1> QED
  BY <1>2, <1>3, <1>4, <1>5, <1>6 DEF SignInNext

\* So do the steps of the other parts.
LEMMA SignInIdleInd ==
  ASSUME SignInInd, UNCHANGED signInVars
  PROVE  SignInInd'
BY DEF SignInInd, signInVars, Recent

-----------------------------------------------------------------------------
(* changePlan(). *)

\* While no changes overlap and none fails: a change under way starts from the
\* customer's plan, or has set it, and goes on from the last one recorded.
PlanInd ==
  /\ changer \in [Operator -> [at : {"idle", "set", "record"}, from : Plan \cup {"none"},
                               to : Plan \cup {"none"}]]
  /\ changes \in Seq([from : Plan \cup {"none"}, to : Plan \cup {"none"}])
  /\ plan \in Plan \cup {"none"} /\ muddled \in BOOLEAN
  /\ ~muddled =>
       /\ \A o, c \in Operator : changer[o].at # "idle" /\ changer[c].at # "idle" => o = c
       /\ \A n \in 1 .. Len(changes) - 1 : changes[n + 1].from = changes[n].to
       /\ \A o \in Operator :
            /\ changer[o].at = "set" => changer[o].from = plan
            /\ changer[o].at = "record" =>
                 changer[o].to = plan /\ (changes # <<>> => Last(changes).to = changer[o].from)
       /\ changes # <<>> /\ (\A o \in Operator : changer[o].at # "record") =>
            Last(changes).to = plan

\* At first nothing is recorded and no change is under way.
LEMMA PlanInitInd == ConsoleInit => PlanInd
<1> SUFFICES ASSUME ConsoleInit PROVE PlanInd
  OBVIOUS
<1>1. <<>> \in Seq([from : Plan \cup {"none"}, to : Plan \cup {"none"}]) /\ Len(<<>>) = 0
  BY EmptySeq
<1>2. changes = <<>> /\ plan \in Plan /\ muddled = FALSE /\ changer = [o \in Operator |-> NoChange]
  BY DEF ConsoleInit
<1>3. NoChange \in [at : {"idle", "set", "record"}, from : Plan \cup {"none"},
                    to : Plan \cup {"none"}]
  BY DEF NoChange
<1>4. changer \in [Operator -> [at : {"idle", "set", "record"}, from : Plan \cup {"none"},
                                to : Plan \cup {"none"}]]
      /\ \A o \in Operator : changer[o].at = "idle"
  BY <1>2, <1>3 DEF NoChange
<1>5. \A n \in 1 .. Len(changes) - 1 : FALSE
  BY <1>1, <1>2
<1> QED
  BY <1>1, <1>2, <1>4, <1>5 DEF PlanInd

\* Every step of a change of plan keeps it.
LEMMA PlanKeepsInd ==
  ASSUME PlanInd, PlanNext
  PROVE  PlanInd'
<1> DEFINE P == Plan \cup {"none"}
           Changer == [at : {"idle", "set", "record"}, from : P, to : P]
           Change == [from : P, to : P]
<1>0. /\ changer \in [Operator -> Changer] /\ changes \in Seq(Change)
      /\ plan \in P /\ muddled \in BOOLEAN
      /\ Len(changes) \in Nat
  BY LenProperties DEF PlanInd
<1>1. ASSUME NEW o \in Operator, ReadPlan(o)
      PROVE  PlanInd'
  <2>1. PICK to \in Plan :
          changer' = [changer EXCEPT ![o] = [at |-> "set", from |-> plan, to |-> to]]
    BY <1>1 DEF ReadPlan
  <2>2. /\ changer' \in [Operator -> Changer]
        /\ changer'[o] = [at |-> "set", from |-> plan, to |-> to]
        /\ \A c \in Operator \ {o} : changer'[c] = changer[c]
        /\ changer[o].at = "idle" /\ UNCHANGED <<plan, changes>> /\ muddled' \in BOOLEAN
        /\ ~muddled' => ~muddled /\ \A c \in Operator : changer[c].at = "idle"
    BY <1>0, <1>1, <2>1 DEF ReadPlan
  <2> QED
    BY <1>0, <2>2 DEF PlanInd
<1>2. ASSUME NEW o \in Operator, SetPlan(o)
      PROVE  PlanInd'
  <2>1. /\ changer' \in [Operator -> Changer] /\ changer'[o].at = "record"
        /\ changer'[o].from = changer[o].from /\ changer'[o].to = changer[o].to
        /\ \A c \in Operator \ {o} : changer'[c] = changer[c]
        /\ changer[o].at = "set" /\ UNCHANGED <<changes, muddled>>
        /\ plan' = changer[o].to /\ plan' \in P
    BY <1>0, <1>2 DEF SetPlan
  <2> QED
    BY <1>0, <2>1 DEF PlanInd
<1>3. ASSUME NEW o \in Operator, RecordChange(o)
      PROVE  PlanInd'
  <2> DEFINE e == [from |-> changer[o].from, to |-> changer[o].to]
  <2>1. e \in Change /\ e.from = changer[o].from /\ e.to = changer[o].to
    BY <1>0
  <2>2. /\ changer' \in [Operator -> Changer] /\ changer'[o].at = "idle"
        /\ \A c \in Operator \ {o} : changer'[c] = changer[c]
        /\ changer[o].at = "record" /\ UNCHANGED <<plan, muddled>>
        /\ changes' = Append(changes, e)
    BY <1>0, <1>3 DEF RecordChange, NoChange
  <2> HIDE DEF e
  <2>3. /\ changes' \in Seq(Change) /\ Len(changes') = Len(changes) + 1
        /\ \A n \in 1 .. Len(changes) : changes'[n] = changes[n]
        /\ changes'[Len(changes) + 1] = e
    BY <1>0, <2>1, <2>2, AppendProperties
  <2>4. Last(changes').to = e.to
    BY <2>3 DEF Last
  <2>5. ASSUME ~muddled, NEW n \in 1 .. Len(changes') - 1
        PROVE  changes'[n + 1].from = changes'[n].to
    <3>1. CASE n \in 1 .. Len(changes) - 1
      <4>1. n \in 1 .. Len(changes) /\ n + 1 \in 1 .. Len(changes)
        BY <1>0, <3>1
      <4> QED
        BY <2>3, <2>5, <3>1, <4>1 DEF PlanInd
    <3>2. CASE n = Len(changes)
      <4>1. changes # <<>> /\ n \in 1 .. Len(changes)
        BY <1>0, <2>3, <3>2
      <4>2. Last(changes).to = e.from
        BY <2>1, <2>2, <2>5, <4>1 DEF PlanInd
      <4> QED
        BY <2>3, <3>2, <4>1, <4>2 DEF Last
    <3> QED
      BY <1>0, <2>3, <3>1, <3>2
  <2>6. ASSUME ~muddled
        PROVE  (\A c \in Operator : changer'[c].at = "idle") /\ Last(changes').to = plan
    <3>1. /\ \A q, c \in Operator : changer[q].at # "idle" /\ changer[c].at # "idle" => q = c
          /\ changer[o].at = "record" => changer[o].to = plan
      BY <2>2, <2>6 DEF PlanInd
    <3>2. \A c \in Operator : changer'[c].at = "idle"
      BY <1>0, <2>1, <2>2, <3>1
    <3> QED
      BY <2>1, <2>2, <2>4, <3>1, <3>2
  <2> QED
    BY <1>0, <2>2, <2>3, <2>5, <2>6 DEF PlanInd
<1>4. ASSUME NEW o \in Operator, ChangeFails(o)
      PROVE  PlanInd'
  <2>1. changer' \in [Operator -> Changer] /\ plan' \in P /\ muddled' = TRUE /\ UNCHANGED changes
    <3>1. muddled' = TRUE /\ UNCHANGED changes
      BY <1>4 DEF ChangeFails
    <3>2. CASE /\ changer[o].at \in {"set", "record"}
               /\ plan' \in IF changer[o].at = "set" THEN {plan, changer[o].to} ELSE {plan}
               /\ changer' = [changer EXCEPT ![o] = NoChange]
      BY <1>0, <3>1, <3>2 DEF NoChange
    <3>3. CASE /\ changer[o].at = "set"
               /\ changer' = [changer EXCEPT ![o].from = "none"]
               /\ UNCHANGED plan
      BY <1>0, <3>1, <3>3
    <3> QED
      BY <1>4, <3>2, <3>3 DEF ChangeFails
  <2> QED
    BY <1>0, <2>1 DEF PlanInd
<1> QED
  BY <1>1, <1>2, <1>3, <1>4 DEF PlanNext

\* So do the steps of the other parts.
LEMMA PlanIdleInd ==
  ASSUME PlanInd, UNCHANGED planVars
  PROVE  PlanInd'
BY DEF PlanInd, planVars

-----------------------------------------------------------------------------
(* syncPlans(). *)

\* While no syncs overlap: no tier has two plans, and what the sync still has
\* to create has none.
SyncInd ==
  /\ syncing \in [Operator -> [at : {"idle", "create"}, n : Nat, missing : SUBSET (DOMAIN Tier)]]
  /\ finix \in [DOMAIN Tier -> Nat] /\ together \in BOOLEAN
  /\ ~together =>
       /\ \A o, s \in Operator : syncing[o].at = "create" /\ syncing[s].at = "create" => o = s
       /\ \A n \in DOMAIN Tier : finix[n] <= 1
       /\ \A o \in Operator : syncing[o].at = "create" =>
            \A m \in syncing[o].missing : m >= syncing[o].n => finix[m] = 0

\* At first Finix has one plan of a tier at most.
LEMMA SyncInitInd == ConsoleInit => SyncInd
<1> SUFFICES ASSUME ConsoleInit PROVE SyncInd
  OBVIOUS
<1>1. /\ finix \in [DOMAIN Tier -> {0, 1}] /\ together = FALSE
      /\ syncing = [o \in Operator |-> NoSync]
  BY DEF ConsoleInit
<1>2. NoSync \in [at : {"idle", "create"}, n : Nat, missing : SUBSET (DOMAIN Tier)]
  BY DEF NoSync
<1>3. finix \in [DOMAIN Tier -> Nat] /\ \A n \in DOMAIN Tier : finix[n] <= 1
  BY <1>1
<1> QED
  BY <1>1, <1>2, <1>3 DEF SyncInd, NoSync

\* A sync that has dealt with a tier goes on to the next, or ends.
LEMMA NextTierMoves ==
  ASSUME SyncInd, NEW o \in Operator, syncing[o].at = "create", NextTier(o)
  PROVE  /\ syncing' \in
              [Operator -> [at : {"idle", "create"}, n : Nat, missing : SUBSET (DOMAIN Tier)]]
         /\ \A s \in Operator \ {o} : syncing'[s] = syncing[s]
         /\ syncing'[o].at = "create" => /\ syncing'[o].missing = syncing[o].missing
                                         /\ syncing'[o].n = syncing[o].n + 1
<1> DEFINE Sync == [at : {"idle", "create"}, n : Nat, missing : SUBSET (DOMAIN Tier)]
<1>1. syncing \in [Operator -> Sync] /\ syncing[o] \in Sync
  BY DEF SyncInd
<1> DEFINE new == IF syncing[o].n = Len(Tier) THEN NoSync
                  ELSE [syncing[o] EXCEPT !.n = syncing[o].n + 1]
<1>2. syncing' = [syncing EXCEPT ![o] = new]
  BY DEF NextTier
<1>3. /\ new \in Sync
      /\ new.at = "create" => new.missing = syncing[o].missing /\ new.n = syncing[o].n + 1
  BY <1>1 DEF NoSync
<1> HIDE DEF new
<1> QED
  BY <1>1, <1>2, <1>3

\* Every step of a sync keeps it.
LEMMA SyncKeepsInd ==
  ASSUME SyncInd, SyncNext
  PROVE  SyncInd'
<1> DEFINE Sync == [at : {"idle", "create"}, n : Nat, missing : SUBSET (DOMAIN Tier)]
<1>0. /\ syncing \in [Operator -> Sync] /\ finix \in [DOMAIN Tier -> Nat] /\ together \in BOOLEAN
  BY DEF SyncInd
<1>1. ASSUME NEW o \in Operator, ListPlans(o)
      PROVE  SyncInd'
  <2> DEFINE new == [at |-> "create", n |-> 1, missing |-> Missing(finix)]
  <2>1. new \in Sync /\ new.at = "create" /\ \A m \in new.missing : finix[m] = 0
    BY DEF Missing
  <2>2. /\ syncing' = [syncing EXCEPT ![o] = new] /\ UNCHANGED finix /\ together' \in BOOLEAN
        /\ ~together' => ~together /\ \A s \in Operator : syncing[s].at # "create"
    BY <1>0, <1>1 DEF ListPlans
  <2> HIDE DEF new
  <2>3. /\ syncing' \in [Operator -> Sync] /\ syncing'[o] = new
        /\ \A s \in Operator \ {o} : syncing'[s] = syncing[s]
    BY <1>0, <2>1, <2>2
  <2> QED
    BY <1>0, <2>1, <2>2, <2>3 DEF SyncInd
\* What the sync may create now had no plan, and is past when it is created.
<1>2. ASSUME NEW o \in Operator, syncing[o].at = "create",
             syncing[o].n \in syncing[o].missing, NEW done \in {0, 1},
             finix' = [finix EXCEPT ![syncing[o].n] = @ + done], UNCHANGED together,
             NextTier(o) \/ syncing' = [syncing EXCEPT ![o] = NoSync]
      PROVE  SyncInd'
  <2>1. /\ syncing' \in [Operator -> Sync]
        /\ \A s \in Operator \ {o} : syncing'[s] = syncing[s]
        /\ syncing'[o].at = "create" => /\ syncing'[o].missing = syncing[o].missing
                                        /\ syncing'[o].n = syncing[o].n + 1
    <3>1. CASE NextTier(o)
      BY <1>2, <3>1, NextTierMoves
    <3>2. CASE syncing' = [syncing EXCEPT ![o] = NoSync]
      BY <1>0, <3>2 DEF NoSync
    <3> QED
      BY <1>2, <3>1, <3>2
  <2>2. syncing[o].n \in DOMAIN Tier /\ syncing[o].n \in Nat
    BY <1>0, <1>2
  <2>3. /\ finix' \in [DOMAIN Tier -> Nat] /\ finix'[syncing[o].n] = finix[syncing[o].n] + done
        /\ \A m \in DOMAIN Tier \ {syncing[o].n} : finix'[m] = finix[m]
    BY <1>0, <1>2, <2>2
  <2>4. ASSUME ~together
        PROVE  /\ \A n \in DOMAIN Tier : finix'[n] <= 1
               /\ \A s \in Operator \ {o} : syncing[s].at # "create"
               /\ \A m \in syncing[o].missing : m >= syncing[o].n + 1 => finix'[m] = 0
    <3>1. /\ finix[syncing[o].n] = 0 /\ \A n \in DOMAIN Tier : finix[n] <= 1
          /\ \A s \in Operator \ {o} : syncing[s].at # "create"
          /\ \A m \in syncing[o].missing : m >= syncing[o].n => finix[m] = 0
      BY <1>2, <2>2, <2>4 DEF SyncInd
    <3>2. syncing[o].missing \subseteq DOMAIN Tier /\ DOMAIN Tier \subseteq Nat
      BY <1>0, ConsoleAssumption, LenProperties
    <3> QED
      BY <2>2, <2>3, <3>1, <3>2
  <2> QED
    BY <1>0, <1>2, <2>1, <2>3, <2>4 DEF SyncInd
<1>3. ASSUME NEW o \in Operator, syncing[o].at = "create", UNCHANGED <<finix, together>>,
             NextTier(o)
      PROVE  SyncInd'
  <2>1. /\ syncing' \in [Operator -> Sync]
        /\ \A s \in Operator \ {o} : syncing'[s] = syncing[s]
        /\ syncing'[o].at = "create" => /\ syncing'[o].missing = syncing[o].missing
                                        /\ syncing'[o].n = syncing[o].n + 1
    BY <1>3, NextTierMoves
  <2>2. /\ syncing[o].n \in Nat /\ \A m \in syncing[o].missing : m \in Nat
    BY <1>0, ConsoleAssumption, LenProperties
  <2> QED
    BY <1>0, <1>3, <2>1, <2>2 DEF SyncInd
<1>4. ASSUME NEW o \in Operator, CreatePlan(o)
      PROVE  SyncInd'
  <2>1. CASE syncing[o].n \in syncing[o].missing
    BY <1>2, <1>4, <2>1 DEF CreatePlan
  <2>2. CASE syncing[o].n \notin syncing[o].missing
    BY <1>3, <1>4, <2>2 DEF CreatePlan
  <2> QED
    BY <2>1, <2>2
<1>5. ASSUME NEW o \in Operator, CreateFails(o)
      PROVE  SyncInd'
  BY <1>2, <1>5 DEF CreateFails
<1> QED
  BY <1>1, <1>4, <1>5 DEF SyncNext

\* So do the steps of the other parts.
LEMMA SyncIdleInd ==
  ASSUME SyncInd, UNCHANGED syncVars
  PROVE  SyncInd'
BY DEF SyncInd, syncVars

-----------------------------------------------------------------------------
(* decideContent(). *)

\* Of a draft nobody mixed up and whose posts were all heard of: one operator
\* at most decides on it, and it is posted once it is taken or scheduled.
DraftStands(d) ==
  /\ \A o, c \in Deciding(d) : o = c
  /\ \A o \in Deciding(d) : /\ content[d] \in {"draft", "approved"}
                            /\ posts[d] = IF decider[o].at = "taken" THEN 1 ELSE 0
  /\ Deciding(d) = {} => posts[d] = IF content[d] = "scheduled" THEN 1 ELSE 0
Decider == [at : {"idle", "post", "reject", "taken", "caught"}, draft : Draft \cup {"none"}]
ContentInd ==
  /\ content \in [Draft -> {"draft", "approved", "rejected", "scheduled"}]
  /\ posts \in [Draft -> Nat] /\ decider \in [Operator -> Decider]
  /\ \A o \in Operator : decider[o].at # "idle" => decider[o].draft \in Draft
  /\ \A d \in Draft \ (mixed \cup unheard) : DraftStands(d)

\* What is claimed of drafts follows.
LEMMA ContentIndHolds == ContentInd => DraftsPostOnce
<1> SUFFICES ASSUME ContentInd, NEW d \in Draft \ (mixed \cup unheard)
             PROVE  /\ posts[d] <= 1
                    /\ content[d] = "scheduled" => posts[d] = 1
                    /\ content[d] \in {"draft", "approved", "rejected"} /\ Deciding(d) = {} =>
                         posts[d] = 0
  BY DEF DraftsPostOnce
<1>1. DraftStands(d)
  BY DEF ContentInd
<1>2. CASE Deciding(d) = {}
  BY <1>1, <1>2 DEF DraftStands
<1>3. ASSUME NEW o \in Deciding(d)
      PROVE  posts[d] \in {0, 1} /\ content[d] \in {"draft", "approved"}
  BY <1>1 DEF DraftStands
<1> QED
  BY <1>2, <1>3

\* At first every draft is a draft.
LEMMA ContentInitInd == ConsoleInit => ContentInd
<1> SUFFICES ASSUME ConsoleInit PROVE ContentInd
  OBVIOUS
<1>1. /\ content = [d \in Draft |-> "draft"] /\ posts = [d \in Draft |-> 0]
      /\ decider = [o \in Operator |-> NoDecision]
  BY DEF ConsoleInit
<1>2. \A d \in Draft : Deciding(d) = {}
  BY <1>1 DEF Deciding, NoDecision
<1>3. decider \in [Operator -> Decider]
  BY <1>1 DEF NoDecision, Decider
<1> QED
  BY <1>1, <1>2, <1>3 DEF ContentInd, DraftStands, NoDecision

\* A step of one operator on one draft leaves the other drafts alone.
LEMMA DecisionMoves ==
  ASSUME ContentInd, NEW o \in Operator, NEW d \in Draft,
         decider' \in [Operator -> Decider], \A c \in Operator \ {o} : decider'[c] = decider[c],
         decider[o].at # "idle" => decider[o].draft = d,
         decider'[o].at # "idle" => decider'[o].draft = d,
         content' \in [Draft -> {"draft", "approved", "rejected", "scheduled"}],
         posts' \in [Draft -> Nat],
         \A e \in Draft \ {d} : content'[e] = content[e] /\ posts'[e] = posts[e],
         mixed \subseteq mixed', unheard \subseteq unheard',
         d \notin mixed' \cup unheard' => DraftStands(d)'
  PROVE  ContentInd'
<1>1. ASSUME NEW e \in Draft \ (mixed' \cup unheard'), e # d
      PROVE  DraftStands(e)'
  <2>1. Deciding(e)' = Deciding(e) /\ \A c \in Deciding(e) : decider'[c] = decider[c]
    BY <1>1 DEF Deciding, ContentInd
  <2>2. DraftStands(e) /\ content'[e] = content[e] /\ posts'[e] = posts[e]
    BY <1>1 DEF ContentInd
  <2> QED
    BY <2>1, <2>2 DEF DraftStands
<1> QED
  BY <1>1 DEF ContentInd

\* The operator of a draft nobody else decides on, and what is left of it.
LEMMA DecidesAlone ==
  ASSUME ContentInd, NEW o \in Operator, decider[o].at # "idle", NEW d, d = decider[o].draft,
         d \notin mixed \cup unheard
  PROVE  /\ Deciding(d) = {o} /\ content[d] \in {"draft", "approved"}
         /\ posts[d] = IF decider[o].at = "taken" THEN 1 ELSE 0
<1>1. o \in Deciding(d) /\ DraftStands(d)
  BY DEF Deciding, ContentInd
<1> QED
  BY <1>1 DEF DraftStands

\* The operator gives the draft a status and is done.
LEMMA StatusKeepsInd ==
  ASSUME ContentInd, NEW o \in Operator, NEW status \in {"approved", "rejected", "scheduled"},
         SetStatus(o, status), decider[o].at \in {"reject", "taken", "caught"},
         decider[o].at = "taken" <=> status = "scheduled"
  PROVE  ContentInd'
<1>0. /\ content \in [Draft -> {"draft", "approved", "rejected", "scheduled"}]
      /\ posts \in [Draft -> Nat] /\ decider \in [Operator -> Decider]
  BY DEF ContentInd
<1>1. PICK d \in Draft : d = decider[o].draft
  BY DEF ContentInd
<1>2. /\ content' = [content EXCEPT ![d] = status] /\ UNCHANGED <<posts, mixed, unheard>>
      /\ decider' = [decider EXCEPT ![o] = NoDecision]
      /\ NoDecision \in Decider /\ NoDecision.at = "idle"
  BY <1>1 DEF SetStatus, NoDecision, Decider
<1>3. /\ decider' \in [Operator -> Decider] /\ decider'[o].at = "idle"
      /\ \A c \in Operator \ {o} : decider'[c] = decider[c]
      /\ content' \in [Draft -> {"draft", "approved", "rejected", "scheduled"}]
      /\ content'[d] = status /\ \A e \in Draft \ {d} : content'[e] = content[e]
  BY <1>0, <1>2
<1>4. ASSUME d \notin mixed' \cup unheard' PROVE DraftStands(d)'
  <2>1. Deciding(d) = {o} /\ posts[d] = IF decider[o].at = "taken" THEN 1 ELSE 0
    BY <1>1, <1>2, <1>4, DecidesAlone
  <2>2. Deciding(d)' = {}
    BY <1>3, <2>1 DEF Deciding
  <2> QED
    BY <1>2, <1>3, <2>1, <2>2 DEF DraftStands
<1> QED
  BY <1>0, <1>1, <1>2, <1>3, <1>4, DecisionMoves

\* The operator goes on with the draft, or gives it up; Postiz may have taken it.
LEMMA PostKeepsInd ==
  ASSUME ContentInd, NEW o \in Operator, decider[o].at # "idle",
         NEW at \in {"taken", "caught", "idle"}, NEW took \in {0, 1},
         decider' \in [Operator -> Decider], decider'[o].at = at,
         \A c \in Operator \ {o} : decider'[c] = decider[c],
         at # "idle" => decider'[o].draft = decider[o].draft,
         posts' = [posts EXCEPT ![decider[o].draft] = @ + took],
         unheard \subseteq unheard', UNCHANGED <<content, mixed>>,
         decider[o].draft \notin unheard' => decider[o].at # "taken" /\ (at = "taken" <=> took = 1)
  PROVE  ContentInd'
<1>0. /\ content \in [Draft -> {"draft", "approved", "rejected", "scheduled"}]
      /\ posts \in [Draft -> Nat] /\ decider \in [Operator -> Decider]
  BY DEF ContentInd
<1>1. PICK d \in Draft : d = decider[o].draft
  BY DEF ContentInd
<1>2. /\ posts' \in [Draft -> Nat] /\ posts'[d] = posts[d] + took
      /\ \A e \in Draft \ {d} : posts'[e] = posts[e]
  BY <1>0, <1>1
<1>3. ASSUME d \notin mixed' \cup unheard' PROVE DraftStands(d)'
  <2>1. /\ Deciding(d) = {o} /\ content[d] \in {"draft", "approved"} /\ posts[d] = 0
        /\ at = "taken" <=> took = 1
    BY <1>1, <1>3, DecidesAlone
  <2>2. Deciding(d)' = IF at = "idle" THEN {} ELSE {o}
    BY <2>1 DEF Deciding
  <2>3. posts'[d] = took /\ content'[d] = content[d]
    BY <1>0, <1>2, <2>1
  <2> QED
    BY <2>1, <2>2, <2>3 DEF DraftStands
<1> QED
  BY <1>0, <1>1, <1>2, <1>3, DecisionMoves

\* Every step of a decision keeps it.
LEMMA ContentKeepsInd ==
  ASSUME ContentInd, ContentNext
  PROVE  ContentInd'
<1>0. /\ content \in [Draft -> {"draft", "approved", "rejected", "scheduled"}]
      /\ posts \in [Draft -> Nat] /\ decider \in [Operator -> Decider]
      /\ \A o \in Operator : decider[o].at # "idle" => decider[o].draft \in Draft
  BY DEF ContentInd
<1>1. ASSUME NEW o \in Operator, ReadDraft(o)
      PROVE  ContentInd'
  <2>1. PICK d \in Draft, at \in {"post", "reject"} :
          /\ content[d] \in {"draft", "approved"}
          /\ decider' = [decider EXCEPT ![o] = [at |-> at, draft |-> d]]
          /\ mixed' = IF Deciding(d) = {} THEN mixed ELSE mixed \cup {d}
    BY <1>1 DEF ReadDraft
  <2>2. decider[o].at = "idle" /\ UNCHANGED <<content, posts, unheard>>
    BY <1>1 DEF ReadDraft
  <2>3. /\ decider' \in [Operator -> Decider] /\ decider'[o].at = at /\ decider'[o].draft = d
        /\ \A c \in Operator \ {o} : decider'[c] = decider[c]
    BY <1>0, <2>1 DEF Decider
  <2>4. ASSUME d \notin mixed' \cup unheard' PROVE DraftStands(d)'
    <3>1. Deciding(d) = {} /\ d \notin mixed \cup unheard
      BY <2>1, <2>2, <2>4
    <3>2. Deciding(d)' = {o}
      BY <2>3, <3>1 DEF Deciding
    <3>3. posts[d] = 0
      BY <2>1, <3>1 DEF ContentInd, DraftStands
    <3> QED
      BY <2>1, <2>2, <2>3, <3>2, <3>3 DEF DraftStands
  <2>5. mixed \subseteq mixed'
    BY <2>1
  <2> QED
    BY <1>0, <2>2, <2>3, <2>4, <2>5, DecisionMoves
<1>2. ASSUME NEW o \in Operator, PostDraft(o)
      PROVE  ContentInd'
  <2>1. /\ posts' = [posts EXCEPT ![decider[o].draft] = @ + 1] /\ decider[o].at = "post"
        /\ decider' = [decider EXCEPT ![o].at = "taken"] /\ UNCHANGED <<content, mixed, unheard>>
    BY <1>2 DEF PostDraft
  <2>2. /\ decider' \in [Operator -> Decider] /\ decider'[o].at = "taken"
        /\ decider'[o].draft = decider[o].draft
        /\ \A c \in Operator \ {o} : decider'[c] = decider[c]
    BY <1>0, <2>1 DEF Decider
  <2> QED
    BY <2>1, <2>2, PostKeepsInd
<1>3. ASSUME NEW o \in Operator, PostFails(o)
      PROVE  ContentInd'
  <2>1. PICK took \in {0, 1} :
          /\ posts' = [posts EXCEPT ![decider[o].draft] = @ + took]
          /\ unheard' = IF took = 1 \/ decider[o].at = "taken"
                        THEN unheard \cup {decider[o].draft} ELSE unheard
    BY <1>3 DEF PostFails
  <2>2. /\ decider[o].at \in {"post", "taken"} /\ UNCHANGED <<content, mixed>>
        /\ decider' = [decider EXCEPT ![o].at = "caught"]
    BY <1>3 DEF PostFails
  <2>3. /\ decider' \in [Operator -> Decider] /\ decider'[o].at = "caught"
        /\ decider'[o].draft = decider[o].draft
        /\ \A c \in Operator \ {o} : decider'[c] = decider[c]
    BY <1>0, <2>2 DEF Decider
  <2>4. /\ unheard \subseteq unheard'
        /\ decider[o].draft \notin unheard' => decider[o].at # "taken" /\ took # 1
    BY <2>1
  <2> QED
    BY <2>1, <2>2, <2>3, <2>4, PostKeepsInd
<1>4. ASSUME NEW o \in Operator, DecisionDies(o)
      PROVE  ContentInd'
  <2>1. /\ UNCHANGED <<content, posts, mixed>> /\ decider[o].at # "idle"
        /\ decider' = [decider EXCEPT ![o] = NoDecision]
        /\ unheard' = IF decider[o].at = "taken" THEN unheard \cup {decider[o].draft} ELSE unheard
    BY <1>4 DEF DecisionDies
  <2>2. posts' = [posts EXCEPT ![decider[o].draft] = @ + 0]
    BY <1>0, <2>1
  <2>3. /\ decider' \in [Operator -> Decider] /\ decider'[o].at = "idle"
        /\ \A c \in Operator \ {o} : decider'[c] = decider[c]
    BY <1>0, <2>1 DEF NoDecision, Decider
  <2>4. PICK at \in {"taken", "caught", "idle"}, took \in {0, 1} : at = "idle" /\ took = 0
    OBVIOUS
  <2>5. /\ unheard \subseteq unheard'
        /\ decider[o].draft \notin unheard' => decider[o].at # "taken"
    BY <2>1
  <2>6. at # "taken" /\ took # 1
    BY <2>4
  <2>7. posts' = [posts EXCEPT ![decider[o].draft] = @ + took]
    BY <2>2, <2>4
  <2>8. decider'[o].at = at /\ (at # "idle" => decider'[o].draft = decider[o].draft)
    BY <2>3, <2>4
  <2> QED
    BY <2>1, <2>3, <2>5, <2>6, <2>7, <2>8, PostKeepsInd
<1>5. ASSUME NEW o \in Operator, RejectDraft(o) \/ ScheduleDraft(o) \/ KeepApproved(o)
      PROVE  ContentInd'
  BY <1>5, StatusKeepsInd DEF RejectDraft, ScheduleDraft, KeepApproved
<1> QED
  BY <1>1, <1>2, <1>3, <1>4, <1>5 DEF ContentNext

\* So do the steps of the other parts.
LEMMA ContentIdleInd ==
  ASSUME ContentInd, UNCHANGED contentVars
  PROVE  ContentInd'
BY DEF ContentInd, contentVars, DraftStands, Deciding

-----------------------------------------------------------------------------
(* runAgent(). *)

AgentRun == [status : {"running", "partial", "done"}, due : Nat, drafted : Nat, found : SUBSET Lead,
             errors : SUBSET {"drafts", "leads"}, insight : BOOLEAN]
Agent == [at : {"idle", "draft", "posts", "search", "leads", "insight", "finish"}, run : Nat,
          left : Nat, found : SUBSET Lead]
Present == {l \in Lead : lead[l] # "absent"}

\* What a run of the agent that stands at a has stored so far.
StoredSoFar(r, a, present) ==
  /\ r.status = "running"
  /\ r.due = r.drafted + (IF a.at = "posts" THEN a.left ELSE 0)
  /\ a.at = "draft" => r.drafted = 0
  /\ a.at \in {"draft", "posts"} => r.errors = {}
  /\ a.at \in {"draft", "posts", "search"} => r.found = {}
  /\ a.at \notin {"insight", "finish"} => "leads" \notin r.errors
  /\ "drafts" \in r.errors => r.drafted = 0
  /\ "leads" \in r.errors => r.found = {}
  /\ r.found \subseteq present \cup (IF a.at = "leads" THEN a.found ELSE {})
  /\ a.at = "finish" => r.insight
\* What a finished run has stored.
AddsUp(r, present) ==
  r.status # "running" => /\ r.drafted = r.due /\ r.insight /\ r.found \subseteq present
                          /\ r.status = "partial" => r.drafted = 0 /\ r.found = {}

LeadsStand ==
  /\ lead \in [Lead -> LeadStatus \cup {"absent"}]
  /\ judged \in [Lead -> LeadStatus \cup {"absent"}]
  /\ \A l \in Lead : judged[l] # "absent" => lead[l] = judged[l]
AgentInd ==
  /\ agentRuns \in Seq(AgentRun) /\ agent \in [Operator -> Agent] /\ LeadsStand
  /\ \A o \in Operator : agent[o].at # "idle" =>
       /\ agent[o].run \in 1 .. Len(agentRuns)
       /\ StoredSoFar(agentRuns[agent[o].run], agent[o], Present)
  /\ \A o, c \in Operator : agent[o].at # "idle" /\ agent[c].at # "idle" /\ o # c =>
       agent[o].run # agent[c].run
  /\ \A n \in 1 .. Len(agentRuns) : AddsUp(agentRuns[n], Present)

\* What is claimed of finished runs and of leads follows.
LEMMA AgentIndHolds == AgentInd => AgentRunsAddUp
<1> SUFFICES ASSUME AgentInd PROVE AgentRunsAddUp
  OBVIOUS
<1>1. DOMAIN agentRuns = 1 .. Len(agentRuns)
  BY LenProperties DEF AgentInd
<1>2. \A n \in DOMAIN agentRuns : AddsUp(agentRuns[n], Present)
  BY <1>1 DEF AgentInd
<1> QED
  BY <1>2 DEF AgentInd, LeadsStand, AgentRunsAddUp, AddsUp, Present

\* At first the agent has not run.
LEMMA AgentInitInd == ConsoleInit => AgentInd
<1> SUFFICES ASSUME ConsoleInit PROVE AgentInd
  OBVIOUS
<1>1. /\ agentRuns = <<>> /\ agent = [o \in Operator |-> NoAgent]
      /\ lead = [l \in Lead |-> "absent"] /\ judged = lead
      /\ <<>> \in Seq(AgentRun) /\ Len(<<>>) = 0
  BY EmptySeq DEF ConsoleInit
<1>2. NoAgent \in Agent /\ NoAgent.at = "idle"
  BY DEF NoAgent, Agent
<1>3. LeadsStand
  BY <1>1 DEF LeadsStand
<1>4. \A n \in 1 .. Len(agentRuns) : FALSE
  BY <1>1
<1> QED
  BY <1>1, <1>2, <1>3, <1>4 DEF AgentInd

\* More leads present, and what was stored still is.
LEMMA PresentGrows ==
  ASSUME NEW r, NEW a, NEW present, NEW more, present \subseteq more
  PROVE  /\ StoredSoFar(r, a, present) => StoredSoFar(r, a, more)
         /\ AddsUp(r, present) => AddsUp(r, more)
BY DEF StoredSoFar, AddsUp

\* A statement of a run of the agent changes its own row.
LEMMA RunMoves ==
  ASSUME AgentInd, NEW o \in Operator, agent[o].at # "idle", NEW r \in AgentRun,
         agentRuns' = [agentRuns EXCEPT ![agent[o].run] = r]
  PROVE  /\ agentRuns' \in Seq(AgentRun) /\ Len(agentRuns') = Len(agentRuns)
         /\ agentRuns'[agent[o].run] = r
         /\ \A m \in 1 .. Len(agentRuns) : m # agent[o].run => agentRuns'[m] = agentRuns[m]
<1>1. PICK n \in 1 .. Len(agentRuns) : n = agent[o].run
  BY DEF AgentInd
<1>2. agentRuns \in Seq(AgentRun) /\ agentRuns' = [agentRuns EXCEPT ![n] = r]
  BY <1>1 DEF AgentInd
<1>3. /\ [agentRuns EXCEPT ![n] = r] \in Seq(AgentRun)
      /\ Len([agentRuns EXCEPT ![n] = r]) = Len(agentRuns)
      /\ \A m \in 1 .. Len(agentRuns) :
           [agentRuns EXCEPT ![n] = r][m] = IF m = n THEN r ELSE agentRuns[m]
  BY <1>2, ExceptSeq
<1> QED
  BY <1>1, <1>2, <1>3

\* A step of one run of the agent leaves the others alone.
LEMMA AgentMoves ==
  ASSUME AgentInd, NEW o \in Operator, agent[o].at # "idle", NEW r, NEW a \in Agent,
         agentRuns' \in Seq(AgentRun), Len(agentRuns') = Len(agentRuns),
         agentRuns'[agent[o].run] = r,
         \A m \in 1 .. Len(agentRuns) : m # agent[o].run => agentRuns'[m] = agentRuns[m],
         agent' = [agent EXCEPT ![o] = a], LeadsStand', Present \subseteq Present',
         a.at # "idle" => a.run = agent[o].run /\ StoredSoFar(r, a, Present'),
         AddsUp(r, Present')
  PROVE  AgentInd'
<1>1. PICK n \in 1 .. Len(agentRuns) : n = agent[o].run
  BY DEF AgentInd
<1>2. /\ agent' \in [Operator -> Agent] /\ agent'[o] = a
      /\ \A c \in Operator \ {o} : agent'[c] = agent[c]
  BY DEF AgentInd
<1>3. ASSUME NEW c \in Operator, agent'[c].at # "idle"
      PROVE  /\ agent'[c].run \in 1 .. Len(agentRuns) /\ agent[c].at # "idle"
             /\ agent'[c].run = agent[c].run
             /\ StoredSoFar(agentRuns'[agent'[c].run], agent'[c], Present')
  <2>1. CASE c = o
    BY <1>1, <1>2, <1>3, <2>1
  <2>2. CASE c # o
    <3>1. /\ agent'[c] = agent[c] /\ agent[c].run \in 1 .. Len(agentRuns) /\ agent[c].run # n
          /\ StoredSoFar(agentRuns[agent[c].run], agent[c], Present)
      BY <1>1, <1>2, <1>3, <2>2 DEF AgentInd
    <3> QED
      BY <1>1, <1>3, <3>1, PresentGrows
  <2> QED
    BY <2>1, <2>2
<1>4. ASSUME NEW m \in 1 .. Len(agentRuns) PROVE AddsUp(agentRuns'[m], Present')
  BY <1>1, PresentGrows DEF AgentInd
<1>5. \A c, e \in Operator : agent'[c].at # "idle" /\ agent'[e].at # "idle" /\ c # e =>
        agent'[c].run # agent'[e].run
  BY <1>3 DEF AgentInd
<1> QED
  BY <1>2, <1>3, <1>4, <1>5 DEF AgentInd

\* What a step of a run of the agent leaves alone.
LEMMA SameLeads ==
  ASSUME AgentInd, UNCHANGED <<lead, judged>>
  PROVE  LeadsStand' /\ Present' = Present
BY DEF AgentInd, LeadsStand, Present

\* A new run has a row of its own.
LEMMA StartKeepsInd ==
  ASSUME AgentInd, NEW o \in Operator, StartAgent(o)
  PROVE  AgentInd'
<1>1. PICK r \in AgentRun : r = [status |-> "running", due |-> 0, drafted |-> 0,
                                 found |-> {}, errors |-> {}, insight |-> FALSE]
  BY DEF AgentRun
<1>2. /\ agent[o].at = "idle" /\ agentRuns' = Append(agentRuns, r)
      /\ agent' = [agent EXCEPT ![o].at = "draft", ![o].run = Len(agentRuns) + 1]
      /\ UNCHANGED <<lead, judged>>
  BY <1>1 DEF StartAgent
<1>3. agentRuns \in Seq(AgentRun) /\ agent \in [Operator -> Agent] /\ Len(agentRuns) \in Nat
  BY LenProperties DEF AgentInd
<1>4. /\ agentRuns' \in Seq(AgentRun) /\ Len(agentRuns') = Len(agentRuns) + 1
      /\ agentRuns'[Len(agentRuns) + 1] = r
      /\ \A m \in 1 .. Len(agentRuns) : agentRuns'[m] = agentRuns[m]
  BY <1>2, <1>3, AppendProperties
<1>5. /\ agent' \in [Operator -> Agent] /\ agent'[o].at = "draft"
      /\ agent'[o].run = Len(agentRuns) + 1
      /\ \A c \in Operator \ {o} : agent'[c] = agent[c]
  <2>1. PICK k \in Nat : k = Len(agentRuns) + 1
    BY <1>3
  <2>2. PICK b \in Agent : b = agent[o]
    BY <1>3
  <2>3. PICK a \in Agent : a = [b EXCEPT !.at = "draft", !.run = k]
    BY DEF Agent
  <2>4. agent' = [agent EXCEPT ![o] = a]
    BY <1>2, <1>3, <2>1, <2>2, <2>3
  <2>5. a.at = "draft" /\ a.run = k
    BY <2>3 DEF Agent
  <2> QED
    BY <1>3, <2>1, <2>4, <2>5
<1>6. LeadsStand' /\ Present' = Present
  BY <1>2, SameLeads
<1>7. StoredSoFar(r, agent'[o], Present') /\ AddsUp(r, Present')
  BY <1>1, <1>5 DEF StoredSoFar, AddsUp
<1>8. ASSUME NEW c \in Operator, agent'[c].at # "idle"
      PROVE  /\ agent'[c].run \in 1 .. Len(agentRuns')
             /\ c # o => agent'[c].run \in 1 .. Len(agentRuns) /\ agent[c].at # "idle"
             /\ StoredSoFar(agentRuns'[agent'[c].run], agent'[c], Present')
  <2>1. CASE c = o
    BY <1>3, <1>4, <1>5, <1>7, <2>1
  <2>2. CASE c # o
    <3>1. /\ agent'[c] = agent[c] /\ agent[c].run \in 1 .. Len(agentRuns)
          /\ StoredSoFar(agentRuns[agent[c].run], agent[c], Present)
      BY <1>5, <1>8, <2>2 DEF AgentInd
    <3> QED
      BY <1>3, <1>4, <1>6, <1>8, <3>1
  <2> QED
    BY <2>1, <2>2
<1>9. \A c, e \in Operator : agent'[c].at # "idle" /\ agent'[e].at # "idle" /\ c # e =>
        agent'[c].run # agent'[e].run
  BY <1>3, <1>5, <1>8 DEF AgentInd
<1>10. \A m \in 1 .. Len(agentRuns') : AddsUp(agentRuns'[m], Present')
  BY <1>3, <1>4, <1>6, <1>7 DEF AgentInd
<1> QED
  BY <1>4, <1>5, <1>6, <1>8, <1>9, <1>10 DEF AgentInd

\* An operator gives a lead a status.
LEMMA UpdateKeepsInd ==
  ASSUME AgentInd, NEW l \in Lead, NEW status \in LeadStatus, UpdateLead(l, status)
  PROVE  AgentInd'
<1>1. /\ lead' = [lead EXCEPT ![l] = status] /\ judged' = [judged EXCEPT ![l] = status]
      /\ lead[l] # "absent" /\ UNCHANGED <<agentRuns, agent>>
  BY DEF UpdateLead
<1>2. status # "absent"
  BY DEF LeadStatus
<1>3. LeadsStand' /\ Present' = Present
  BY <1>1, <1>2 DEF AgentInd, LeadsStand, Present
<1> QED
  BY <1>1, <1>3 DEF AgentInd

\* Every step of a run of the agent keeps it.
LEMMA AgentKeepsInd ==
  ASSUME AgentInd, NEW o \in Operator,
         \/ DraftPosts(o) \/ StorePost(o) \/ SourceLeads(o) \/ StoreLead(o)
         \/ StoreInsight(o) \/ FinishAgent(o) \/ AgentThrows(o)
  PROVE  AgentInd'
<1>0. agentRuns \in Seq(AgentRun) /\ agent \in [Operator -> Agent] /\ agent[o].at # "idle"
  BY DEF AgentInd, DraftPosts, StorePost, SourceLeads, StoreLead, StoreInsight, FinishAgent,
         AgentThrows
<1>1. PICK n \in 1 .. Len(agentRuns) : n = agent[o].run
  BY <1>0 DEF AgentInd
<1>2. PICK r : r = agentRuns[n]
  OBVIOUS
<1>3. PICK a : a = agent[o]
  OBVIOUS
<1>4. /\ r \in AgentRun /\ a \in Agent /\ StoredSoFar(r, a, Present) /\ AddsUp(r, Present)
      /\ a.run = n /\ a.at # "idle"
  BY <1>0, <1>1, <1>2, <1>3, ElementOfSeq DEF AgentInd
<1>5. ASSUME NEW s \in AgentRun, NEW b \in Agent,
             agentRuns' = [agentRuns EXCEPT ![n] = s], agent' = [agent EXCEPT ![o] = b],
             UNCHANGED <<lead, judged>>,
             b.at # "idle" => b.run = n /\ StoredSoFar(s, b, Present), AddsUp(s, Present)
      PROVE  AgentInd'
  <2>1. LeadsStand' /\ Present' = Present
    BY <1>5, SameLeads
  <2>2. /\ agentRuns' \in Seq(AgentRun) /\ Len(agentRuns') = Len(agentRuns)
        /\ agentRuns'[agent[o].run] = s
        /\ \A m \in 1 .. Len(agentRuns) : m # agent[o].run => agentRuns'[m] = agentRuns[m]
    BY <1>0, <1>1, <1>5, RunMoves
  <2> QED
    BY <1>0, <1>1, <1>5, <2>1, <2>2, AgentMoves
<1>6. ASSUME NEW b \in Agent, UNCHANGED agentRuns, agent' = [agent EXCEPT ![o] = b],
             LeadsStand', Present \subseteq Present',
             b.at # "idle" => b.run = n /\ StoredSoFar(r, b, Present')
      PROVE  AgentInd'
  <2>1. AddsUp(r, Present')
    BY <1>4, <1>6, PresentGrows
  <2> QED
    BY <1>0, <1>1, <1>2, <1>6, <2>1, AgentMoves
<1>7. CASE DraftPosts(o)
  <2>1. a.at = "draft" /\ UNCHANGED <<lead, judged>>
    BY <1>3, <1>7 DEF DraftPosts
  <2>2. ASSUME NEW k \in 0 .. MaxPosts,
               agentRuns' = [agentRuns EXCEPT ![agent[o].run].due = k],
               agent' = [agent EXCEPT ![o].at = "posts", ![o].left = k]
        PROVE  AgentInd'
    <3>0. k \in Nat
      BY ConsoleAssumption
    <3>1. PICK s \in AgentRun : s = [r EXCEPT !.due = k]
      BY <1>4, <3>0 DEF AgentRun
    <3>2. PICK b \in Agent : b = [a EXCEPT !.at = "posts", !.left = k]
      BY <1>4, <3>0 DEF Agent
    <3>3. agentRuns' = [agentRuns EXCEPT ![n] = s]
      BY <1>0, <1>1, <1>2, <2>2, <3>1
    <3>4. agent' = [agent EXCEPT ![o] = b]
      BY <1>0, <1>3, <2>2, <3>2 DEF Agent
    <3>5. b.run = n /\ StoredSoFar(s, b, Present) /\ AddsUp(s, Present)
      <4>1. /\ s.due = k /\ s.drafted = r.drafted /\ s.status = r.status /\ s.found = r.found
            /\ s.errors = r.errors /\ s.insight = r.insight
        BY <3>1 DEF AgentRun
      <4>2. b.at = "posts" /\ b.left = k /\ b.run = a.run /\ b.found = a.found
        BY <3>2 DEF Agent
      <4>3. r.drafted = 0 /\ r.errors = {} /\ r.found = {} /\ r.status = "running"
        BY <1>4, <2>1 DEF StoredSoFar
      <4> QED
        BY <1>4, <3>0, <4>1, <4>2, <4>3 DEF StoredSoFar, AddsUp
    <3> QED
      BY <1>5, <2>1, <3>3, <3>4, <3>5
  <2>3. ASSUME agentRuns' = [agentRuns EXCEPT ![agent[o].run].errors = {"drafts"}],
               agent' = [agent EXCEPT ![o].at = "search"]
        PROVE  AgentInd'
    <3>1. PICK s \in AgentRun : s = [r EXCEPT !.errors = {"drafts"}]
      BY <1>4 DEF AgentRun
    <3>2. PICK b \in Agent : b = [a EXCEPT !.at = "search"]
      BY <1>4 DEF Agent
    <3>3. agentRuns' = [agentRuns EXCEPT ![n] = s]
      BY <1>0, <1>1, <1>2, <2>3, <3>1
    <3>4. agent' = [agent EXCEPT ![o] = b]
      BY <1>0, <1>3, <2>3, <3>2 DEF Agent
    <3>5. b.run = n /\ StoredSoFar(s, b, Present) /\ AddsUp(s, Present)
      BY <1>4, <2>1, <3>1, <3>2 DEF AgentRun, Agent, StoredSoFar, AddsUp
    <3> QED
      BY <1>5, <2>1, <3>3, <3>4, <3>5
  <2> QED
    BY <1>7, <2>2, <2>3 DEF DraftPosts
<1>8. CASE StorePost(o)
  <2>1. a.at = "posts" /\ UNCHANGED <<lead, judged>>
    BY <1>3, <1>8 DEF StorePost
  <2>2. CASE a.left = 0
    <3>1. PICK b \in Agent : b = [a EXCEPT !.at = "search"]
      BY <1>4 DEF Agent
    <3>2. agent' = [agent EXCEPT ![o] = b] /\ UNCHANGED agentRuns
      BY <1>0, <1>3, <1>8, <2>2, <3>1 DEF StorePost, Agent
    <3>3. b.run = n /\ StoredSoFar(r, b, Present)
      BY <1>4, <2>1, <2>2, <3>1 DEF AgentRun, Agent, StoredSoFar
    <3>4. LeadsStand' /\ Present' = Present
      BY <2>1, SameLeads
    <3> QED
      BY <1>6, <3>2, <3>3, <3>4
  <2>3. CASE a.left # 0
    <3>0. r.drafted + 1 \in Nat /\ a.left - 1 \in Nat
      BY <1>4, <2>3 DEF AgentRun, Agent
    <3>1. PICK s \in AgentRun : s = [r EXCEPT !.drafted = r.drafted + 1]
      BY <1>4, <3>0 DEF AgentRun
    <3>2. PICK b \in Agent : b = [a EXCEPT !.left = a.left - 1]
      BY <1>4, <3>0 DEF Agent
    <3>3. agentRuns' = [agentRuns EXCEPT ![n] = s]
      BY <1>0, <1>1, <1>2, <1>3, <1>8, <2>3, <3>1 DEF StorePost
    <3>4. agent' = [agent EXCEPT ![o] = b]
      BY <1>0, <1>3, <1>8, <2>3, <3>2 DEF StorePost, Agent
    <3>5. b.run = n /\ StoredSoFar(s, b, Present) /\ AddsUp(s, Present)
      <4>1. /\ s.due = r.due /\ s.drafted = r.drafted + 1 /\ s.status = r.status
            /\ s.found = r.found /\ s.errors = r.errors /\ s.insight = r.insight
        BY <3>1 DEF AgentRun
      <4>2. b.at = a.at /\ b.left = a.left - 1 /\ b.run = a.run /\ b.found = a.found
        BY <3>2 DEF Agent
      <4>3. r.due \in Nat /\ r.drafted \in Nat /\ a.left \in Nat /\ r.status = "running"
        BY <1>4 DEF AgentRun, Agent, StoredSoFar
      <4> QED
        BY <1>4, <2>1, <4>1, <4>2, <4>3 DEF StoredSoFar, AddsUp
    <3> QED
      BY <1>5, <2>1, <3>3, <3>4, <3>5
  <2> QED
    BY <2>2, <2>3
<1>9. CASE SourceLeads(o)
  <2>1. a.at = "search" /\ UNCHANGED <<lead, judged>>
    BY <1>3, <1>9 DEF SourceLeads
  <2>2. ASSUME NEW found \in SUBSET Lead,
               agentRuns' = [agentRuns EXCEPT ![agent[o].run].found = found],
               agent' = [agent EXCEPT ![o].at = "leads", ![o].found = found]
        PROVE  AgentInd'
    <3>1. PICK s \in AgentRun : s = [r EXCEPT !.found = found]
      BY <1>4 DEF AgentRun
    <3>2. PICK b \in Agent : b = [a EXCEPT !.at = "leads", !.found = found]
      BY <1>4 DEF Agent
    <3>3. agentRuns' = [agentRuns EXCEPT ![n] = s]
      BY <1>0, <1>1, <1>2, <2>2, <3>1
    <3>4. agent' = [agent EXCEPT ![o] = b]
      BY <1>0, <1>3, <2>2, <3>2 DEF Agent
    <3>5. b.run = n /\ StoredSoFar(s, b, Present) /\ AddsUp(s, Present)
      BY <1>4, <2>1, <3>1, <3>2 DEF AgentRun, Agent, StoredSoFar, AddsUp
    <3> QED
      BY <1>5, <2>1, <3>3, <3>4, <3>5
  <2>3. ASSUME agentRuns' = [agentRuns EXCEPT ![agent[o].run].errors = @ \cup {"leads"}],
               agent' = [agent EXCEPT ![o].at = "insight"]
        PROVE  AgentInd'
    <3>1. PICK s \in AgentRun : s = [r EXCEPT !.errors = @ \cup {"leads"}]
      BY <1>4 DEF AgentRun
    <3>2. PICK b \in Agent : b = [a EXCEPT !.at = "insight"]
      BY <1>4 DEF Agent
    <3>3. agentRuns' = [agentRuns EXCEPT ![n] = s]
      BY <1>0, <1>1, <1>2, <2>3, <3>1
    <3>4. agent' = [agent EXCEPT ![o] = b]
      BY <1>0, <1>3, <2>3, <3>2 DEF Agent
    <3>5. b.run = n /\ StoredSoFar(s, b, Present) /\ AddsUp(s, Present)
      BY <1>4, <2>1, <3>1, <3>2 DEF AgentRun, Agent, StoredSoFar, AddsUp
    <3> QED
      BY <1>5, <2>1, <3>3, <3>4, <3>5
  <2> QED
    BY <1>9, <2>2, <2>3 DEF SourceLeads
<1>10. CASE StoreLead(o)
  <2>1. a.at = "leads" /\ UNCHANGED <<agentRuns, judged>>
    BY <1>3, <1>10 DEF StoreLead
  <2>2. CASE a.found = {}
    <3>1. PICK b \in Agent : b = [a EXCEPT !.at = "insight"]
      BY <1>4 DEF Agent
    <3>2. agent' = [agent EXCEPT ![o] = b] /\ UNCHANGED lead
      BY <1>0, <1>3, <1>10, <2>2, <3>1 DEF StoreLead, Agent
    <3>3. b.run = n /\ StoredSoFar(r, b, Present)
      BY <1>4, <2>1, <2>2, <3>1 DEF AgentRun, Agent, StoredSoFar
    <3>4. LeadsStand' /\ Present' = Present
      BY <2>1, <3>2, SameLeads
    <3> QED
      BY <1>6, <2>1, <3>2, <3>3, <3>4
  <2>3. CASE a.found # {}
    <3>1. PICK l \in a.found :
            /\ lead' = IF lead[l] = "absent" THEN [lead EXCEPT ![l] = "new"] ELSE lead
            /\ agent' = [agent EXCEPT ![o].found = @ \ {l}]
      BY <1>3, <1>10, <2>3 DEF StoreLead
    <3>2. l \in Lead /\ LeadsStand
      BY <1>4 DEF Agent, AgentInd
    <3>3. LeadsStand' /\ Present' = Present \cup {l}
      BY <2>1, <3>1, <3>2 DEF LeadsStand, Present, LeadStatus
    <3>4. PICK b \in Agent : b = [a EXCEPT !.found = @ \ {l}]
      BY <1>4 DEF Agent
    <3>5. agent' = [agent EXCEPT ![o] = b]
      BY <1>0, <1>3, <3>1, <3>4 DEF Agent
    <3>6. b.run = n /\ StoredSoFar(r, b, Present')
      BY <1>4, <2>1, <3>3, <3>4 DEF AgentRun, Agent, StoredSoFar
    <3> QED
      BY <1>6, <2>1, <3>3, <3>5, <3>6
  <2> QED
    BY <2>2, <2>3
<1>11. CASE StoreInsight(o)
  <2>1. a.at = "insight" /\ UNCHANGED <<lead, judged>>
    BY <1>3, <1>11 DEF StoreInsight
  <2>2. PICK s \in AgentRun : s = [r EXCEPT !.insight = TRUE]
    BY <1>4 DEF AgentRun
  <2>3. PICK b \in Agent : b = [a EXCEPT !.at = "finish"]
    BY <1>4 DEF Agent
  <2>4. agentRuns' = [agentRuns EXCEPT ![n] = s]
    BY <1>0, <1>1, <1>2, <1>11, <2>2 DEF StoreInsight
  <2>5. agent' = [agent EXCEPT ![o] = b]
    BY <1>0, <1>3, <1>11, <2>3 DEF StoreInsight, Agent
  <2>6. b.run = n /\ StoredSoFar(s, b, Present) /\ AddsUp(s, Present)
    BY <1>4, <2>1, <2>2, <2>3 DEF AgentRun, Agent, StoredSoFar, AddsUp
  <2> QED
    BY <1>5, <2>1, <2>4, <2>5, <2>6
<1>12. CASE FinishAgent(o)
  <2>1. a.at = "finish" /\ UNCHANGED <<lead, judged>> /\ agent' = [agent EXCEPT ![o] = NoAgent]
    BY <1>3, <1>12 DEF FinishAgent
  <2>2. PICK s \in AgentRun :
          s = [r EXCEPT !.status = IF r.errors = {"drafts", "leads"} THEN "partial" ELSE "done"]
    BY <1>4 DEF AgentRun
  <2>3. agentRuns' = [agentRuns EXCEPT ![n] = s]
    BY <1>0, <1>1, <1>2, <1>12, <2>2 DEF FinishAgent
  <2>4. NoAgent \in Agent /\ NoAgent.at = "idle"
    BY DEF NoAgent, Agent
  <2>5. AddsUp(s, Present)
    BY <1>4, <2>1, <2>2 DEF AgentRun, Agent, StoredSoFar, AddsUp
  <2> QED
    BY <1>5, <2>1, <2>3, <2>4, <2>5
<1>13. CASE AgentThrows(o)
  <2>1. agent' = [agent EXCEPT ![o] = NoAgent] /\ UNCHANGED <<agentRuns, lead, judged>>
    BY <1>13 DEF AgentThrows
  <2>2. NoAgent \in Agent /\ NoAgent.at = "idle"
    BY DEF NoAgent, Agent
  <2>3. LeadsStand' /\ Present' = Present
    BY <2>1, SameLeads
  <2> QED
    BY <1>6, <2>1, <2>2, <2>3
<1> QED
  BY <1>7, <1>8, <1>9, <1>10, <1>11, <1>12, <1>13

\* So do the steps of the other parts.
LEMMA AgentIdleInd ==
  ASSUME AgentInd, UNCHANGED agentVars
  PROVE  AgentInd'
BY DEF AgentInd, agentVars, LeadsStand, Present

-----------------------------------------------------------------------------
(* The console as a whole. *)

ConsoleInd == AgentInd /\ ContentInd /\ SyncInd /\ PlanInd /\ SignInInd

\* Whatever its operators do at the same time, and whatever fails on the way:
\* runs of the agent add up, drafts are posted once, plans are created once,
\* the recorded changes of a plan follow on, and the lockout holds.
THEOREM ConsoleKeepsItsWord == ConsoleSpec => []ConsoleInv
<1>1. ConsoleInit => ConsoleInd
  BY AgentInitInd, ContentInitInd, SyncInitInd, PlanInitInd, SignInInitInd DEF ConsoleInd
<1>2. ConsoleInd /\ [ConsoleNext]_consoleVars => ConsoleInd'
  <2> SUFFICES ASSUME ConsoleInd, [ConsoleNext]_consoleVars PROVE ConsoleInd'
    OBVIOUS
  <2>0. AgentInd /\ ContentInd /\ SyncInd /\ PlanInd /\ SignInInd
    BY DEF ConsoleInd
  <2>1. /\ AgentNext => AgentInd'
        /\ UNCHANGED agentVars => AgentInd'
    BY <2>0, StartKeepsInd, UpdateKeepsInd, AgentKeepsInd, AgentIdleInd DEF AgentNext
  <2>2. /\ ContentNext => ContentInd'
        /\ UNCHANGED contentVars => ContentInd'
    BY <2>0, ContentKeepsInd, ContentIdleInd
  <2>3. /\ SyncNext => SyncInd'
        /\ UNCHANGED syncVars => SyncInd'
    BY <2>0, SyncKeepsInd, SyncIdleInd
  <2>4. /\ PlanNext => PlanInd'
        /\ UNCHANGED planVars => PlanInd'
    BY <2>0, PlanKeepsInd, PlanIdleInd
  <2>5. /\ SignInNext => SignInInd'
        /\ UNCHANGED signInVars => SignInInd'
    BY <2>0, SignInKeepsInd, SignInIdleInd
  <2>6. /\ AgentNext \/ UNCHANGED agentVars
        /\ ContentNext \/ UNCHANGED contentVars
        /\ SyncNext \/ UNCHANGED syncVars
        /\ PlanNext \/ UNCHANGED planVars
        /\ SignInNext \/ UNCHANGED signInVars
    BY DEF ConsoleNext, consoleVars
  <2> QED
    BY <2>1, <2>2, <2>3, <2>4, <2>5, <2>6 DEF ConsoleInd
<1>3. ConsoleInd => ConsoleInv
  <2>1. SyncInd => PlansAreSingle
    BY DEF SyncInd, PlansAreSingle
  <2>2. PlanInd => PlanChangesFollow
    BY DEF PlanInd, PlanChangesFollow
  <2> QED
    BY <2>1, <2>2, AgentIndHolds, ContentIndHolds, SignInIndHolds DEF ConsoleInd, ConsoleInv
<1> QED
  BY <1>1, <1>2, <1>3, PTL DEF ConsoleSpec

==============================================================================
