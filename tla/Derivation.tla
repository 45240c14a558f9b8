----------------------------- MODULE Derivation -----------------------------
(***************************************************************************)
(* What a statement may inherit and what class its own trace gets: context *)
(* selection and attestation of src/interpreter.js, AIRuntime.run and      *)
(* IOSRuntime of src/runtime.js, and the approvals of src/sign.js.         *)
(*                                                                         *)
(* Programs run side by side over one IOSRuntime whose journal is durable  *)
(* at once; they interleave where the code awaits, at the model's call and *)
(* at the flush.  A program is run by an Interpreter of its own, so trace  *)
(* ids start over with it.  A run that ends with its process is replaced   *)
(* by one that replays the journal.                                        *)
(***************************************************************************)
EXTENDS Naturals, Sequences, FiniteSetsExt

CONSTANTS
  Program,     \* programs that run at once
  Statement,   \* what is run: [infers, signer, traces, input]
  MaxDepth,    \* IOSRuntime.maxDepth
  Inherits,    \* inheritances that take an ai-class trace below the floor
  MaxTraces,   \* bound: traces in the journal
  MaxDeaths    \* bound: ends of the process

\* signer: of IOS.Attest; "service" is a key the process holds, "human" one
\* it does not hold.  A signer without a registered key is refused.
ASSUME StatementAssumption ==
  Statement \subseteq [infers : BOOLEAN, signer : {"none", "service", "human"},
                       traces : {"Recent", "Attested", "None"}, input : Nat]
ASSUME DerivationBounds ==
  /\ MaxDepth \in Nat /\ Inherits \in Nat /\ MaxTraces \in Nat /\ MaxDeaths \in Nat
  /\ IsFiniteSet(Program)

VARIABLES
  journal,   \* the traces, in order
  reuse,     \* IOSRuntime.reuse: a count for each trace id
  approved,  \* statements whose key the human signer has approved
  running,   \* running[p]: where program p stands
  deaths     \* how often the process has ended
derivationVars == <<journal, reuse, approved, running, deaths>>

Ended == [phase |-> "idle", seq |-> 0]
Position == 1 .. Len(journal)

DerivationInit ==
  /\ journal = <<>>
  /\ reuse = [id \in 1 .. MaxTraces |-> 0]
  /\ approved = {}
  /\ running = [p \in Program |-> Ended]
  /\ deaths = 0

-----------------------------------------------------------------------------
\* executionIdentity covers every material input: the compute shape, the
\* context specification and what the @refs are bound to, but neither the
\* approval a statement carries nor the traces its context will select.
StatementKey(s) ==
  [compute |-> <<s.infers, s.signer>>, context |-> s.traces, params |-> s.input]

\* The human sees the keys a program would run under and signs one of them.
Approve(s) ==
  /\ s.signer = "human" /\ s \notin approved
  /\ approved' = approved \cup {s}
  /\ UNCHANGED <<journal, reuse, running, deaths>>

\* The approval describes the statement that is run.
VerifyApproval(seen, s) == StatementKey(seen) = StatementKey(s)

\* byStatementKey: a durable trace answers for the statement, which then
\* changes nothing here.
Prior(s) == {n \in Position : StatementKey(journal[n].stmt) = StatementKey(s)}

\* select: ai-class traces beyond the cap or below the floor are left out.
Pool == {n \in Position :
           journal[n].class = "ai" => /\ journal[n].depth <= MaxDepth
                                      /\ reuse[journal[n].id] < Inherits}
Select(s) ==
  CASE s.traces = "Recent"   -> Pool
    [] s.traces = "Attested" -> {n \in Pool : journal[n].class = "human"}
    [] OTHER                 -> {}

-----------------------------------------------------------------------------

\* The next statement of p that no trace answers for.
Begin(p, s) ==
  /\ running[p].phase = "idle" /\ Prior(s) = {}
  /\ running' = [running EXCEPT ![p] =
       [phase |-> "compute", seq |-> @.seq, stmt |-> s, ctx |-> Select(s),
        since |-> Len(journal)]]
  /\ UNCHANGED <<journal, reuse, approved, deaths>>

AiOf(ctx) == {n \in ctx : journal[n].class = "ai"}

\* Mutant: the depth is not that of what was read.
FlatDepth(r) == IF r.stmt.infers THEN 1 ELSE 0

\* AIRuntime.run: one deeper than the deepest ai-class trace it read.
Depth(r) == IF r.stmt.infers
              THEN 1 + Max({0} \cup {journal[n].depth : n \in AiOf(r.ctx)}) ELSE 0

\* An inference stacked beyond the cap is refused; so is an approval that
\* does not verify, or a human signer without one.
Refused(r) == \/ Depth(r) > MaxDepth
              \/ r.stmt.signer = "human"
                   /\ ~\E seen \in approved : VerifyApproval(seen, r.stmt)

\* A keyed attestation gives the trace its class, else its inferences do.
Class(s) == CASE s.signer # "none" -> s.signer
              [] s.infers          -> "ai"
              [] OTHER             -> "deterministic"

\* The model has answered and the trace is written.
Write(p) ==
  LET r == running[p] IN
  /\ r.phase = "compute" /\ ~Refused(r) /\ Len(journal) < MaxTraces
  /\ journal' = Append(journal,
       [id |-> r.seq + 1, stmt |-> r.stmt, ctx |-> r.ctx, since |-> r.since,
        class |-> Class(r.stmt), depth |-> Depth(r)])
  /\ running' = [running EXCEPT ![p] =
       [phase |-> "flush", seq |-> r.seq + 1, reused |-> AiOf(r.ctx)]]
  /\ UNCHANGED <<reuse, approved, deaths>>

\* The model throws, or the statement is refused: the run goes no further.
Refuse(p) ==
  /\ running[p].phase = "compute"
  /\ running' = [running EXCEPT ![p] = Ended]
  /\ UNCHANGED <<journal, reuse, approved, deaths>>

Inherited(p) == IF running[p].phase = "flush" THEN running[p].reused ELSE {}

\* markReused counts every trace by its id, in memory and in the journal.
MarkReused(ns) == [id \in DOMAIN reuse |->
                     reuse[id] + Cardinality({n \in ns : journal[n].id = id})]

\* The flush has answered: the context is marked as reused.  The program goes
\* on in its Interpreter, or the next program starts with a new one.
Release(p) ==
  /\ running[p].phase = "flush"
  /\ reuse' = MarkReused(Inherited(p))
  /\ \E seq \in {0, running[p].seq} :
       running' = [running EXCEPT ![p] = [Ended EXCEPT !.seq = seq]]
  /\ UNCHANGED <<journal, approved, deaths>>

\* The process ends.  What was marked is in the journal and is replayed; what
\* was to be marked is lost.
ProcessEnds ==
  /\ \E p \in Program : running[p].phase # "idle"
  /\ deaths < MaxDeaths
  /\ deaths' = deaths + 1
  /\ running' = [p \in Program |-> Ended]
  /\ UNCHANGED <<journal, reuse, approved>>

DerivationNext ==
  \/ \E s \in Statement : Approve(s)
  \/ \E p \in Program, s \in Statement : Begin(p, s)
  \/ \E p \in Program : Write(p) \/ Refuse(p) \/ Release(p)
  \/ ProcessEnds
DerivationSpec == DerivationInit /\ [][DerivationNext]_derivationVars

-----------------------------------------------------------------------------
(* Properties. *)

DerivationTypes ==
  /\ reuse \in [1 .. MaxTraces -> Nat]
  /\ approved \subseteq Statement
  /\ \A n \in Position : /\ journal[n].ctx \subseteq 1 .. journal[n].since
                         /\ journal[n].since < n
                         /\ journal[n].id \in 1 .. MaxTraces

\* The inferences stacked on one another, found by following what each trace
\* has read.
Hops[n \in Position] ==
  IF journal[n].class = "ai" THEN 1 + Max({0} \cup {Hops[m] : m \in journal[n].ctx}) ELSE 0

\* SPEC 9.3: they never exceed the cap, whatever ran side by side.
ChainsAreCapped == \A n \in Position : Hops[n] <= MaxDepth

\* SPEC 9.2: no inheritance goes uncounted, so that an inference that was
\* inherited often enough fades.  What is missing in the count is in a program
\* that waits for its flush, or was when the process ended; ids that start
\* over with each program only ever add to it.
InheritancesAreCounted ==
  \A n \in Position :
    LET heirs == {m \in Position : n \in journal[m].ctx}
        waiting == {p \in Program : n \in Inherited(p)}
    IN journal[n].class = "ai" =>
         Cardinality(heirs) <= reuse[journal[n].id] + Cardinality(waiting)
                                 + deaths * Cardinality(Program)

\* F-04: a human-class trace is of a statement a human has approved, with the
\* inputs the human saw.
HumanSawIt ==
  \A n \in Position : journal[n].class = "human" => journal[n].stmt \in approved

\* SPEC 8.2: a statement is filed twice only by programs that overlapped.
OnlyOverlapFilesTwice ==
  \A m, n \in Position :
    m < n /\ journal[m].stmt = journal[n].stmt => m > journal[n].since

DerivationInv ==
  /\ DerivationTypes
  /\ ChainsAreCapped
  /\ InheritancesAreCounted
  /\ HumanSawIt
  /\ OnlyOverlapFilesTwice
=============================================================================
