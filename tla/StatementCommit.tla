-------------------------- MODULE StatementCommit --------------------------
(***************************************************************************)
(* src/interpreter.js, with the parts of src/runtime.js (IOSRuntime) and   *)
(* src/graph.js (GraphRuntime) that a statement goes through: authorise,   *)
(* answer from a durable trace, or compute, write the trace, flush it, and *)
(* only then release the outputs and fold the trace back into the graph.   *)
(*                                                                         *)
(* Several runtimes (isolates) run the same program over one journal       *)
(* table.  D1Journal is used through what it is shown to implement: a      *)
(* flush takes effect in one step at the database, where it extends the    *)
(* log if the log is still what the runtime knew, and its answer may be    *)
(* lost.  Each runtime is used by one coroutine at a time, time stamps     *)
(* grow in append order, and trace ids are unique (traceIdSeq).            *)
(***************************************************************************)
EXTENDS Naturals, Sequences, FiniteSets

CONSTANTS
  Runtime,    \* the runtimes sharing the table
  N,          \* the statements of the program are 1 .. N, in order
  Needs,      \* Needs[i]: statements whose outputs i names as @refs
  Reads,      \* Reads[i]: statements whose ai-class traces match i's context
  Held,       \* statements that require an attestation and carry none
  Retries,    \* Retries[i]: Times of i's ON FAIL Retry, 0 without ON FAIL
  MaxReuse,   \* reuses that take an ai-class trace below the decay floor
  Seed,       \* the table the runtimes start over
  MaxLen,     \* bound: entries in the journal of a runtime
  MaxLate,    \* bound: unanswered requests under way, any more are lost
  MaxAdmin,   \* bound: grants and revocations pending in a journal at once
  Transient   \* may a flush fail while the table is what the runtime knew?

Statement == 1 .. N

ASSUME ProgramAssumption ==
  /\ N \in Nat \ {0}
  /\ Needs \in [Statement -> SUBSET Statement]
  /\ Held \subseteq Statement
  /\ Reads \in [Statement -> SUBSET (Statement \ Held)]
  /\ Retries \in [Statement -> Nat]
ASSUME BoundAssumption ==
  /\ MaxReuse \in Nat /\ MaxLen \in Nat /\ MaxAdmin \in Nat
  /\ MaxLate \in Nat
  /\ Transient \in BOOLEAN

VARIABLES
  log,        \* the table
  known,      \* known[p]: how many entries p holds as durable
  tail,       \* tail[p]: the entries p has appended and not yet flushed
  traces,     \* traces[p]: statements whose committed trace p can find
  reuse,      \* reuse[p][i]: times p counts i's trace as inherited
  granted,    \* granted[p]: does p's graph cover the program's boundary?
  env,        \* env[p]: statements whose outputs are bound in p
  pc,         \* pc[p]: where the run of the program on p stands
  late,       \* batches the database may still append, their sender gone
  answered,   \* statements some caller has been given the outputs of
  lapsed      \* runtimes that hold in memory what their journal dropped

vars == <<log, known, tail, traces, reuse, granted, env, pc, late, answered,
          lapsed>>
memory == <<traces, reuse, granted, env>>

Kind == {"committed", "staged", "failure", "observe", "reuse", "grant", "revoke"}
Record == [kind : Kind, of : SUBSET Statement, ctx : SUBSET Statement]
\* Entries of which no property asks what they are of name nothing.
Rec(kind, of) == [kind |-> kind, of |-> of, ctx |-> {}]

Phase == {"idle", "exec", "trace", "record"}
Control == [phase : Phase, stmt : Statement, tries : Nat, force : BOOLEAN,
            sent : {"none", "sent", "stored", "refused"}]
NoRun == [phase |-> "idle", stmt |-> 1, tries |-> 0, force |-> FALSE,
          sent |-> "none"]

-----------------------------------------------------------------------------
(* What a replay makes of a sequence of entries. *)

Places(s, kind) == {n \in DOMAIN s : s[n].kind = kind}
Committed(s) == UNION {s[n].of : n \in Places(s, "committed")}
Granted(s) == \E n \in Places(s, "grant") : \A m \in Places(s, "revoke") : m < n
ReuseCount(s) ==
  [i \in Statement |-> Cardinality({n \in Places(s, "reuse") : i \in s[n].of})]

\* No statement has been committed twice.
OneEach(s) ==
  \A m, n \in Places(s, "committed") :
    /\ \E i \in Statement : s[m].of = {i}
    /\ s[m].of = s[n].of => m = n
ASSUME SeedAssumption == Seed \in Seq(Record) /\ OneEach(Seed)

Durable(p) == SubSeq(log, 1, known[p])
Chain(p) == Durable(p) \o tail[p]

\* Every runtime starts by replaying the seeded table.
Init == /\ log = Seed
        /\ known = [p \in Runtime |-> Len(Seed)]
        /\ tail = [p \in Runtime |-> <<>>]
        /\ traces = [p \in Runtime |-> Committed(Seed)]
        /\ reuse = [p \in Runtime |-> ReuseCount(Seed)]
        /\ granted = [p \in Runtime |-> Granted(Seed)]
        /\ env = [p \in Runtime |-> {}]
        /\ pc = [p \in Runtime |-> NoRun]
        /\ late = {}
        /\ answered = {}
        /\ lapsed = {}

Stmt(p) == pc[p].stmt
Room(p, n) == Len(Chain(p)) + n <= MaxLen

\* An append to p's journal, pending until the next flush.
JournalAppend(p, recs) == tail' = [tail EXCEPT ![p] = @ \o recs]

\* Mutant: one statement too many.
NextStmtPastEnd(p) == IF Stmt(p) > N THEN NoRun
                      ELSE [NoRun EXCEPT !.phase = "exec", !.stmt = Stmt(p) + 1]

\* The next statement, or the end of the program.
NextStmt(p) == IF Stmt(p) = N THEN NoRun
               ELSE [NoRun EXCEPT !.phase = "exec", !.stmt = Stmt(p) + 1]

-----------------------------------------------------------------------------
(* The administrator, between programs. *)

\* graph.grant() and graph.revoke(): effective in memory at once, journaled,
\* and not flushed.
Authority(p, kind) ==
  /\ pc[p].phase = "idle" /\ Room(p, 1)
  /\ granted[p] # (kind = "grant")       \* repeating one changes nothing
  /\ Cardinality(Places(tail[p], "grant") \cup Places(tail[p], "revoke")) < MaxAdmin
  /\ JournalAppend(p, <<Rec(kind, {})>>)
  /\ granted' = [granted EXCEPT ![p] = (kind = "grant")]
  /\ UNCHANGED <<log, known, traces, reuse, env, pc, late, answered, lapsed>>

-----------------------------------------------------------------------------
(* Running the program. *)

Run(p) ==
  /\ pc[p].phase = "idle"
  /\ pc' = [pc EXCEPT ![p].phase = "exec"]
  /\ UNCHANGED <<log, known, tail, memory, late, answered, lapsed>>

\* Mutant: the footprint is not consulted.
AdmittedUnchecked(p) == Needs[Stmt(p)] \subseteq env[p]

\* Steps 1-4: the footprint covers the boundary and every @ref is bound.
Admitted(p) == granted[p] /\ Needs[Stmt(p)] \subseteq env[p]

\* Step 4: a durable committed trace answers, unless the run is a retry.
MayAnswer(p) == ~pc[p].force /\ Stmt(p) \in traces[p]

\* The prior outputs are returned to the caller; env is not touched.
AnswerFromTrace(p) ==
  /\ pc[p].phase = "exec" /\ Admitted(p) /\ MayAnswer(p)
  /\ answered' = answered \cup {Stmt(p)}
  /\ pc' = [pc EXCEPT ![p] = NextStmt(p)]
  /\ UNCHANGED <<log, known, tail, memory, late, lapsed>>

\* IOSRuntime.select: ai-class traces inherited too often are left out.
Context(p) == {i \in Reads[Stmt(p)] \cap traces[p] : reuse[p][i] < MaxReuse}

\* Mutant (F-05): the trace can be found before it is durable.
WriteVisible(p) ==
  /\ pc[p].phase = "exec" /\ Admitted(p) /\ ~MayAnswer(p) /\ Room(p, 3)
  /\ JournalAppend(p, <<[kind |-> IF Stmt(p) \in Held THEN "staged" ELSE "committed",
                         of |-> {Stmt(p)}, ctx |-> Context(p)]>>)
  /\ traces' = [traces EXCEPT ![p] = @ \cup ({Stmt(p)} \ Held)]
  /\ pc' = [pc EXCEPT ![p].phase = "trace", ![p].sent = "sent"]
  /\ UNCHANGED <<log, known, reuse, granted, env, late, answered, lapsed>>

\* Steps 5-8: compute, append the trace (its ids of context traces with it)
\* and send the flush.  Room for what the release appends is checked here.
WriteTrace(p) ==
  /\ pc[p].phase = "exec" /\ Admitted(p) /\ ~MayAnswer(p) /\ Room(p, 3)
  /\ JournalAppend(p, <<[kind |-> IF Stmt(p) \in Held THEN "staged" ELSE "committed",
                         of |-> {Stmt(p)}, ctx |-> Context(p)]>>)
  /\ pc' = [pc EXCEPT ![p].phase = "trace", ![p].sent = "sent"]
  /\ UNCHANGED <<log, known, memory, late, answered, lapsed>>

\* A forced attempt failed: the next one, or the statement is given up and
\* the program goes on.
FailedTry(p) == IF pc[p].tries > 1
                  THEN [NoRun EXCEPT !.phase = "exec", !.stmt = Stmt(p),
                                     !.force = TRUE, !.tries = pc[p].tries - 1]
                  ELSE NextStmt(p)

\* The failure is on record, or its record failed (the error is swallowed):
\* halt without ON FAIL, else retry.
AfterRecord(p) == IF Retries[Stmt(p)] = 0 THEN NoRun
                  ELSE [NoRun EXCEPT !.phase = "exec", !.stmt = Stmt(p),
                                     !.force = TRUE, !.tries = Retries[Stmt(p)]]

RecordFailure(p) == [pc[p] EXCEPT !.phase = "record", !.sent = "sent"]

\* An IGLError before the trace is written: not admitted, or compute failed.
Refuse(p) ==
  /\ pc[p].phase = "exec" /\ Room(p, 1)
  /\ ~(Admitted(p) /\ MayAnswer(p))
  /\ IF pc[p].force
       THEN pc' = [pc EXCEPT ![p] = FailedTry(p)] /\ UNCHANGED tail
       ELSE /\ JournalAppend(p, <<Rec("failure", {})>>)
            /\ pc' = [pc EXCEPT ![p] = RecordFailure(p)]
  /\ UNCHANGED <<log, known, memory, late, answered, lapsed>>

\* compute throws anything else (a model adapter's own error): run() rejects.
Abort(p) ==
  /\ pc[p].phase = "exec" /\ Admitted(p) /\ ~MayAnswer(p)
  /\ pc' = [pc EXCEPT ![p] = IF pc[p].force THEN FailedTry(p) ELSE NoRun]
  /\ UNCHANGED <<log, known, tail, memory, late, answered, lapsed>>

-----------------------------------------------------------------------------
(* Flushing. *)

\* The INSERT takes effect if the table is still what p knew.  Requests still
\* under way for the same places can then only be refused: they are dropped.
FlushAtDb(p) ==
  /\ pc[p].sent = "sent"
  /\ IF known[p] = Len(log)
       THEN /\ log' = log \o tail[p]
            /\ late' = {}
            /\ pc' = [pc EXCEPT ![p].sent = "stored"]
       ELSE /\ pc' = [pc EXCEPT ![p].sent = "refused"]
            /\ UNCHANGED <<log, late>>
  /\ UNCHANGED <<known, tail, memory, answered, lapsed>>

\* A batch whose sender gave up arrives after all.
LateFlush(batch) ==
  /\ batch \in late
  /\ late' = {}
  /\ log' = log \o batch
  /\ UNCHANGED <<known, tail, memory, pc, answered, lapsed>>

\* Mutant: reuse is counted in memory and not journaled.
ReleaseUncounted(p) == <<Rec("observe", {})>>

\* Step 9b: what the release appends after the flush, pending until the next.
\* The context of the statement is unchanged since WriteTrace.
Releases(p) == (IF Context(p) = {} THEN <<>> ELSE <<Rec("reuse", Context(p))>>)
               \o <<Rec("observe", {})>>

\* The trace is durable: make it findable, mark its context reused, fold it
\* into the graph and bind the outputs, unless they await an attestation.
Commit(p) ==
  LET out == {Stmt(p)} \ Held IN
  /\ pc[p].phase = "trace" /\ pc[p].sent = "stored"
  /\ known' = [known EXCEPT ![p] = Len(Chain(p))]
  /\ tail' = [tail EXCEPT ![p] = Releases(p)]
  /\ traces' = [traces EXCEPT ![p] = @ \cup out]
  /\ reuse' = [reuse EXCEPT ![p] =
                 [i \in Statement |-> @[i] + IF i \in Context(p) THEN 1 ELSE 0]]
  /\ env' = [env EXCEPT ![p] = @ \cup out]
  /\ answered' = answered \cup out
  /\ pc' = [pc EXCEPT ![p] = NextStmt(p)]
  /\ UNCHANGED <<log, granted, late, lapsed>>

\* The failure record is durable.
Recorded(p) ==
  /\ pc[p].phase = "record" /\ pc[p].sent = "stored"
  /\ known' = [known EXCEPT ![p] = Len(Chain(p))]
  /\ tail' = [tail EXCEPT ![p] = <<>>]
  /\ pc' = [pc EXCEPT ![p] = AfterRecord(p)]
  /\ UNCHANGED <<log, memory, late, answered, lapsed>>

\* The batch of p that the database may run although p stops waiting.
Unanswered(p) == IF pc[p].sent = "sent" /\ known[p] = Len(log)
                    /\ Cardinality(late) < MaxLate
                   THEN {tail[p]} ELSE {}

\* Mutant: rollback() moves on to the head of the table.
KnownAfterRollback(p) == Len(log)

\* rollback() goes back to what the journal itself had made durable.
RolledBackTo(p) == known[p]

\* The flush throws: refused, no answer, or it never reached the database.
\* Everything pending leaves the journal, but not the graph nor the counters.
\* A failed trace is then put on record, unless this was a retry.
FlushFails(p) ==
  /\ \/ pc[p].sent \in {"refused", "stored"}
     \/ pc[p].sent = "sent" /\ Transient
  /\ known' = [known EXCEPT ![p] = RolledBackTo(p)]
  /\ LET recorded == pc[p].phase = "trace" /\ ~pc[p].force IN
     /\ tail' = [tail EXCEPT ![p] =
                   IF recorded THEN <<Rec("failure", {})>> ELSE <<>>]
     /\ pc' = [pc EXCEPT ![p] =
                 IF recorded THEN RecordFailure(p)
                 ELSE IF pc[p].phase = "trace" THEN FailedTry(p)
                 ELSE AfterRecord(p)]
  /\ late' = late \cup Unanswered(p)
  /\ lapsed' = IF \E n \in DOMAIN tail[p] : tail[p][n].kind \in {"reuse", "grant", "revoke"}
                 THEN lapsed \cup {p} ELSE lapsed
  /\ UNCHANGED <<log, memory, answered>>

\* The process of p ends at any point; a new one replays the table.
Restart(p) ==
  /\ known' = [known EXCEPT ![p] = Len(log)]
  /\ tail' = [tail EXCEPT ![p] = <<>>]
  /\ traces' = [traces EXCEPT ![p] = Committed(log)]
  /\ reuse' = [reuse EXCEPT ![p] = ReuseCount(log)]
  /\ granted' = [granted EXCEPT ![p] = Granted(log)]
  /\ env' = [env EXCEPT ![p] = {}]
  /\ pc' = [pc EXCEPT ![p] = NoRun]
  /\ late' = late \cup Unanswered(p)
  /\ lapsed' = lapsed \ {p}
  /\ UNCHANGED <<log, answered>>

Next ==
  \/ \E p \in Runtime :
       \/ \E kind \in {"grant", "revoke"} : Authority(p, kind)
       \/ Run(p)
       \/ AnswerFromTrace(p)
       \/ WriteTrace(p)
       \/ Refuse(p)
       \/ Abort(p)
       \/ FlushAtDb(p)
       \/ Commit(p)
       \/ Recorded(p)
       \/ FlushFails(p)
       \/ Restart(p)
  \/ \E batch \in late : LateFlush(batch)

Spec == Init /\ [][Next]_vars

-----------------------------------------------------------------------------
(* Properties. *)

\* Every variable keeps its type.
TypeOK ==
  /\ log \in Seq(Record)
  /\ known \in [Runtime -> Nat]
  /\ tail \in [Runtime -> Seq(Record)]
  /\ traces \in [Runtime -> SUBSET Statement]
  /\ reuse \in [Runtime -> [Statement -> Nat]]
  /\ granted \in [Runtime -> BOOLEAN]
  /\ env \in [Runtime -> SUBSET Statement]
  /\ pc \in [Runtime -> Control]
  /\ late \in SUBSET Seq(Record)
  /\ answered \in SUBSET Statement
  /\ lapsed \in SUBSET Runtime

\* SPEC 8.2: no statement is filed twice, whatever the runtimes, retries,
\* lost answers, late requests and restarts that were involved.
FiledOnce ==
  \A m, n \in Places(log, "committed") : log[m].of = log[n].of => m = n

\* SPEC 8.3, C3: outputs that a caller has been given, that are bound for
\* later statements, or that an idempotency check would answer with, have a
\* committed trace in the table.
OutputsAreTraced ==
  \A p \in Runtime : answered \cup env[p] \cup traces[p] \subseteq Committed(log)

\* The inductive invariant.  A batch that the database may still append names
\* nothing the table has; a runtime's pending trace is the last of its tail and
\* of a statement it cannot find; a retry of a statement it can find, refused
\* at first, is refused again.
Fits(batch) == OneEach(batch) /\ Committed(batch) \cap Committed(log) = {}
TraceIsPending(p) ==
  /\ \A n \in Places(tail[p], "committed") :
       pc[p].phase = "trace" /\ n = Len(tail[p]) /\ tail[p][n].of = {Stmt(p)}
  /\ pc[p].phase = "trace" =>
       Stmt(p) \notin traces[p] /\ Committed(tail[p]) = {Stmt(p)} \ Held
FlushIsUnderWay(p) ==
  /\ pc[p].phase = "idle" => pc[p] = NoRun
  /\ pc[p].phase = "exec" => pc[p].sent = "none"
  /\ pc[p].sent = "stored" =>
       /\ known[p] + Len(tail[p]) <= Len(log)
       /\ \A n \in DOMAIN tail[p] : log[known[p] + n] = tail[p][n]
RetryIsRefused(p) ==
  /\ pc[p].phase = "record" \/ (pc[p].phase = "exec" /\ pc[p].force)
  /\ Stmt(p) \in traces[p]
  => ~Admitted(p)
RuntimeInv(p) ==
  /\ known[p] <= Len(log) /\ traces[p] = Committed(Durable(p))
  /\ TraceIsPending(p) /\ FlushIsUnderWay(p) /\ RetryIsRefused(p)
StatementInv ==
  /\ TypeOK
  /\ OneEach(log)
  /\ \A batch \in late : Fits(batch)
  /\ OutputsAreTraced
  /\ \A p \in Runtime : RuntimeInv(p)

\* F-06: a runtime whose journal dropped none of its grants, revocations and
\* reuse records holds in memory exactly what a replay of its chain yields;
\* of traces, always exactly the durable ones.
MemoryIsReplay ==
  \A p \in Runtime :
    /\ traces[p] = Committed(Durable(p))
    /\ p \notin lapsed => /\ granted[p] = Granted(Chain(p))
                          /\ reuse[p] = ReuseCount(Chain(p))

\* A runtime that dropped nothing never commits a trace without a grant that
\* precedes it in the table, revocations by other runtimes included.
TracesAreAuthorised ==
  [][\A p \in Runtime \ lapsed :
       pc[p].phase = "trace" /\ pc[p].sent = "sent" /\ pc'[p].sent = "stored"
         => Granted(log \o tail[p])]_vars

\* The F-06 test, "reuse survives a restart, the live process and the replayed
\* one agree": a process that ends between two programs, none of its flushes
\* having failed, is replaced by one that counts no trace as less inherited.
DecaySurvivesRestart ==
  [][\A p \in Runtime \ lapsed :
       pc[p].phase = "idle" /\ Restart(p) =>
         \A i \in Statement : reuse'[p][i] >= reuse[p][i]]_vars

\* SPEC 8.2: a statement that a runtime could answer for, of a program all of
\* whose earlier statements it could answer for, is never refused while the
\* footprint covers it.
RerunIsIdempotent ==
  [][\A p \in Runtime :
       Refuse(p) /\ granted[p] => ~(1 .. Stmt(p) \subseteq traces[p])]_vars
=============================================================================
