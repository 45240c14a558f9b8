------------------------ MODULE StatementCommitProofs ------------------------
(***************************************************************************)
(* Proofs about StatementCommit, for every program, every number of        *)
(* runtimes and every bound, with and without failing flushes: nothing is  *)
(* filed twice, nothing is released that the table does not have, what a   *)
(* runtime holds in memory is what a replay of its chain yields, and no    *)
(* trace is stored that no grant precedes.                                 *)
(***************************************************************************)
EXTENDS StatementCommit, SequenceTheorems, FiniteSetTheorems, TLAPS

-----------------------------------------------------------------------------
(* Sequences of journal records. *)

\* Where the records of a concatenation come from.
LEMMA ConcatRecords ==
  ASSUME NEW s \in Seq(Record), NEW t \in Seq(Record)
  PROVE  /\ s \o t \in Seq(Record)
         /\ Len(s \o t) = Len(s) + Len(t)
         /\ DOMAIN s = 1 .. Len(s) /\ DOMAIN t = 1 .. Len(t)
         /\ DOMAIN (s \o t) = 1 .. Len(s) + Len(t)
         /\ \A n \in 1 .. Len(s) : (s \o t)[n] = s[n]
         /\ \A n \in 1 .. Len(t) : (s \o t)[Len(s) + n] = t[n]
         /\ \A n \in DOMAIN (s \o t) :
              \/ n \in DOMAIN s /\ (s \o t)[n] = s[n]
              \/ n - Len(s) \in DOMAIN t /\ (s \o t)[n] = t[n - Len(s)]
<1>1. /\ s \o t \in Seq(Record)
      /\ Len(s \o t) = Len(s) + Len(t)
      /\ \A i \in 1 .. Len(s) + Len(t) :
           (s \o t)[i] = IF i <= Len(s) THEN s[i] ELSE t[i - Len(s)]
  BY ConcatProperties
<1>2. Len(s) \in Nat /\ Len(t) \in Nat
  BY LenProperties
<1> QED
  BY <1>1, <1>2, LenProperties

\* A concatenation has committed what either part has.
LEMMA CommittedConcat ==
  ASSUME NEW s \in Seq(Record), NEW t \in Seq(Record)
  PROVE  Committed(s \o t) = Committed(s) \cup Committed(t)
<1> USE ConcatRecords, LenProperties DEF Committed, Places
<1>1. ASSUME NEW i \in Committed(s \o t) PROVE i \in Committed(s) \cup Committed(t)
  OBVIOUS
<1>2. ASSUME NEW i \in Committed(s) PROVE i \in Committed(s \o t)
  <2>1. PICK n \in DOMAIN s : s[n].kind = "committed" /\ i \in s[n].of
    BY <1>2
  <2>2. n \in DOMAIN (s \o t) /\ (s \o t)[n] = s[n]
    BY <2>1
  <2> QED
    BY <2>1, <2>2
<1>3. ASSUME NEW i \in Committed(t) PROVE i \in Committed(s \o t)
  <2>1. PICK n \in DOMAIN t : t[n].kind = "committed" /\ i \in t[n].of
    BY <1>3
  <2>2. Len(s) + n \in DOMAIN (s \o t) /\ (s \o t)[Len(s) + n] = t[n]
    BY <2>1
  <2> QED
    BY <2>1, <2>2
<1> QED
  BY <1>1, <1>2, <1>3

\* Appending a batch that names nothing new leaves each statement filed once.
LEMMA OneEachConcat ==
  ASSUME NEW s \in Seq(Record), NEW t \in Seq(Record), OneEach(s), OneEach(t),
         Committed(t) \cap Committed(s) = {}
  PROVE  OneEach(s \o t)
<1> DEFINE both == s \o t
<1>1. \A n \in Places(both, "committed") :
        \/ n \in Places(s, "committed") /\ both[n] = s[n]
        \/ n - Len(s) \in Places(t, "committed") /\ both[n] = t[n - Len(s)]
  BY ConcatRecords DEF Places
<1>2. \A n \in Places(both, "committed") : n \in Nat /\ Len(s) \in Nat
  BY ConcatRecords, LenProperties DEF Places
<1>3. ASSUME NEW m \in Places(s, "committed"), NEW n \in Places(t, "committed")
      PROVE  s[m].of # t[n].of
  <2>1. PICK i \in Statement : t[n].of = {i}
    BY <1>3 DEF OneEach
  <2>2. i \in Committed(t)
    BY <1>3, <2>1 DEF Committed
  <2>3. i \notin s[m].of
    BY <1>3, <2>2 DEF Committed
  <2> QED
    BY <2>1, <2>3
<1> HIDE DEF both
<1>4. \A n \in Places(both, "committed") : \E i \in Statement : both[n].of = {i}
  BY <1>1 DEF OneEach
<1>5. ASSUME NEW m \in Places(both, "committed"), NEW n \in Places(both, "committed"),
             both[m].of = both[n].of
      PROVE  m = n
  <2>1. CASE m \in Places(s, "committed") /\ both[m] = s[m]
    <3>1. n \in Places(s, "committed") /\ both[n] = s[n]
      BY <1>1, <1>3, <1>5, <2>1
    <3> QED
      BY <1>5, <2>1, <3>1 DEF OneEach
  <2>2. CASE m - Len(s) \in Places(t, "committed") /\ both[m] = t[m - Len(s)]
    <3>1. n - Len(s) \in Places(t, "committed") /\ both[n] = t[n - Len(s)]
      BY <1>1, <1>3, <1>5, <2>2
    <3>2. m - Len(s) = n - Len(s)
      BY <1>5, <2>2, <3>1 DEF OneEach
    <3> QED
      BY <1>2, <1>5, <3>2
  <2> QED
    BY <1>1, <1>5, <2>1, <2>2
<1> QED
  BY <1>4, <1>5 DEF OneEach, both

\* Whatever is appended, the entries a runtime holds as durable stay.
LEMMA DurableStays ==
  ASSUME NEW s \in Seq(Record), NEW t \in Seq(Record), NEW k \in Nat, k <= Len(s)
  PROVE  /\ SubSeq(s, 1, k) \in Seq(Record)
         /\ SubSeq(s \o t, 1, k) = SubSeq(s, 1, k)
<1>1. Len(s) \in Nat /\ \A i \in 1 .. k : s[i] \in Record /\ (s \o t)[i] = s[i]
  BY ConcatRecords, ElementOfSeq, LenProperties
<1>2. /\ SubSeq(s, 1, k) \in Seq(Record)
      /\ Len(SubSeq(s, 1, k)) = k
      /\ \A i \in 1 .. k : SubSeq(s, 1, k)[i] = s[i]
  BY <1>1, SubSeqProperties
<1>3. /\ SubSeq(s \o t, 1, k) \in Seq(Record)
      /\ Len(SubSeq(s \o t, 1, k)) = k
      /\ \A i \in 1 .. k : SubSeq(s \o t, 1, k)[i] = (s \o t)[i]
  BY <1>1, SubSeqProperties
<1> QED
  BY <1>1, <1>2, <1>3, SeqEqual

\* A flush whose answer has come adds its batch to what is durable.
LEMMA DurableGrows ==
  ASSUME NEW s \in Seq(Record), NEW t \in Seq(Record), NEW k \in Nat,
         k + Len(t) <= Len(s), \A n \in DOMAIN t : s[k + n] = t[n]
  PROVE  SubSeq(s, 1, k + Len(t)) = SubSeq(s, 1, k) \o t
<1>1. Len(s) \in Nat /\ Len(t) \in Nat /\ \A i \in 1 .. k + Len(t) : s[i] \in Record
  BY ElementOfSeq, LenProperties
<1>2. /\ SubSeq(s, 1, k) \in Seq(Record)
      /\ Len(SubSeq(s, 1, k)) = k
      /\ \A i \in 1 .. k : SubSeq(s, 1, k)[i] = s[i]
  BY <1>1, SubSeqProperties
<1>3. /\ SubSeq(s, 1, k + Len(t)) \in Seq(Record)
      /\ Len(SubSeq(s, 1, k + Len(t))) = k + Len(t)
      /\ \A i \in 1 .. k + Len(t) : SubSeq(s, 1, k + Len(t))[i] = s[i]
  BY <1>1, SubSeqProperties
<1>4. /\ SubSeq(s, 1, k) \o t \in Seq(Record)
      /\ Len(SubSeq(s, 1, k) \o t) = k + Len(t)
      /\ \A i \in 1 .. k + Len(t) : (SubSeq(s, 1, k) \o t)[i] =
           IF i <= k THEN SubSeq(s, 1, k)[i] ELSE t[i - k]
  BY <1>2, ConcatProperties
<1>5. ASSUME NEW i \in 1 .. k + Len(t)
      PROVE  SubSeq(s, 1, k + Len(t))[i] = (SubSeq(s, 1, k) \o t)[i]
  <2>1. CASE i <= k
    BY <1>2, <1>3, <1>4, <2>1
  <2>2. CASE i > k
    <3>1. i - k \in DOMAIN t /\ k + (i - k) = i
      BY <1>1, <2>2, LenProperties
    <3>2. s[i] = t[i - k]
      BY <3>1
    <3> QED
      BY <1>3, <1>4, <2>2, <3>2
  <2> QED
    BY <1>1, <2>1, <2>2
<1> QED
  BY <1>3, <1>4, <1>5, SeqEqual

\* What is durable is in the table.
LEMMA DurableIsCommitted ==
  ASSUME NEW s \in Seq(Record), NEW k \in Nat, k <= Len(s)
  PROVE  Committed(SubSeq(s, 1, k)) \subseteq Committed(s)
<1>1. Len(s) \in Nat /\ \A i \in 1 .. k : s[i] \in Record
  BY ElementOfSeq, LenProperties
<1>2. /\ DOMAIN SubSeq(s, 1, k) = 1 .. k
      /\ \A i \in 1 .. k : SubSeq(s, 1, k)[i] = s[i]
  BY <1>1, SubSeqProperties, LenProperties
<1> QED
  BY <1>1, <1>2, LenProperties DEF Committed, Places


\* What names nothing as committed.
LEMMA NothingCommitted ==
  /\ <<>> \in Seq(Record) /\ Len(<<>>) = 0
  /\ Committed(<<>>) = {} /\ OneEach(<<>>) /\ Places(<<>>, "committed") = {}
  /\ \A kind \in Kind \ {"committed"}, of \in SUBSET Statement :
       /\ Rec(kind, of) \in Record
       /\ <<Rec(kind, of)>> \in Seq(Record)
       /\ Places(<<Rec(kind, of)>>, "committed") = {}
BY DEF Committed, Places, OneEach, Rec, Record

\* A count of reuse records is a number.
LEMMA ReuseCountType ==
  ASSUME NEW s \in Seq(Record)
  PROVE  ReuseCount(s) \in [Statement -> Nat]
<1>1. ASSUME NEW i \in Statement
      PROVE  Cardinality({n \in Places(s, "reuse") : i \in s[n].of}) \in Nat
  <2>1. {n \in Places(s, "reuse") : i \in s[n].of} \in SUBSET (1 .. Len(s))
    BY LenProperties DEF Places
  <2>2. IsFiniteSet(1 .. Len(s))
    BY FS_Interval, LenProperties
  <2> QED
    BY <2>1, <2>2, FS_Subset, FS_CardinalityType
<1> QED
  BY <1>1 DEF ReuseCount

\* What is committed is statements, and a grant is a yes or a no.
LEMMA ReplayTypes ==
  ASSUME NEW s \in Seq(Record)
  PROVE  Committed(s) \in SUBSET Statement /\ Granted(s) \in BOOLEAN
<1>1. ASSUME NEW n \in DOMAIN s PROVE s[n].of \in SUBSET Statement
  <2>1. s[n] \in Record
    BY ElementOfSeq, LenProperties
  <2> QED
    BY <2>1 DEF Record
<1> QED
  BY <1>1 DEF Committed, Granted, Places

-----------------------------------------------------------------------------
(* Where a run goes. *)

\* Whatever follows a statement is idle or at a statement, with nothing sent,
\* and forced only when it is the same statement.
LEMMA WhereRunGoes ==
  ASSUME TypeOK, NEW p \in Runtime,
         NEW next \in {NoRun, NextStmt(p), FailedTry(p), AfterRecord(p)}
  PROVE  /\ next \in Control
         /\ next.phase \in {"idle", "exec"} /\ next.sent = "none"
         /\ next.phase = "idle" => next = NoRun
         /\ next.force => next.stmt = Stmt(p) /\ next \notin {NoRun, NextStmt(p)}
<1>1. pc[p] \in Control /\ Stmt(p) \in Statement /\ pc[p].tries \in Nat
  BY DEF TypeOK, Control, Stmt
<1>2. N \in Nat \ {0} /\ Retries[Stmt(p)] \in Nat
  BY <1>1, ProgramAssumption
<1>3. /\ NoRun \in Control /\ NoRun.phase = "idle" /\ NoRun.sent = "none"
      /\ NoRun.force = FALSE
  BY <1>2 DEF NoRun, Control, Phase, Statement
<1>4. NextStmt(p) \in Control /\ NextStmt(p).sent = "none" /\ NextStmt(p).force = FALSE
      /\ \/ NextStmt(p) = NoRun
         \/ NextStmt(p).phase = "exec"
  <2>1. CASE Stmt(p) = N
    BY <1>3, <2>1 DEF NextStmt
  <2>2. CASE Stmt(p) # N
    <3>1. Stmt(p) + 1 \in Statement
      BY <1>1, <1>2, <2>2 DEF Statement
    <3> QED
      BY <2>2, <3>1 DEF NextStmt, NoRun, Control, Phase
  <2> QED
    BY <2>1, <2>2
<1>5. CASE next = AfterRecord(p)
  <2>1. CASE Retries[Stmt(p)] = 0
    BY <1>3, <1>5, <2>1 DEF AfterRecord
  <2>2. CASE Retries[Stmt(p)] # 0
    <3>1. /\ next \in Control /\ next.phase = "exec" /\ next.sent = "none"
          /\ next.force = TRUE /\ next.stmt = Stmt(p)
      BY <1>1, <1>2, <1>5, <2>2 DEF AfterRecord, NoRun, Control, Phase
    <3> QED
      BY <1>3, <1>4, <3>1
  <2> QED
    BY <2>1, <2>2
<1>6. CASE next = FailedTry(p)
  <2>1. CASE pc[p].tries > 1
    <3>1. pc[p].tries - 1 \in Nat
      BY <1>1, <2>1
    <3> QED
      <4>1. /\ next \in Control /\ next.phase = "exec" /\ next.sent = "none"
            /\ next.force = TRUE /\ next.stmt = Stmt(p)
        BY <1>1, <1>6, <2>1, <3>1 DEF FailedTry, NoRun, Control, Phase
      <4> QED
        BY <1>3, <1>4, <4>1
  <2>2. CASE ~(pc[p].tries > 1)
    BY <1>3, <1>4, <1>6, <2>2 DEF FailedTry
  <2> QED
    BY <2>1, <2>2
<1> QED
  BY <1>3, <1>4, <1>5, <1>6

\* A failure goes on record without forgetting which statement it is of.
LEMMA FailureIsRecorded ==
  ASSUME TypeOK, NEW p \in Runtime
  PROVE  /\ RecordFailure(p) \in Control
         /\ RecordFailure(p).phase = "record" /\ RecordFailure(p).sent = "sent"
         /\ RecordFailure(p).stmt = Stmt(p) /\ RecordFailure(p).force = pc[p].force
<1>1. pc[p] \in Control
  BY DEF TypeOK
<1> QED
  BY <1>1 DEF RecordFailure, Control, Phase, Stmt

-----------------------------------------------------------------------------
(* Steps that leave the table alone, and steps that extend it. *)

\* A runtime that does not move keeps its part of the invariant.
LEMMA OtherRuntime ==
  ASSUME NEW q \in Runtime, RuntimeInv(q), log' = log,
         known'[q] = known[q], tail'[q] = tail[q], traces'[q] = traces[q],
         granted'[q] = granted[q], env'[q] = env[q], pc'[q] = pc[q]
  PROVE  RuntimeInv(q)'
BY DEF RuntimeInv, Durable, TraceIsPending, FlushIsUnderWay, RetryIsRefused, Admitted, Stmt

Elsewhere(p) ==
  \A q \in Runtime \ {p} :
    /\ known'[q] = known[q] /\ tail'[q] = tail[q] /\ traces'[q] = traces[q]
    /\ granted'[q] = granted[q] /\ env'[q] = env[q] /\ pc'[q] = pc[q]

\* A step of one runtime over an unchanged table.
LEMMA TableStays ==
  ASSUME StatementInv, NEW p \in Runtime, Elsewhere(p), log' = log, TypeOK',
         RuntimeInv(p)', answered' \subseteq Committed(log), env'[p] \subseteq Committed(log),
         \A batch \in late' : batch \in late \/ Fits(batch)
  PROVE  StatementInv'
<1>1. \A q \in Runtime : RuntimeInv(q)'
  BY OtherRuntime DEF StatementInv, Elsewhere
<1>2. OneEach(log)' /\ \A batch \in late' : Fits(batch)'
  BY SMTT(30) DEF StatementInv, OneEach, Fits, Committed, Places
<1>3. ASSUME NEW q \in Runtime PROVE (traces[q] \subseteq Committed(log))'
  <2>1. log' \in Seq(Record) /\ known'[q] \in Nat /\ known'[q] <= Len(log')
    BY <1>1 DEF RuntimeInv, TypeOK
  <2>2. Committed(SubSeq(log', 1, known'[q])) \subseteq Committed(log')
    BY <2>1, DurableIsCommitted
  <2> QED
    BY <1>1, <2>2 DEF RuntimeInv, Durable
<1>4. \A q \in Runtime : (env[q] \subseteq Committed(log))'
  BY DEF Elsewhere, StatementInv, OutputsAreTraced
<1>5. OutputsAreTraced'
  BY <1>3, <1>4 DEF OutputsAreTraced
<1> QED
  BY <1>1, <1>2, <1>5 DEF StatementInv

\* What the database appends keeps the table and every runtime in order.
LEMMA TableGrows ==
  ASSUME StatementInv, NEW batch \in Seq(Record), Fits(batch), log' = log \o batch,
         UNCHANGED <<known, tail, memory, answered>>
  PROVE  /\ log' \in Seq(Record) /\ OneEach(log)' /\ OutputsAreTraced'
         /\ \A q \in Runtime : pc'[q] = pc[q] => RuntimeInv(q)'
         /\ \A q \in Runtime : (known[q] <= Len(log) /\ traces[q] = Committed(Durable(q)))'
<1>1. /\ log \in Seq(Record) /\ Len(log) \in Nat /\ Len(batch) \in Nat
      /\ \A q \in Runtime : /\ known[q] \in Nat /\ known[q] <= Len(log)
                            /\ tail[q] \in Seq(Record) /\ Len(tail[q]) \in Nat
  BY LenProperties DEF StatementInv, TypeOK, RuntimeInv
<1>2. /\ log' \in Seq(Record) /\ Len(log') = Len(log) + Len(batch)
      /\ \A n \in 1 .. Len(log) : log'[n] = log[n]
  BY <1>1, ConcatRecords
<1>3. OneEach(log)'
  <2>1. OneEach(log \o batch)
    BY <1>1, OneEachConcat DEF StatementInv, Fits
  <2> QED
    BY <2>1 DEF OneEach, Places
<1>4. Committed(log') = Committed(log) \cup Committed(batch)
  BY <1>1, CommittedConcat
<1>5. OutputsAreTraced'
  BY <1>4 DEF StatementInv, OutputsAreTraced, Committed, Places, memory
<1>6. ASSUME NEW q \in Runtime
      PROVE  (known[q] <= Len(log) /\ traces[q] = Committed(Durable(q)))'
  <2>1. SubSeq(log', 1, known[q]) = SubSeq(log, 1, known[q])
    BY <1>1, DurableStays
  <2>2. traces[q] = Committed(SubSeq(log, 1, known[q]))
    BY DEF StatementInv, RuntimeInv, Durable
  <2> QED
    BY <1>1, <1>2, <2>1, <2>2, SMTT(30) DEF memory, Durable, Committed, Places
<1>7. ASSUME NEW q \in Runtime, pc'[q] = pc[q] PROVE RuntimeInv(q)'
  <2>1. RuntimeInv(q)
    BY DEF StatementInv
  <2>2. TraceIsPending(q)' /\ RetryIsRefused(q)'
    BY <1>7, <2>1 DEF RuntimeInv, TraceIsPending, RetryIsRefused, Admitted, Stmt, memory,
                      Committed, Places
  <2>3. FlushIsUnderWay(q)'
    <3>1. CASE pc[q].sent = "stored"
      <4>1. known[q] + Len(tail[q]) <= Len(log)
        BY <2>1, <3>1 DEF RuntimeInv, FlushIsUnderWay
      <4>2. \A n \in DOMAIN tail[q] : log'[known[q] + n] = tail[q][n]
        <5>1. \A n \in DOMAIN tail[q] : known[q] + n \in 1 .. Len(log)
          BY <1>1, <4>1, LenProperties
        <5> QED
          BY <1>2, <2>1, <3>1, <5>1 DEF RuntimeInv, FlushIsUnderWay
      <4> QED
        BY <1>1, <1>2, <1>7, <2>1, <3>1, <4>1, <4>2 DEF RuntimeInv, FlushIsUnderWay
    <3>2. CASE pc[q].sent # "stored"
      BY <1>7, <2>1, <3>2 DEF RuntimeInv, FlushIsUnderWay
    <3> QED
      BY <3>1, <3>2
  <2> QED
    BY <1>6, <2>2, <2>3 DEF RuntimeInv
<1> QED
  BY <1>2, <1>3, <1>5, <1>6, <1>7

\* A sequence of two parts without a committed trace has none.
LEMMA NothingCommittedConcat ==
  ASSUME NEW s \in Seq(Record), NEW t \in Seq(Record),
         Places(s, "committed") = {}, Places(t, "committed") = {}
  PROVE  Places(s \o t, "committed") = {}
BY ConcatRecords DEF Places

\* A runtime that goes on to another statement, or to a retry it may make.
LEMMA GoesOn ==
  ASSUME StatementInv, NEW p \in Runtime,
         NEW next \in {NoRun, NextStmt(p), FailedTry(p), AfterRecord(p)},
         next.force => (Stmt(p) \in traces[p] => ~Admitted(p)),
         pc'[p] = next, log' = log, known'[p] = known[p], traces'[p] = traces[p],
         granted'[p] = granted[p], env'[p] = env[p],
         Places(tail'[p], "committed") = {}
  PROVE  RuntimeInv(p)'
<1>1. RuntimeInv(p) /\ TypeOK
  BY DEF StatementInv
<1>2. /\ next.phase \in {"idle", "exec"} /\ next.sent = "none"
      /\ next.phase = "idle" => next = NoRun
      /\ next.force => next.stmt = Stmt(p)
  BY <1>1, WhereRunGoes
<1>3. TraceIsPending(p)' /\ FlushIsUnderWay(p)'
  BY <1>2 DEF TraceIsPending, FlushIsUnderWay, Places, NoRun
<1>4. RetryIsRefused(p)'
  BY <1>2 DEF RetryIsRefused, Admitted, Stmt
<1>5. (known[p] <= Len(log) /\ traces[p] = Committed(Durable(p)))'
  BY <1>1 DEF RuntimeInv, Durable, Committed, Places
<1> QED
  BY <1>3, <1>4, <1>5 DEF RuntimeInv

\* Outside of a trace nothing pending is a committed trace.
LEMMA NothingPending ==
  ASSUME StatementInv, NEW p \in Runtime, pc[p].phase # "trace"
  PROVE  Places(tail[p], "committed") = {}
BY DEF StatementInv, RuntimeInv, TraceIsPending

\* What a runtime has pending continues the table as the runtime knows it.
LEMMA TailFits ==
  ASSUME StatementInv, NEW p \in Runtime, known[p] = Len(log)
  PROVE  Fits(tail[p])
<1>1. /\ log \in Seq(Record) /\ Stmt(p) \in Statement /\ RuntimeInv(p)
  BY DEF StatementInv, TypeOK, Control, Stmt
<1>2. Durable(p) = log
  BY <1>1, SubSeqFull DEF Durable
<1>3. ASSUME NEW n \in Places(tail[p], "committed")
      PROVE  n = Len(tail[p]) /\ tail[p][n].of = {Stmt(p)} /\ Stmt(p) \notin Committed(log)
  BY <1>1, <1>2 DEF RuntimeInv, TraceIsPending
<1>4. OneEach(tail[p])
  BY <1>1, <1>3 DEF OneEach
<1>5. Committed(tail[p]) \cap Committed(log) = {}
  <2>1. \A i \in Committed(tail[p]) : \E n \in Places(tail[p], "committed") : i \in tail[p][n].of
    BY DEF Committed
  <2> QED
    BY <1>3, <2>1
<1> QED
  BY <1>4, <1>5 DEF Fits

\* So does what it may leave under way when it stops waiting.
LEMMA UnansweredFits ==
  ASSUME StatementInv, NEW p \in Runtime
  PROVE  \A batch \in Unanswered(p) : batch \in Seq(Record) /\ Fits(batch)
BY TailFits DEF Unanswered, StatementInv, TypeOK

-----------------------------------------------------------------------------
(* Every step keeps the invariant. *)

\* No run, no flush and no late batch to start from.
LEMMA InitStatementInv == Init => StatementInv
<1> SUFFICES ASSUME Init PROVE StatementInv
  OBVIOUS
<1>1. /\ Seed \in Seq(Record) /\ OneEach(Seed) /\ Len(Seed) \in Nat
      /\ Committed(Seed) \in SUBSET Statement /\ Granted(Seed) \in BOOLEAN
      /\ ReuseCount(Seed) \in [Statement -> Nat]
  BY SeedAssumption, ReplayTypes, ReuseCountType, LenProperties
<1>2. NoRun \in Control
  BY ProgramAssumption DEF NoRun, Control, Phase, Statement
<1>3. TypeOK
  BY <1>1, <1>2, NothingCommitted DEF Init, TypeOK
<1>4. ASSUME NEW p \in Runtime PROVE RuntimeInv(p)
  <2>1. known[p] <= Len(log) /\ Durable(p) = Seed
    BY <1>1, SubSeqFull DEF Init, Durable
  <2>2. TraceIsPending(p) /\ FlushIsUnderWay(p) /\ RetryIsRefused(p)
    BY NothingCommitted DEF Init, TraceIsPending, FlushIsUnderWay, RetryIsRefused, NoRun
  <2> QED
    BY <2>1, <2>2 DEF RuntimeInv, Init
<1>5. OneEach(log) /\ late = {} /\ OutputsAreTraced
  BY <1>1 DEF Init, OutputsAreTraced
<1> QED
  BY <1>3, <1>4, <1>5 DEF StatementInv

\* A grant only lengthens a pending batch.
LEMMA AuthorityKeepsInv ==
  ASSUME StatementInv, NEW p \in Runtime, NEW kind \in {"grant", "revoke"}, Authority(p, kind)
  PROVE  StatementInv'
<1>1. /\ TypeOK /\ RuntimeInv(p) /\ tail[p] \in Seq(Record)
      /\ <<Rec(kind, {})>> \in Seq(Record) /\ Places(<<Rec(kind, {})>>, "committed") = {}
  BY NothingCommitted DEF StatementInv, TypeOK, Kind
<1>2. tail'[p] \in Seq(Record) /\ Places(tail'[p], "committed") = {}
  <2>1. tail'[p] = tail[p] \o <<Rec(kind, {})>>
    BY DEF Authority, JournalAppend, StatementInv, TypeOK
  <2>2. Places(tail[p], "committed") = {}
    BY NothingPending DEF Authority
  <2> QED
    BY <1>1, <2>1, <2>2, ConcatRecords, NothingCommittedConcat, ZenonT(40)
<1>3. TypeOK'
  BY <1>1, <1>2 DEF Authority, JournalAppend, TypeOK
<1>4. Elsewhere(p)
  BY <1>1 DEF Authority, JournalAppend, Elsewhere, TypeOK
<1>5. RuntimeInv(p)'
  <2>1. pc'[p] = pc[p] /\ pc[p].phase = "idle" /\ pc[p].sent = "none"
    BY <1>1 DEF Authority, RuntimeInv, FlushIsUnderWay, NoRun
  <2>2. TraceIsPending(p)' /\ FlushIsUnderWay(p)' /\ RetryIsRefused(p)'
    BY <1>1, <1>2, <2>1 DEF TraceIsPending, FlushIsUnderWay, RetryIsRefused, RuntimeInv, Places
  <2> QED
    BY <1>1, <2>2 DEF Authority, RuntimeInv, Durable, Committed, Places
<1>6. answered' = answered /\ env' = env /\ late' = late /\ log' = log
  BY DEF Authority
<1> QED
  BY <1>3, <1>4, <1>5, <1>6, TableStays DEF StatementInv, OutputsAreTraced

\* A run that starts files nothing.
LEMMA RunKeepsInv ==
  ASSUME StatementInv, NEW p \in Runtime, Run(p)
  PROVE  StatementInv'
<1>1. /\ TypeOK /\ RuntimeInv(p) /\ pc[p] = NoRun /\ pc[p] \in Control
  BY DEF StatementInv, TypeOK, RuntimeInv, FlushIsUnderWay, Run
<1>2. pc'[p] = [NoRun EXCEPT !.phase = "exec"] /\ pc'[p] \in Control
  BY <1>1 DEF Run, TypeOK, Control, Phase
<1>3. TypeOK' /\ Elsewhere(p)
  BY <1>1, <1>2 DEF Run, TypeOK, Elsewhere, memory
<1>4. RuntimeInv(p)'
  <2>1. Places(tail[p], "committed") = {}
    BY NothingPending DEF Run
  <2>2. TraceIsPending(p)' /\ FlushIsUnderWay(p)' /\ RetryIsRefused(p)'
    BY <1>2, <2>1 DEF TraceIsPending, FlushIsUnderWay, RetryIsRefused, NoRun, Run, Places
  <2> QED
    BY <1>1, <2>2 DEF Run, memory, RuntimeInv, Durable, Committed, Places
<1>5. answered' = answered /\ env' = env /\ late' = late /\ log' = log
  BY DEF Run, memory
<1> QED
  BY <1>3, <1>4, <1>5, TableStays DEF StatementInv, OutputsAreTraced

\* What a runtime can find is in the table.
LEMMA FoundIsCommitted ==
  ASSUME StatementInv, NEW p \in Runtime
  PROVE  traces[p] \subseteq Committed(log) /\ env[p] \subseteq Committed(log)
         /\ answered \subseteq Committed(log)
BY DEF StatementInv, OutputsAreTraced

\* A step that only moves p on, to a retry if p may be there.
LEMMA ProgressKeepsInv ==
  ASSUME StatementInv, NEW p \in Runtime, pc[p].phase # "trace",
         NEW next \in {NoRun, NextStmt(p), FailedTry(p), AfterRecord(p)},
         next.force => (Stmt(p) \in traces[p] => ~Admitted(p)),
         pc' = [pc EXCEPT ![p] = next],
         answered' \in SUBSET Statement, answered' \subseteq Committed(log),
         UNCHANGED <<log, known, tail, memory, late, lapsed>>
  PROVE  StatementInv'
<1>1. TypeOK /\ pc[p] \in Control /\ next \in Control
  BY WhereRunGoes DEF StatementInv, TypeOK
<1>2. TypeOK' /\ Elsewhere(p)
  BY <1>1 DEF TypeOK, Elsewhere, memory
<1>3. RuntimeInv(p)'
  <2>1. Places(tail'[p], "committed") = {}
    BY NothingPending DEF Places
  <2>2. pc'[p] = next
    BY <1>1 DEF TypeOK
  <2> QED
    BY <2>1, <2>2, GoesOn DEF memory
<1>4. env' = env /\ late' = late /\ log' = log
  BY DEF memory
<1> QED
  BY <1>2, <1>3, <1>4, TableStays, FoundIsCommitted

\* An answer from a trace files nothing.
LEMMA AnswerKeepsInv ==
  ASSUME StatementInv, NEW p \in Runtime, AnswerFromTrace(p)
  PROVE  StatementInv'
<1>1. TypeOK /\ Stmt(p) \in Statement /\ Stmt(p) \in traces[p]
  BY DEF StatementInv, TypeOK, Control, Stmt, AnswerFromTrace, MayAnswer
<1>2. NextStmt(p).force = FALSE
  BY <1>1, WhereRunGoes DEF Control
<1>3. answered' \in SUBSET Statement /\ answered' \subseteq Committed(log)
  BY <1>1, FoundIsCommitted DEF AnswerFromTrace, TypeOK
<1> QED
  BY <1>2, <1>3, ProgressKeepsInv DEF AnswerFromTrace

\* A run that gives up files nothing.
LEMMA AbortKeepsInv ==
  ASSUME StatementInv, NEW p \in Runtime, Abort(p)
  PROVE  StatementInv'
<1>1. TypeOK /\ RuntimeInv(p) /\ pc[p].phase = "exec"
  BY DEF StatementInv, Abort
<1>2. CASE pc[p].force
  <2>1. Stmt(p) \in traces[p] => ~Admitted(p)
    BY <1>1, <1>2 DEF RuntimeInv, RetryIsRefused
  <2> QED
    BY <1>1, <1>2, <2>1, ProgressKeepsInv, FoundIsCommitted DEF Abort, TypeOK
<1>3. CASE ~pc[p].force
  <2>1. ~NoRun.force
    BY DEF NoRun
  <2> QED
    BY <1>1, <1>3, <2>1, ProgressKeepsInv, FoundIsCommitted DEF Abort, TypeOK
<1> QED
  BY <1>2, <1>3

\* A refusal is appended to the pending batch.
LEMMA RefuseKeepsInv ==
  ASSUME StatementInv, NEW p \in Runtime, Refuse(p)
  PROVE  StatementInv'
<1>1. TypeOK /\ RuntimeInv(p) /\ pc[p] \in Control /\ pc[p].phase = "exec"
  BY DEF StatementInv, TypeOK, Refuse
<1>2. Stmt(p) \in traces[p] => ~Admitted(p)
  BY <1>1 DEF Refuse, MayAnswer, RuntimeInv, RetryIsRefused
<1>3. CASE pc[p].force
  BY <1>1, <1>2, <1>3, ProgressKeepsInv, FoundIsCommitted DEF Refuse, TypeOK
<1>4. CASE ~pc[p].force
  <2>1. /\ tail' = [tail EXCEPT ![p] = @ \o <<Rec("failure", {})>>]
        /\ pc' = [pc EXCEPT ![p] = RecordFailure(p)]
        /\ UNCHANGED <<log, known, traces, reuse, granted, env, late, answered, lapsed>>
    BY <1>4 DEF Refuse, JournalAppend, memory
  <2>2. tail[p] \in Seq(Record) /\ RecordFailure(p) \in Control
        /\ tail'[p] = tail[p] \o <<Rec("failure", {})>> /\ pc'[p] = RecordFailure(p)
    BY <1>1, <2>1, FailureIsRecorded DEF TypeOK
  <2>3. tail'[p] \in Seq(Record) /\ Places(tail'[p], "committed") = {}
    <3>1. <<Rec("failure", {})>> \in Seq(Record)
          /\ Places(<<Rec("failure", {})>>, "committed") = {}
      BY NothingCommitted DEF Kind
    <3> QED
      BY <1>1, <2>2, <3>1, NothingPending, ConcatRecords, NothingCommittedConcat, ZenonT(40)
  <2>4. TypeOK' /\ Elsewhere(p)
    BY <1>1, <2>1, <2>2, <2>3 DEF TypeOK, Elsewhere
  <2>5. RuntimeInv(p)'
    <3>1. TraceIsPending(p)' /\ FlushIsUnderWay(p)' /\ RetryIsRefused(p)'
      BY <1>1, <1>2, <2>1, <2>2, <2>3, FailureIsRecorded
      DEF TraceIsPending, FlushIsUnderWay, RetryIsRefused, Admitted, Stmt, Places
    <3> QED
      BY <1>1, <2>1, <3>1 DEF RuntimeInv, Durable, Committed, Places
  <2> QED
    BY <2>1, <2>4, <2>5, TableStays, FoundIsCommitted
<1> QED
  BY <1>3, <1>4

\* A trace joins the pending batch of an idle flush.
LEMMA WriteTraceKeepsInv ==
  ASSUME StatementInv, NEW p \in Runtime, WriteTrace(p)
  PROVE  StatementInv'
<1> DEFINE rec == [kind |-> IF Stmt(p) \in Held THEN "staged" ELSE "committed",
                   of |-> {Stmt(p)}, ctx |-> Context(p)]
<1>1. /\ TypeOK /\ RuntimeInv(p) /\ pc[p] \in Control /\ pc[p].phase = "exec"
      /\ Stmt(p) \in Statement /\ tail[p] \in Seq(Record)
  BY DEF StatementInv, TypeOK, WriteTrace, Control, Stmt
<1>2. Stmt(p) \notin traces[p]
  BY <1>1 DEF WriteTrace, MayAnswer, RuntimeInv, RetryIsRefused
<1>3. rec \in Record /\ <<rec>> \in Seq(Record) /\ Len(<<rec>>) = 1 /\ <<rec>>[1] = rec
  <2>1. Context(p) \in SUBSET Statement
    BY <1>1 DEF Context, TypeOK
  <2> QED
    BY <1>1, <2>1 DEF Record, Kind
<1>4. /\ tail' = [tail EXCEPT ![p] = @ \o <<rec>>]
      /\ pc' = [pc EXCEPT ![p].phase = "trace", ![p].sent = "sent"]
      /\ UNCHANGED <<log, known, traces, reuse, granted, env, late, answered, lapsed>>
  BY DEF WriteTrace, JournalAppend, memory
<1>5. /\ tail'[p] = tail[p] \o <<rec>>
      /\ pc'[p] = [pc[p] EXCEPT !.phase = "trace", !.sent = "sent"]
      /\ pc'[p] \in Control
  BY <1>1, <1>4 DEF TypeOK, Control, Phase
<1>6. /\ tail'[p] \in Seq(Record) /\ Len(tail'[p]) = Len(tail[p]) + 1
      /\ tail'[p][Len(tail'[p])] = rec
      /\ \A n \in DOMAIN tail'[p] : n # Len(tail'[p]) => n \in DOMAIN tail[p]
                                                         /\ tail'[p][n] = tail[p][n]
  <2> HIDE DEF rec
  <2>1. Len(tail[p]) \in Nat
    BY <1>1, LenProperties
  <2> QED
    BY <1>1, <1>3, <1>5, <2>1, ConcatRecords
<1>7. TypeOK' /\ Elsewhere(p)
  <2> HIDE DEF rec
  <2> QED
    BY <1>1, <1>4, <1>5, <1>6 DEF TypeOK, Elsewhere
<1>8. RuntimeInv(p)'
  <2>1. Places(tail[p], "committed") = {}
    BY <1>1, NothingPending
  <2>2. pc'[p].phase = "trace" /\ pc'[p].sent = "sent" /\ Stmt(p)' = Stmt(p)
    BY <1>1, <1>5 DEF Control, Stmt
  <2>3. \A n \in Places(tail'[p], "committed") : n = Len(tail'[p]) /\ tail'[p][n].of = {Stmt(p)}
    BY <1>6, <2>1 DEF Places
  <2>4. Committed(tail'[p]) = {Stmt(p)} \ Held
    <3>1. CASE Stmt(p) \notin Held
      <4>1. Len(tail'[p]) \in DOMAIN tail'[p]
        BY <1>1, <1>6, LenProperties
      <4>2. Len(tail'[p]) \in Places(tail'[p], "committed")
        BY <1>6, <3>1, <4>1 DEF Places
      <4> QED
        BY <2>3, <3>1, <4>2 DEF Committed
    <3>2. CASE Stmt(p) \in Held
      <4>1. Places(tail'[p], "committed") = {}
        BY <1>6, <2>1, <3>2 DEF Places
      <4> QED
        BY <3>2, <4>1 DEF Committed
    <3> QED
      BY <3>1, <3>2
  <2>5. TraceIsPending(p)'
    BY <1>2, <1>4, <2>2, <2>3, <2>4 DEF TraceIsPending, Places, Committed
  <2>6. FlushIsUnderWay(p)' /\ RetryIsRefused(p)'
    BY <2>2 DEF FlushIsUnderWay, RetryIsRefused
  <2> QED
    BY <1>1, <1>4, <2>5, <2>6 DEF RuntimeInv, Durable, Committed, Places
<1> QED
  BY <1>4, <1>7, <1>8, TableStays, FoundIsCommitted

\* The table takes a batch only from a runtime that knows all of it.
LEMMA FlushAtDbKeepsInv ==
  ASSUME StatementInv, NEW p \in Runtime, FlushAtDb(p)
  PROVE  StatementInv'
<1>1. /\ TypeOK /\ RuntimeInv(p) /\ pc[p] \in Control /\ pc[p].sent = "sent"
      /\ log \in Seq(Record) /\ tail[p] \in Seq(Record)
      /\ pc[p].phase \in {"trace", "record"}
  BY DEF StatementInv, TypeOK, FlushAtDb, RuntimeInv, FlushIsUnderWay, NoRun, Control, Phase
<1>2. ASSUME NEW sent \in {"stored", "refused"}, pc' = [pc EXCEPT ![p].sent = sent]
      PROVE  /\ pc'[p] = [pc[p] EXCEPT !.sent = sent] /\ pc' \in [Runtime -> Control]
             /\ \A q \in Runtime \ {p} : pc'[q] = pc[q]
  BY <1>1, <1>2 DEF TypeOK, Control
<1>3. CASE known[p] = Len(log)
  <2>1. /\ log' = log \o tail[p] /\ late' = {}
        /\ pc' = [pc EXCEPT ![p].sent = "stored"]
        /\ UNCHANGED <<known, tail, traces, reuse, granted, env, answered, lapsed>>
    BY <1>3 DEF FlushAtDb, memory
  <2>2. /\ log' \in Seq(Record) /\ OneEach(log)' /\ OutputsAreTraced'
        /\ \A q \in Runtime : pc'[q] = pc[q] => RuntimeInv(q)'
        /\ (known[p] <= Len(log) /\ traces[p] = Committed(Durable(p)))'
    BY <1>1, <1>3, <2>1, TailFits, TableGrows DEF memory
  <2>3. TypeOK'
    BY <1>1, <1>2, <2>1, <2>2 DEF TypeOK
  <2>4. RuntimeInv(p)'
    <3>1. known[p] + Len(tail[p]) <= Len(log')
          /\ \A n \in DOMAIN tail[p] : log'[known[p] + n] = tail[p][n]
      BY <1>1, <1>3, <2>1, ConcatRecords, LenProperties
    <3>2. pc'[p] = [pc[p] EXCEPT !.sent = "stored"]
      BY <1>2, <2>1
    <3>3. /\ pc'[p].phase = pc[p].phase /\ pc'[p].force = pc[p].force
          /\ Stmt(p)' = Stmt(p)
      BY <1>1, <3>2 DEF Control, Stmt
    <3>4. TraceIsPending(p)'
      BY <1>1, <2>1, <3>3 DEF RuntimeInv, TraceIsPending, Committed, Places
    <3>5. FlushIsUnderWay(p)'
      BY <1>1, <2>1, <3>1, <3>3 DEF FlushIsUnderWay
    <3>6. RetryIsRefused(p)'
      BY <1>1, <2>1, <3>3 DEF RuntimeInv, RetryIsRefused, Admitted
    <3> QED
      BY <2>2, <3>4, <3>5, <3>6 DEF RuntimeInv
  <2> QED
    BY <1>2, <2>1, <2>2, <2>3, <2>4 DEF StatementInv
<1>4. CASE known[p] # Len(log)
  <2>1. /\ pc' = [pc EXCEPT ![p].sent = "refused"]
        /\ UNCHANGED <<log, late, known, tail, traces, reuse, granted, env, answered, lapsed>>
    BY <1>4 DEF FlushAtDb, memory
  <2>2. pc'[p] = [pc[p] EXCEPT !.sent = "refused"]
    BY <1>2, <2>1
  <2>3. TypeOK' /\ Elsewhere(p)
    BY <1>1, <1>2, <2>1 DEF TypeOK, Elsewhere
  <2>4. RuntimeInv(p)'
    <3>1. /\ pc'[p].phase = pc[p].phase /\ pc'[p].force = pc[p].force
          /\ Stmt(p)' = Stmt(p) /\ pc'[p].sent = "refused"
      BY <1>1, <2>2 DEF Control, Stmt
    <3>2. TraceIsPending(p)'
      BY <1>1, <2>1, <3>1 DEF RuntimeInv, TraceIsPending, Committed, Places
    <3>3. FlushIsUnderWay(p)' /\ RetryIsRefused(p)'
      BY <1>1, <2>1, <3>1 DEF RuntimeInv, FlushIsUnderWay, RetryIsRefused, Admitted
    <3> QED
      BY <1>1, <2>1, <3>2, <3>3 DEF RuntimeInv, Durable, Committed, Places
  <2> QED
    BY <2>1, <2>3, <2>4, TableStays, FoundIsCommitted
<1> QED
  BY <1>3, <1>4

\* So it does from a sender that gave up.
LEMMA LateFlushKeepsInv ==
  ASSUME StatementInv, NEW batch \in late, LateFlush(batch)
  PROVE  StatementInv'
<1>1. TypeOK /\ batch \in Seq(Record) /\ Fits(batch)
  BY DEF StatementInv, TypeOK
<1>2. /\ log' \in Seq(Record) /\ OneEach(log)' /\ OutputsAreTraced'
      /\ \A q \in Runtime : RuntimeInv(q)'
  BY <1>1, TableGrows DEF LateFlush
<1>3. TypeOK' /\ late' = {}
  BY <1>1, <1>2 DEF LateFlush, TypeOK, memory
<1> QED
  BY <1>2, <1>3 DEF StatementInv

\* A runtime's chain is what it holds as durable and what it has pending.
LEMMA ChainLength ==
  ASSUME StatementInv, NEW p \in Runtime
  PROVE  /\ Len(Chain(p)) = known[p] + Len(tail[p])
         /\ known[p] \in Nat /\ tail[p] \in Seq(Record) /\ log \in Seq(Record)
         /\ Durable(p) \in Seq(Record)
<1>1. known[p] \in Nat /\ known[p] <= Len(log) /\ tail[p] \in Seq(Record) /\ log \in Seq(Record)
  BY DEF StatementInv, TypeOK, RuntimeInv
<1>2. Durable(p) \in Seq(Record) /\ Len(Durable(p)) = known[p]
  <2>1. Len(log) \in Nat /\ \A i \in 1 .. known[p] : log[i] \in Record
    BY <1>1, ElementOfSeq, LenProperties
  <2> QED
    BY <1>1, <2>1, SubSeqProperties DEF Durable
<1>3. Len(Durable(p) \o tail[p]) = Len(Durable(p)) + Len(tail[p])
  BY <1>1, <1>2, ConcatProperties
<1> QED
  BY <1>1, <1>2, <1>3 DEF Chain

\* Once the answer of a flush has come, the table has what was pending.
LEMMA AnsweredFlush ==
  ASSUME StatementInv, NEW p \in Runtime, pc[p].sent = "stored"
  PROVE  /\ Len(Chain(p)) \in Nat /\ Len(Chain(p)) <= Len(log)
         /\ Committed(SubSeq(log, 1, Len(Chain(p)))) = traces[p] \cup Committed(tail[p])
<1>1. /\ Len(Chain(p)) = known[p] + Len(tail[p])
      /\ known[p] \in Nat /\ tail[p] \in Seq(Record) /\ log \in Seq(Record)
      /\ Durable(p) \in Seq(Record)
  BY ChainLength
<1>2. known[p] + Len(tail[p]) <= Len(log) /\ \A n \in DOMAIN tail[p] : log[known[p] + n] = tail[p][n]
  BY DEF StatementInv, RuntimeInv, FlushIsUnderWay
<1>3. SubSeq(log, 1, Len(Chain(p))) = Durable(p) \o tail[p]
  BY <1>1, <1>2, DurableGrows DEF Durable
<1>4. Committed(Durable(p)) = traces[p]
  BY DEF StatementInv, RuntimeInv
<1>5. Committed(Durable(p) \o tail[p]) = Committed(Durable(p)) \cup Committed(tail[p])
  BY <1>1, CommittedConcat
<1>6. Len(tail[p]) \in Nat
  BY <1>1, LenProperties
<1>7. Committed(SubSeq(log, 1, Len(Chain(p)))) = traces[p] \cup Committed(tail[p])
  BY <1>3, <1>4, <1>5, Zenon
<1>8. Len(Chain(p)) \in Nat /\ Len(Chain(p)) <= Len(log)
  BY <1>1, <1>2, <1>6
<1> QED
  BY <1>7, <1>8, Zenon

\* A release follows a stored trace.
LEMMA CommitKeepsInv ==
  ASSUME StatementInv, NEW p \in Runtime, Commit(p)
  PROVE  StatementInv'
<1> DEFINE out == {Stmt(p)} \ Held
<1>1. /\ TypeOK /\ RuntimeInv(p) /\ pc[p].phase = "trace" /\ pc[p].sent = "stored"
      /\ Stmt(p) \in Statement /\ out \in SUBSET Statement
  BY DEF StatementInv, TypeOK, Commit, Control, Stmt
<1>2. /\ Len(Chain(p)) \in Nat /\ Len(Chain(p)) <= Len(log)
      /\ Committed(SubSeq(log, 1, Len(Chain(p)))) = traces[p] \cup Committed(tail[p])
      /\ log \in Seq(Record)
  BY <1>1, AnsweredFlush DEF TypeOK
<1>3. Committed(tail[p]) = out
  BY <1>1 DEF RuntimeInv, TraceIsPending
<1>4. /\ known' = [known EXCEPT ![p] = Len(Chain(p))]
      /\ tail' = [tail EXCEPT ![p] = Releases(p)]
      /\ traces' = [traces EXCEPT ![p] = @ \cup out]
      /\ reuse' = [reuse EXCEPT ![p] =
                     [i \in Statement |-> @[i] + IF i \in Context(p) THEN 1 ELSE 0]]
      /\ env' = [env EXCEPT ![p] = @ \cup out]
      /\ answered' = answered \cup out
      /\ pc' = [pc EXCEPT ![p] = NextStmt(p)]
      /\ UNCHANGED <<log, granted, late, lapsed>>
  BY DEF Commit
<1> HIDE DEF out
<1>5. Releases(p) \in Seq(Record) /\ Places(Releases(p), "committed") = {}
  <2>1. Context(p) \in SUBSET Statement
    BY <1>1 DEF Context, TypeOK
  <2>2. /\ <<Rec("observe", {})>> \in Seq(Record) /\ Places(<<Rec("observe", {})>>, "committed") = {}
        /\ <<Rec("reuse", Context(p))>> \in Seq(Record)
        /\ Places(<<Rec("reuse", Context(p))>>, "committed") = {}
        /\ <<>> \in Seq(Record) /\ Places(<<>>, "committed") = {}
    BY <2>1, NothingCommitted DEF Kind
  <2> QED
    BY <2>2, ConcatRecords, NothingCommittedConcat DEF Releases
<1>6. NextStmt(p) \in Control /\ NextStmt(p).sent = "none" /\ NextStmt(p).force = FALSE
      /\ NextStmt(p).phase \in {"idle", "exec"} /\ (NextStmt(p).phase = "idle" => NextStmt(p) = NoRun)
  BY <1>1, WhereRunGoes DEF Control
<1>7. TypeOK'
  <2>1. \A i \in Statement : reuse[p][i] + (IF i \in Context(p) THEN 1 ELSE 0) \in Nat
    BY <1>1 DEF TypeOK
  <2>2. reuse' \in [Runtime -> [Statement -> Nat]]
    BY <1>1, <1>4, <2>1 DEF TypeOK
  <2>3. /\ log' \in Seq(Record) /\ known' \in [Runtime -> Nat]
        /\ tail' \in [Runtime -> Seq(Record)] /\ pc' \in [Runtime -> Control]
    BY <1>1, <1>2, <1>4, <1>5, <1>6 DEF TypeOK
  <2>4. /\ traces' \in [Runtime -> SUBSET Statement] /\ env' \in [Runtime -> SUBSET Statement]
        /\ answered' \in SUBSET Statement
    BY <1>1, <1>4 DEF TypeOK
  <2> QED
    BY <1>1, <1>4, <2>2, <2>3, <2>4 DEF TypeOK
<1>8. Elsewhere(p)
  BY <1>1, <1>4 DEF TypeOK, Elsewhere
<1>9. out \subseteq Committed(log)
  BY <1>2, <1>3, DurableIsCommitted
<1>10. RuntimeInv(p)'
  <2>1. /\ known'[p] = Len(Chain(p)) /\ traces'[p] = traces[p] \cup out
        /\ tail'[p] = Releases(p) /\ pc'[p] = NextStmt(p)
    BY <1>1, <1>4 DEF TypeOK
  <2>2. (known[p] <= Len(log) /\ traces[p] = Committed(Durable(p)))'
    <3>1. log' = log /\ Durable(p)' = SubSeq(log, 1, Len(Chain(p)))
      BY <1>4, <2>1 DEF Durable
    <3>2. Committed(Durable(p))' = Committed(SubSeq(log, 1, Len(Chain(p))))
      BY <3>1 DEF Committed, Places
    <3> QED
      BY <1>2, <1>3, <2>1, <3>1, <3>2
  <2>3. TraceIsPending(p)' /\ FlushIsUnderWay(p)' /\ RetryIsRefused(p)'
    BY <1>5, <1>6, <2>1 DEF TraceIsPending, FlushIsUnderWay, RetryIsRefused, Places
  <2> QED
    BY <2>2, <2>3 DEF RuntimeInv
<1>11. answered' \subseteq Committed(log) /\ env'[p] \subseteq Committed(log)
  <2>1. env'[p] = env[p] \cup out
    BY <1>1, <1>4 DEF TypeOK
  <2> QED
    BY <1>4, <1>9, <2>1, FoundIsCommitted
<1> QED
  BY <1>4, <1>7, <1>8, <1>10, <1>11, TableStays

\* A failure record that is stored ends the run.
LEMMA RecordedKeepsInv ==
  ASSUME StatementInv, NEW p \in Runtime, Recorded(p)
  PROVE  StatementInv'
<1>1. /\ TypeOK /\ RuntimeInv(p) /\ pc[p].phase = "record" /\ pc[p].sent = "stored"
      /\ log \in Seq(Record)
  BY DEF StatementInv, TypeOK, Recorded
<1>2. /\ Len(Chain(p)) \in Nat /\ Len(Chain(p)) <= Len(log)
      /\ Committed(SubSeq(log, 1, Len(Chain(p)))) = traces[p] \cup Committed(tail[p])
  BY <1>1, AnsweredFlush
<1>3. Committed(tail[p]) = {}
  BY <1>1, NothingPending DEF Committed
<1>4. /\ known' = [known EXCEPT ![p] = Len(Chain(p))]
      /\ tail' = [tail EXCEPT ![p] = <<>>]
      /\ pc' = [pc EXCEPT ![p] = AfterRecord(p)]
      /\ UNCHANGED <<log, traces, reuse, granted, env, late, answered, lapsed>>
  BY DEF Recorded, memory
<1>5. /\ known'[p] = Len(Chain(p)) /\ tail'[p] = <<>> /\ pc'[p] = AfterRecord(p)
      /\ AfterRecord(p) \in Control
      /\ AfterRecord(p).phase \in {"idle", "exec"} /\ AfterRecord(p).sent = "none"
      /\ AfterRecord(p).phase = "idle" => AfterRecord(p) = NoRun
      /\ AfterRecord(p).force => AfterRecord(p).stmt = Stmt(p)
  BY <1>1, <1>4, WhereRunGoes DEF TypeOK
<1>6. TypeOK' /\ Elsewhere(p)
  BY <1>1, <1>2, <1>4, <1>5, NothingCommitted DEF TypeOK, Elsewhere
<1>7. RuntimeInv(p)'
  <2>1. (known[p] <= Len(log) /\ traces[p] = Committed(Durable(p)))'
    BY <1>2, <1>3, <1>4, <1>5 DEF Durable, Committed, Places
  <2>2. TraceIsPending(p)' /\ FlushIsUnderWay(p)'
    BY <1>5, NothingCommitted DEF TraceIsPending, FlushIsUnderWay, Places
  <2>3. RetryIsRefused(p)'
    BY <1>1, <1>4, <1>5 DEF RuntimeInv, RetryIsRefused, Admitted, Stmt
  <2> QED
    BY <2>1, <2>2, <2>3 DEF RuntimeInv
<1> QED
  BY <1>4, <1>6, <1>7, TableStays, FoundIsCommitted

\* A failed flush leaves what the runtime knows of the table.
LEMMA FlushFailsKeepsInv ==
  ASSUME StatementInv, NEW p \in Runtime, FlushFails(p)
  PROVE  StatementInv'
<1> DEFINE recorded == pc[p].phase = "trace" /\ ~pc[p].force
           next == IF recorded THEN RecordFailure(p)
                   ELSE IF pc[p].phase = "trace" THEN FailedTry(p) ELSE AfterRecord(p)
           left == IF recorded THEN <<Rec("failure", {})>> ELSE <<>>
<1>1. /\ TypeOK /\ RuntimeInv(p) /\ pc[p] \in Control /\ pc[p].sent # "none"
      /\ pc[p].phase \in {"trace", "record"}
  BY DEF StatementInv, TypeOK, FlushFails, RuntimeInv, FlushIsUnderWay, NoRun, Control, Phase
<1>2. /\ known' = [known EXCEPT ![p] = known[p]]
      /\ tail' = [tail EXCEPT ![p] = left] /\ pc' = [pc EXCEPT ![p] = next]
      /\ late' = late \cup Unanswered(p)
      /\ lapsed' \in {lapsed, lapsed \cup {p}}
      /\ UNCHANGED <<log, traces, reuse, granted, env, answered>>
  BY DEF FlushFails, RolledBackTo, memory
<1>3. left \in Seq(Record) /\ Places(left, "committed") = {}
  BY NothingCommitted DEF Kind
<1>4. Stmt(p) \in traces[p] => ~Admitted(p)
  BY <1>1 DEF RuntimeInv, TraceIsPending, RetryIsRefused
<1>5. next \in Control
  BY <1>1, FailureIsRecorded, WhereRunGoes
<1> HIDE DEF left, next
<1>6. known' = known /\ tail'[p] = left /\ pc'[p] = next
  BY <1>1, <1>2 DEF TypeOK
<1>7. TypeOK' /\ Elsewhere(p)
  BY <1>1, <1>2, <1>3, <1>5, UnansweredFits DEF TypeOK, Elsewhere
<1>8. RuntimeInv(p)'
  <2>1. CASE recorded
    <3>1. next = RecordFailure(p)
      BY <2>1 DEF next
    <3>2. /\ next.phase = "record" /\ next.sent = "sent" /\ next.stmt = Stmt(p)
      BY <1>1, <3>1, FailureIsRecorded
    <3>3. TraceIsPending(p)' /\ FlushIsUnderWay(p)' /\ RetryIsRefused(p)'
      BY <1>2, <1>3, <1>4, <1>6, <3>2
      DEF TraceIsPending, FlushIsUnderWay, RetryIsRefused, Admitted, Stmt, Places
    <3>4. log' = log /\ known'[p] = known[p] /\ traces'[p] = traces[p]
      BY <1>2, <1>6
    <3>5. Durable(p)' = Durable(p)
      BY <3>4 DEF Durable
    <3>6. Committed(Durable(p))' = Committed(Durable(p))
      BY <3>5 DEF Committed, Places
    <3> QED
      BY <1>1, <3>3, <3>4, <3>6 DEF RuntimeInv
  <2>2. CASE ~recorded
    <3>1. next \in {NoRun, NextStmt(p), FailedTry(p), AfterRecord(p)}
      BY <2>2 DEF next
    <3>2. Places(tail'[p], "committed") = {}
      BY <1>3, <1>6 DEF Places
    <3> QED
      BY <1>2, <1>4, <1>6, <3>1, <3>2, GoesOn
  <2> QED
    BY <2>1, <2>2
<1> QED
  BY <1>2, <1>7, <1>8, TableStays, FoundIsCommitted, UnansweredFits

\* A new process knows the table, and pends nothing.
LEMMA RestartKeepsInv ==
  ASSUME StatementInv, NEW p \in Runtime, Restart(p)
  PROVE  StatementInv'
<1>1. TypeOK /\ log \in Seq(Record) /\ Len(log) \in Nat
  BY LenProperties DEF StatementInv, TypeOK
<1>2. /\ Committed(log) \in SUBSET Statement /\ Granted(log) \in BOOLEAN
      /\ ReuseCount(log) \in [Statement -> Nat] /\ NoRun \in Control
  BY <1>1, ReplayTypes, ReuseCountType, WhereRunGoes
<1>3. TypeOK' /\ Elsewhere(p)
  BY <1>1, <1>2, NothingCommitted, UnansweredFits DEF Restart, TypeOK, Elsewhere
<1>4. RuntimeInv(p)'
  <2>1. /\ log' = log /\ known'[p] = Len(log) /\ traces'[p] = Committed(log)
        /\ tail'[p] = <<>> /\ pc'[p] = NoRun
    BY <1>1 DEF Restart, TypeOK
  <2>2. Durable(p)' = log
    BY <1>1, <2>1, SubSeqFull DEF Durable
  <2>3. TraceIsPending(p)' /\ FlushIsUnderWay(p)' /\ RetryIsRefused(p)'
    BY <2>1, NothingCommitted DEF TraceIsPending, FlushIsUnderWay, RetryIsRefused, NoRun, Places
  <2> QED
    BY <1>1, <2>1, <2>2, <2>3 DEF RuntimeInv, Committed, Places
<1>5. env'[p] = {}
  BY <1>1 DEF Restart, TypeOK
<1> QED
  BY <1>3, <1>4, <1>5, TableStays, FoundIsCommitted, UnansweredFits DEF Restart

-----------------------------------------------------------------------------
(* The theorems. *)

\* Every step, a stutter included, keeps the invariant.
LEMMA StepKeepsInv == StatementInv /\ [Next]_vars => StatementInv'
<1> SUFFICES ASSUME StatementInv, [Next]_vars PROVE StatementInv'
  OBVIOUS
<1>1. ASSUME NEW p \in Runtime, NEW kind \in {"grant", "revoke"}, Authority(p, kind)
      PROVE  StatementInv'
  BY <1>1, AuthorityKeepsInv
<1>2. ASSUME NEW p \in Runtime, Run(p) \/ AnswerFromTrace(p) \/ WriteTrace(p)
      PROVE  StatementInv'
  BY <1>2, RunKeepsInv, AnswerKeepsInv, WriteTraceKeepsInv
<1>3. ASSUME NEW p \in Runtime, Refuse(p) \/ Abort(p) \/ FlushAtDb(p)
      PROVE  StatementInv'
  BY <1>3, RefuseKeepsInv, AbortKeepsInv, FlushAtDbKeepsInv
<1>4. ASSUME NEW p \in Runtime, Commit(p) \/ Recorded(p) \/ FlushFails(p) \/ Restart(p)
      PROVE  StatementInv'
  BY <1>4, CommitKeepsInv, RecordedKeepsInv, FlushFailsKeepsInv, RestartKeepsInv
<1>5. ASSUME NEW batch \in late, LateFlush(batch) PROVE StatementInv'
  BY <1>5, LateFlushKeepsInv
<1>6. CASE UNCHANGED vars
  <2>1. /\ log' = log /\ late' = late /\ answered' = answered
        /\ known' = known /\ tail' = tail /\ traces' = traces /\ reuse' = reuse
        /\ granted' = granted /\ env' = env /\ pc' = pc /\ lapsed' = lapsed
    BY <1>6 DEF vars
  <2>2. TypeOK'
    BY <2>1 DEF StatementInv, TypeOK
  <2>3. \A p \in Runtime : RuntimeInv(p)'
    BY <2>1, OtherRuntime DEF StatementInv
  <2>4. Committed(log)' = Committed(log) /\ OneEach(log)'
    BY <2>1 DEF StatementInv, OneEach, Committed, Places
  <2>5. \A batch \in late' : Fits(batch)'
    BY <2>1, <2>4 DEF StatementInv, Fits, OneEach, Committed, Places
  <2>6. OutputsAreTraced'
    BY <2>1, <2>4 DEF StatementInv, OutputsAreTraced
  <2> QED
    BY <2>2, <2>3, <2>4, <2>5, <2>6 DEF StatementInv
<1> QED
  BY <1>1, <1>2, <1>3, <1>4, <1>5, <1>6 DEF Next

\* The inductive invariant of statement execution holds, whatever runtimes
\* race and whatever flushes are refused, unanswered, late or cut off.
THEOREM StatementInvariant == Spec => []StatementInv
<1>1. Init => StatementInv
  BY InitStatementInv
<1>2. StatementInv /\ [Next]_vars => StatementInv'
  BY StepKeepsInv
<1> QED
  BY <1>1, <1>2, PTL DEF Spec

\* SPEC 8.2: no statement is filed twice, by retries, by runtimes that race
\* or by requests that arrive late.
THEOREM NothingFiledTwice == Spec => []FiledOnce
<1>1. StatementInv => FiledOnce
  BY DEF StatementInv, OneEach, FiledOnce
<1> QED
  BY <1>1, StatementInvariant, PTL

\* SPEC 8.3: whatever a caller was given, a later statement may use or an
\* idempotency check may answer with has its committed trace in the table.
THEOREM NothingReleasedUntraced == Spec => []OutputsAreTraced
<1>1. StatementInv => OutputsAreTraced
  BY DEF StatementInv
<1> QED
  BY <1>1, StatementInvariant, PTL

-----------------------------------------------------------------------------
(* What a runtime holds in memory is what a replay of its chain yields. *)

NoGrants(t) == Places(t, "grant") = {} /\ Places(t, "revoke") = {}
NoReuse(t) == Places(t, "reuse") = {}

\* A runtime that lapsed nothing would replay its chain into what it holds.
ReplayStands(p) ==
  p \notin lapsed => granted[p] = Granted(Chain(p)) /\ reuse[p] = ReuseCount(Chain(p))
\* A trace is on its way only under a grant.
TraceIsGranted(p) == pc[p].phase = "trace" => granted[p]
ReplayInd == \A p \in Runtime : ReplayStands(p) /\ TraceIsGranted(p)

\* Records that are no grants and no revocations change no authority.
LEMMA GrantedConcat ==
  ASSUME NEW s \in Seq(Record), NEW t \in Seq(Record), NoGrants(t)
  PROVE  Granted(s \o t) = Granted(s)
<1>1. \A kind \in {"grant", "revoke"} : Places(s \o t, kind) = Places(s, kind)
  <2> SUFFICES ASSUME NEW kind \in {"grant", "revoke"}
               PROVE  Places(s \o t, kind) = Places(s, kind)
    OBVIOUS
  <2>1. Places(t, kind) = {}
    BY DEF NoGrants
  <2>2. ASSUME NEW n \in Places(s \o t, kind) PROVE n \in Places(s, kind)
    BY <2>1, ConcatRecords DEF Places
  <2>3. ASSUME NEW n \in Places(s, kind) PROVE n \in Places(s \o t, kind)
    BY ConcatRecords, LenProperties DEF Places
  <2> QED
    BY <2>2, <2>3
<1> QED
  BY <1>1 DEF Granted

\* A grant or a revocation that comes last decides.
LEMMA LastDecides ==
  ASSUME NEW s \in Seq(Record), NEW kind \in {"grant", "revoke"}
  PROVE  Granted(s \o <<Rec(kind, {})>>) = (kind = "grant")
<1> DEFINE t == <<Rec(kind, {})>>
           both == s \o t
<1>1. t \in Seq(Record) /\ Len(t) = 1 /\ t[1] = Rec(kind, {}) /\ Rec(kind, {}).kind = kind
  BY DEF Rec, Record, Kind
<1>2. Len(s) \in Nat
  BY LenProperties
<1> HIDE DEF t
<1>3. /\ DOMAIN both = 1 .. Len(s) + 1
      /\ both[Len(s) + 1] = Rec(kind, {})
  BY <1>1, <1>2, ConcatRecords
<1> HIDE DEF both
<1>4. Len(s) + 1 \in Places(both, kind)
  BY <1>1, <1>2, <1>3 DEF Places
<1>5. \A other \in {"grant", "revoke"} : \A n \in Places(both, other) :
        n \in Nat /\ n <= Len(s) + 1 /\ (other # kind => n # Len(s) + 1)
  BY <1>1, <1>2, <1>3 DEF Places
<1>6. CASE kind = "grant"
  <2>1. \A m \in Places(both, "revoke") : m < Len(s) + 1
    BY <1>2, <1>5, <1>6
  <2> QED
    BY <1>4, <1>6, <2>1 DEF Granted, both, t
<1>7. CASE kind = "revoke"
  <2>1. \A n \in Places(both, "grant") : ~ (Len(s) + 1 < n)
    BY <1>2, <1>5, <1>7
  <2> QED
    BY <1>4, <1>7, <2>1 DEF Granted, both, t
<1> QED
  BY <1>6, <1>7

\* Records of anything else leave every count of reuse.
LEMMA ReuseConcat ==
  ASSUME NEW s \in Seq(Record), NEW t \in Seq(Record), NoReuse(t)
  PROVE  ReuseCount(s \o t) = ReuseCount(s)
<1>1. Places(s \o t, "reuse") = Places(s, "reuse")
  <2>1. ASSUME NEW n \in Places(s \o t, "reuse") PROVE n \in Places(s, "reuse")
    BY ConcatRecords DEF Places, NoReuse
  <2>2. ASSUME NEW n \in Places(s, "reuse") PROVE n \in Places(s \o t, "reuse")
    BY ConcatRecords, LenProperties DEF Places
  <2> QED
    BY <2>1, <2>2
<1>2. \A n \in Places(s, "reuse") : (s \o t)[n] = s[n]
  BY ConcatRecords, LenProperties DEF Places
<1>3. ASSUME NEW i \in Statement
      PROVE  {n \in Places(s \o t, "reuse") : i \in (s \o t)[n].of} =
             {n \in Places(s, "reuse") : i \in s[n].of}
  BY <1>1, <1>2
<1> QED
  BY <1>3 DEF ReuseCount

\* A reuse record counts once for each trace it names.
LEMMA ReuseAdds ==
  ASSUME NEW s \in Seq(Record), NEW of \in SUBSET Statement
  PROVE  ReuseCount(s \o <<Rec("reuse", of)>>) =
           [i \in Statement |-> ReuseCount(s)[i] + IF i \in of THEN 1 ELSE 0]
<1> DEFINE t == <<Rec("reuse", of)>>
           both == s \o t
           k == Len(s) + 1
<1>1. /\ t \in Seq(Record) /\ Len(t) = 1 /\ t[1] = Rec("reuse", of)
      /\ Rec("reuse", of).kind = "reuse" /\ Rec("reuse", of).of = of
  BY DEF Rec, Record, Kind
<1>2. Len(s) \in Nat /\ DOMAIN s = 1 .. Len(s)
  BY LenProperties
<1> HIDE DEF t
<1>3. /\ DOMAIN both = 1 .. Len(s) + 1
      /\ both[Len(s) + 1] = Rec("reuse", of)
      /\ \A n \in 1 .. Len(s) : both[n] = s[n]
  <2>1. /\ DOMAIN both = 1 .. Len(s) + 1
        /\ \A n \in 1 .. Len(t) : both[Len(s) + n] = t[n]
    BY <1>1, ConcatRecords
  <2>2. \A n \in 1 .. Len(s) : both[n] = s[n]
    BY <1>1, ConcatRecords
  <2> QED
    BY <1>1, <2>1, <2>2
<1> HIDE DEF both
<1>4. Places(both, "reuse") = Places(s, "reuse") \cup {k}
  BY <1>1, <1>2, <1>3 DEF Places
<1>5. k \notin Places(s, "reuse") /\ \A n \in Places(s, "reuse") : both[n] = s[n]
  BY <1>2, <1>3 DEF Places
<1>6. ASSUME NEW i \in Statement
      PROVE  Cardinality({n \in Places(both, "reuse") : i \in both[n].of}) =
             Cardinality({n \in Places(s, "reuse") : i \in s[n].of})
               + IF i \in of THEN 1 ELSE 0
  <2> DEFINE old == {n \in Places(s, "reuse") : i \in s[n].of}
             new == {n \in Places(both, "reuse") : i \in both[n].of}
  <2>1. new = IF i \in of THEN old \cup {k} ELSE old
    BY <1>1, <1>3, <1>4, <1>5
  <2>2. k \notin old
    BY <1>5
  <2>3. IsFiniteSet(old)
    <3>1. old \in SUBSET (1 .. Len(s))
      BY <1>2 DEF Places
    <3>2. IsFiniteSet(1 .. Len(s))
      BY <1>2, FS_Interval
    <3> HIDE DEF old
    <3> QED
      BY <3>1, <3>2, FS_Subset
  <2> HIDE DEF old, new, k
  <2>4. Cardinality(old) \in Nat /\ Cardinality(old \cup {k}) = Cardinality(old) + 1
    BY <2>2, <2>3, FS_CardinalityType, FS_AddElement
  <2>5. Cardinality(new) = Cardinality(old) + IF i \in of THEN 1 ELSE 0
    BY <2>1, <2>4
  <2> QED
    BY <2>5 DEF old, new
<1>7. \A i \in Statement :
        ReuseCount(s)[i] = Cardinality({n \in Places(s, "reuse") : i \in s[n].of})
  BY DEF ReuseCount
<1>8. ReuseCount(both) =
        [i \in Statement |-> ReuseCount(s)[i] + IF i \in of THEN 1 ELSE 0]
  BY <1>6, <1>7 DEF ReuseCount
<1> QED
  BY <1>8 DEF both, t

\* What is neither: nothing, and the records of attempts.
LEMMA NothingReplayed ==
  /\ <<>> \in Seq(Record) /\ NoGrants(<<>>) /\ NoReuse(<<>>)
  /\ \A r \in Record : r.kind \notin {"grant", "revoke"} => NoGrants(<<r>>)
  /\ \A r \in Record : r.kind # "reuse" => NoReuse(<<r>>)
BY DEF NoGrants, NoReuse, Places

\* A batch of one record that replays into nothing.
LEMMA QuietRecord ==
  ASSUME NEW kind \in Kind, NEW of \in SUBSET Statement
  PROVE  /\ <<Rec(kind, of)>> \in Seq(Record)
         /\ kind \notin {"grant", "revoke"} => NoGrants(<<Rec(kind, of)>>)
         /\ kind # "reuse" => NoReuse(<<Rec(kind, of)>>)
<1>1. PICK r : r = Rec(kind, of)
  OBVIOUS
<1>2. r \in Record /\ r.kind = kind
  BY <1>1 DEF Rec, Record
<1>3. <<r>> \in Seq(Record)
  BY <1>2
<1>4. kind \notin {"grant", "revoke"} => NoGrants(<<r>>)
  BY <1>2, NothingReplayed
<1>5. kind # "reuse" => NoReuse(<<r>>)
  BY <1>2, NothingReplayed
<1> QED
  BY <1>1, <1>3, <1>4, <1>5

\* The kinds the steps below append.
LEMMA KindsAppended ==
  {"grant", "revoke", "reuse", "failure", "observe"} \subseteq Kind /\ {} \in SUBSET Statement
BY DEF Kind

\* The record of a failure is one.
LEMMA FailureIsQuiet ==
  /\ <<Rec("failure", {})>> \in Seq(Record)
  /\ NoGrants(<<Rec("failure", {})>>) /\ NoReuse(<<Rec("failure", {})>>)
<1>1. PICK kind \in Kind : kind = "failure"
  BY KindsAppended
<1>2. PICK of \in SUBSET Statement : of = {}
  BY KindsAppended
<1> QED
  BY <1>1, <1>2, QuietRecord

\* Batches join in any grouping.
LEMMA RecordsJoin ==
  ASSUME NEW s \in Seq(Record), NEW t \in Seq(Record), NEW u \in Seq(Record)
  PROVE  (s \o t) \o u = s \o (t \o u)
BY ConcatAssociative

\* Nothing joined to a batch.
LEMMA NothingJoins == \A s \in Seq(Record) : <<>> \o s = s /\ s \o <<>> = s
BY ConcatEmptySeq

\* A runtime whose flush is not answered keeps what it holds as durable.
LEMMA DurableKept ==
  ASSUME StatementInv, NEW p \in Runtime, known'[p] = known[p],
         log' = log \/ \E x \in Seq(Record) : log' = log \o x
  PROVE  Durable(p)' = Durable(p)
<1>1. log \in Seq(Record) /\ known[p] \in Nat /\ known[p] <= Len(log)
  BY DEF StatementInv, TypeOK, RuntimeInv
<1> QED
  BY <1>1, DurableStays DEF Durable

\* A runtime that appends no grant, revocation or reuse.
LEMMA AppendsQuietly ==
  ASSUME StatementInv, NEW p \in Runtime, ReplayStands(p),
         known'[p] = known[p], log' = log \/ \E x \in Seq(Record) : log' = log \o x,
         granted'[p] = granted[p], reuse'[p] = reuse[p], p \in lapsed => p \in lapsed',
         NEW t \in Seq(Record), NoGrants(t), NoReuse(t), tail'[p] = tail[p] \o t
  PROVE  ReplayStands(p)'
<1>1. Durable(p)' = Durable(p)
  BY DurableKept
<1>2. Durable(p) \in Seq(Record) /\ tail[p] \in Seq(Record)
  BY ChainLength
<1>3. Chain(p) \in Seq(Record)
  BY <1>2, ConcatProperties DEF Chain
<1>4. Chain(p)' = Chain(p) \o t
  <2>1. (Durable(p) \o tail[p]) \o t = Durable(p) \o (tail[p] \o t)
    BY <1>2, RecordsJoin
  <2> QED
    BY <1>1, <2>1 DEF Chain
<1>5. Granted(Chain(p) \o t) = Granted(Chain(p)) /\ ReuseCount(Chain(p) \o t) = ReuseCount(Chain(p))
  BY <1>3, GrantedConcat, ReuseConcat
<1>6. p \notin lapsed' =>
        granted'[p] = Granted(Chain(p) \o t) /\ reuse'[p] = ReuseCount(Chain(p) \o t)
  BY <1>5 DEF ReplayStands
<1> QED
  BY <1>4, <1>6 DEF ReplayStands

\* A runtime that does not move, whatever the table becomes.
LEMMA ReplayElsewhere ==
  ASSUME StatementInv, NEW p \in Runtime, ReplayStands(p), TraceIsGranted(p),
         known'[p] = known[p], tail'[p] = tail[p],
         log' = log \/ \E x \in Seq(Record) : log' = log \o x,
         granted'[p] = granted[p], reuse'[p] = reuse[p], p \in lapsed => p \in lapsed',
         pc'[p].phase = "trace" => pc[p].phase = "trace"
  PROVE  ReplayStands(p)' /\ TraceIsGranted(p)'
<1>1. Durable(p)' = Durable(p)
  BY DurableKept
<1>2. Chain(p)' = Chain(p)
  BY <1>1 DEF Chain
<1>3. p \notin lapsed' => granted'[p] = Granted(Chain(p)) /\ reuse'[p] = ReuseCount(Chain(p))
  BY DEF ReplayStands
<1> QED
  BY <1>2, <1>3 DEF ReplayStands, TraceIsGranted

\* A step of one runtime over an unchanged table.
LEMMA ReplayMoves ==
  ASSUME StatementInv, ReplayInd, NEW p \in Runtime, Elsewhere(p), log' = log,
         \A q \in Runtime \ {p} : reuse'[q] = reuse[q] /\ (q \in lapsed => q \in lapsed'),
         ReplayStands(p)', TraceIsGranted(p)'
  PROVE  ReplayInd'
<1>1. ASSUME NEW q \in Runtime, q # p PROVE ReplayStands(q)' /\ TraceIsGranted(q)'
  <2>1. ReplayStands(q) /\ TraceIsGranted(q)
    BY DEF ReplayInd
  <2>2. /\ known'[q] = known[q] /\ tail'[q] = tail[q] /\ granted'[q] = granted[q]
        /\ pc'[q] = pc[q] /\ reuse'[q] = reuse[q] /\ (q \in lapsed => q \in lapsed')
    BY <1>1 DEF Elsewhere
  <2> QED
    BY <2>1, <2>2, ReplayElsewhere
<1> QED
  BY <1>1 DEF ReplayInd

\* What has been flushed is durable, and the chain is what it was.
LEMMA ChainFlushed ==
  ASSUME StatementInv, NEW p \in Runtime, pc[p].sent = "stored",
         log' = log, known'[p] = Len(Chain(p))
  PROVE  Durable(p)' = Chain(p)
<1>1. /\ Len(Chain(p)) = known[p] + Len(tail[p])
      /\ known[p] \in Nat /\ tail[p] \in Seq(Record) /\ log \in Seq(Record)
  BY ChainLength
<1>2. /\ known[p] + Len(tail[p]) <= Len(log)
      /\ \A n \in DOMAIN tail[p] : log[known[p] + n] = tail[p][n]
  BY DEF StatementInv, RuntimeInv, FlushIsUnderWay
<1>3. SubSeq(log, 1, known[p] + Len(tail[p])) = Durable(p) \o tail[p]
  BY <1>1, <1>2, DurableGrows DEF Durable
<1> QED
  BY <1>1, <1>3 DEF Durable, Chain

\* A runtime starts from the replay of its seed.
LEMMA InitReplayInd == Init => ReplayInd
<1> SUFFICES ASSUME Init, NEW p \in Runtime PROVE ReplayStands(p) /\ TraceIsGranted(p)
  BY DEF ReplayInd
<1>1. /\ log = Seed /\ known[p] = Len(Seed) /\ tail[p] = <<>> /\ pc[p] = NoRun
      /\ reuse[p] = ReuseCount(Seed) /\ granted[p] = Granted(Seed)
  BY DEF Init
<1>2. Durable(p) = Seed
  BY <1>1, SeedAssumption, SubSeqFull DEF Durable
<1>3. Chain(p) = Seed
  BY <1>1, <1>2, SeedAssumption, NothingJoins DEF Chain
<1> QED
  BY <1>1, <1>3 DEF ReplayStands, TraceIsGranted, NoRun

\* A grant or a revocation of the administrator.
LEMMA AuthorityReplays ==
  ASSUME StatementInv, ReplayInd, NEW p \in Runtime, NEW kind \in {"grant", "revoke"},
         Authority(p, kind)
  PROVE  ReplayInd'
<1>1. TypeOK /\ ReplayStands(p) /\ pc[p].phase = "idle"
  BY DEF StatementInv, ReplayInd, Authority
<1>2. /\ tail' = [tail EXCEPT ![p] = @ \o <<Rec(kind, {})>>]
      /\ granted' = [granted EXCEPT ![p] = (kind = "grant")]
      /\ UNCHANGED <<log, known, traces, reuse, env, pc, late, answered, lapsed>>
  BY DEF Authority, JournalAppend
<1>3. tail'[p] = tail[p] \o <<Rec(kind, {})>> /\ granted'[p] = (kind = "grant")
  BY <1>1, <1>2 DEF TypeOK
<1>4. /\ Durable(p) \in Seq(Record) /\ tail[p] \in Seq(Record) /\ Chain(p) \in Seq(Record)
      /\ <<Rec(kind, {})>> \in Seq(Record) /\ NoReuse(<<Rec(kind, {})>>)
  <2>1. kind \in Kind /\ kind # "reuse" /\ {} \in SUBSET Statement
    BY KindsAppended
  <2>2. <<Rec(kind, {})>> \in Seq(Record) /\ NoReuse(<<Rec(kind, {})>>)
    BY <2>1, QuietRecord
  <2>3. Durable(p) \in Seq(Record) /\ tail[p] \in Seq(Record)
    BY ChainLength
  <2> QED
    BY <2>2, <2>3, ConcatProperties DEF Chain
<1>5. Durable(p)' = Durable(p)
  BY <1>2, DurableKept
<1>6. Chain(p)' = Chain(p) \o <<Rec(kind, {})>>
  <2>1. PICK t \in Seq(Record) : t = <<Rec(kind, {})>>
    BY <1>4
  <2>2. (Durable(p) \o tail[p]) \o t = Durable(p) \o (tail[p] \o t)
    BY <1>4, RecordsJoin
  <2> QED
    BY <1>3, <1>5, <2>1, <2>2 DEF Chain
<1>7. /\ Granted(Chain(p) \o <<Rec(kind, {})>>) = (kind = "grant")
      /\ ReuseCount(Chain(p) \o <<Rec(kind, {})>>) = ReuseCount(Chain(p))
  BY <1>4, LastDecides, ReuseConcat
<1>8. ReplayStands(p)' /\ TraceIsGranted(p)'
  BY <1>1, <1>2, <1>3, <1>6, <1>7 DEF ReplayStands, TraceIsGranted
<1>9. Elsewhere(p)
  BY <1>1, <1>2 DEF TypeOK, Elsewhere
<1> QED
  BY <1>2, <1>8, <1>9, ReplayMoves

\* A run that goes on without writing.
LEMMA ProgressReplays ==
  ASSUME StatementInv, ReplayInd, NEW p \in Runtime, Run(p) \/ AnswerFromTrace(p) \/ Abort(p)
  PROVE  ReplayInd'
<1>1. TypeOK /\ pc[p] \in Control
  BY DEF StatementInv, TypeOK
<1>2. /\ UNCHANGED <<log, known, tail, traces, reuse, granted, env, lapsed>>
      /\ \A q \in Runtime \ {p} : pc'[q] = pc[q]
  BY <1>1 DEF Run, AnswerFromTrace, Abort, memory, TypeOK
<1>3. pc'[p].phase # "trace"
  <2>1. CASE Run(p)
    BY <1>1, <2>1 DEF Run, TypeOK, Control
  <2>2. CASE AnswerFromTrace(p)
    BY <1>1, <2>2, WhereRunGoes DEF AnswerFromTrace, TypeOK
  <2>3. CASE Abort(p)
    BY <1>1, <2>3, WhereRunGoes DEF Abort, TypeOK
  <2> QED
    BY <2>1, <2>2, <2>3
<1>4. ASSUME NEW q \in Runtime PROVE ReplayStands(q)' /\ TraceIsGranted(q)'
  <2>1. pc'[q].phase = "trace" => pc[q].phase = "trace"
    BY <1>2, <1>3
  <2> QED
    BY <1>2, <2>1, ReplayElsewhere DEF ReplayInd
<1> QED
  BY <1>4 DEF ReplayInd

\* A trace is written under a grant.
LEMMA WriteTraceReplays ==
  ASSUME StatementInv, ReplayInd, NEW p \in Runtime, WriteTrace(p)
  PROVE  ReplayInd'
<1>1. TypeOK /\ ReplayStands(p) /\ granted[p] /\ Stmt(p) \in Statement
  BY DEF StatementInv, ReplayInd, WriteTrace, Admitted, TypeOK, Control, Stmt
<1>2. PICK r : r = [kind |-> IF Stmt(p) \in Held THEN "staged" ELSE "committed",
                    of |-> {Stmt(p)}, ctx |-> Context(p)]
  OBVIOUS
<1>3. /\ tail' = [tail EXCEPT ![p] = @ \o <<r>>]
      /\ pc' = [pc EXCEPT ![p].phase = "trace", ![p].sent = "sent"]
      /\ UNCHANGED <<log, known, traces, reuse, granted, env, lapsed>>
  BY <1>2 DEF WriteTrace, JournalAppend, memory
<1>4. r \in Record /\ r.kind \notin {"grant", "revoke", "reuse"}
  <2>1. Context(p) \in SUBSET Statement
    BY <1>1 DEF Context, TypeOK
  <2> QED
    BY <1>1, <1>2, <2>1 DEF Record, Kind
<1>5. <<r>> \in Seq(Record) /\ NoGrants(<<r>>) /\ NoReuse(<<r>>)
  BY <1>4, NothingReplayed
<1>6. tail'[p] = tail[p] \o <<r>> /\ granted'[p]
  BY <1>1, <1>3 DEF TypeOK
<1>7. ReplayStands(p)'
  BY <1>1, <1>3, <1>5, <1>6, AppendsQuietly
<1>8. Elsewhere(p) /\ TraceIsGranted(p)'
  BY <1>1, <1>3, <1>6 DEF TypeOK, Elsewhere, TraceIsGranted
<1> QED
  BY <1>3, <1>7, <1>8, ReplayMoves

\* A refusal is recorded, or tried again.
LEMMA RefuseReplays ==
  ASSUME StatementInv, ReplayInd, NEW p \in Runtime, Refuse(p)
  PROVE  ReplayInd'
<1>1. TypeOK /\ ReplayStands(p)
  BY DEF StatementInv, ReplayInd
<1>2. PICK t \in {<<>>, <<Rec("failure", {})>>} :
        /\ tail'[p] = tail[p] \o t
        /\ pc'[p].phase # "trace"
        /\ \A q \in Runtime \ {p} : tail'[q] = tail[q] /\ pc'[q] = pc[q]
  <2>1. CASE pc[p].force
    <3>1. pc' = [pc EXCEPT ![p] = FailedTry(p)] /\ UNCHANGED tail
      BY <2>1 DEF Refuse
    <3>2. tail'[p] = tail[p] \o <<>>
      BY <1>1, <3>1, NothingJoins DEF TypeOK
    <3> QED
      BY <1>1, <3>1, <3>2, WhereRunGoes DEF TypeOK
  <2>2. CASE ~pc[p].force
    <3>1. /\ pc' = [pc EXCEPT ![p] = RecordFailure(p)]
          /\ tail' = [tail EXCEPT ![p] = @ \o <<Rec("failure", {})>>]
      BY <2>2 DEF Refuse, JournalAppend
    <3> QED
      BY <1>1, <3>1, FailureIsRecorded DEF TypeOK
  <2> QED
    BY <2>1, <2>2
<1>3. UNCHANGED <<log, known, traces, reuse, granted, env, lapsed>>
  BY DEF Refuse, memory
<1>4. t \in Seq(Record) /\ NoGrants(t) /\ NoReuse(t)
  BY <1>2, NothingReplayed, FailureIsQuiet
<1>5. ReplayStands(p)'
  BY <1>1, <1>2, <1>3, <1>4, AppendsQuietly
<1>6. Elsewhere(p) /\ TraceIsGranted(p)'
  BY <1>2, <1>3 DEF Elsewhere, TraceIsGranted
<1> QED
  BY <1>3, <1>5, <1>6, ReplayMoves

\* The database appends a batch, on time or late.
LEMMA TableGrowthReplays ==
  ASSUME StatementInv, ReplayInd,
         (\E p \in Runtime : FlushAtDb(p)) \/ \E batch \in late : LateFlush(batch)
  PROVE  ReplayInd'
<1>1. TypeOK
  BY DEF StatementInv
<1>2. UNCHANGED <<known, tail, traces, reuse, granted, env, lapsed>>
  BY DEF FlushAtDb, LateFlush, memory
<1>3. log' = log \/ \E x \in Seq(Record) : log' = log \o x
  BY <1>1 DEF FlushAtDb, LateFlush, TypeOK
<1>4. \A q \in Runtime : pc'[q].phase = pc[q].phase
  <2>1. CASE \E batch \in late : LateFlush(batch)
    BY <2>1 DEF LateFlush
  <2>2. ASSUME NEW p \in Runtime, FlushAtDb(p), NEW q \in Runtime
        PROVE  pc'[q].phase = pc[q].phase
    <3>1. pc[p] \in Control /\ pc[q] \in Control
      BY <1>1 DEF TypeOK
    <3>2. PICK to : pc' = [pc EXCEPT ![p] = [pc[p] EXCEPT !.sent = to]]
      BY <2>2 DEF FlushAtDb
    <3> QED
      BY <1>1, <3>1, <3>2 DEF TypeOK, Control
  <2> QED
    BY <2>1, <2>2
<1>5. ASSUME NEW q \in Runtime PROVE ReplayStands(q)' /\ TraceIsGranted(q)'
  BY <1>2, <1>3, <1>4, ReplayElsewhere DEF ReplayInd
<1> QED
  BY <1>5 DEF ReplayInd

\* A release counts the reuse it records.
LEMMA CommitReplays ==
  ASSUME StatementInv, ReplayInd, NEW p \in Runtime, Commit(p)
  PROVE  ReplayInd'
<1>1. TypeOK /\ ReplayStands(p) /\ pc[p].sent = "stored" /\ Context(p) \in SUBSET Statement
  BY DEF StatementInv, ReplayInd, Commit, Context, TypeOK
<1>2. /\ known' = [known EXCEPT ![p] = Len(Chain(p))]
      /\ tail' = [tail EXCEPT ![p] = Releases(p)]
      /\ reuse' = [reuse EXCEPT ![p] =
                     [i \in Statement |-> @[i] + IF i \in Context(p) THEN 1 ELSE 0]]
      /\ pc' = [pc EXCEPT ![p] = NextStmt(p)]
      /\ UNCHANGED <<log, granted, lapsed>>
      /\ \E out : /\ traces' = [traces EXCEPT ![p] = @ \cup out]
                  /\ env' = [env EXCEPT ![p] = @ \cup out]
  BY DEF Commit
<1>3. /\ known'[p] = Len(Chain(p)) /\ tail'[p] = Releases(p) /\ pc'[p] = NextStmt(p)
      /\ reuse'[p] = [i \in Statement |-> reuse[p][i] + IF i \in Context(p) THEN 1 ELSE 0]
  BY <1>1, <1>2 DEF TypeOK
<1>4. Elsewhere(p) /\ \A q \in Runtime \ {p} : reuse'[q] = reuse[q]
  BY <1>1, <1>2 DEF TypeOK, Elsewhere
<1>5. pc'[p].phase # "trace"
  BY <1>1, <1>3, WhereRunGoes
<1>6. PICK c \in Seq(Record) : c = Chain(p)
  <2>1. Durable(p) \in Seq(Record) /\ tail[p] \in Seq(Record)
    BY ChainLength
  <2> QED
    BY <2>1, ConcatProperties DEF Chain
<1>7. Chain(p)' = c \o Releases(p)
  <2>1. Durable(p)' = Chain(p)
    BY <1>1, <1>2, <1>3, ChainFlushed
  <2> QED
    BY <1>3, <1>6, <2>1 DEF Chain
<1>8. PICK obs \in Seq(Record) : obs = <<Rec("observe", {})>> /\ NoGrants(obs) /\ NoReuse(obs)
  <2>1. PICK kind \in Kind : kind = "observe"
    BY KindsAppended
  <2>2. PICK of \in SUBSET Statement : of = {}
    BY KindsAppended
  <2> QED
    BY <2>1, <2>2, QuietRecord
<1>9. /\ Granted(c \o Releases(p)) = Granted(c)
      /\ ReuseCount(c \o Releases(p)) =
           [i \in Statement |-> ReuseCount(c)[i] + IF i \in Context(p) THEN 1 ELSE 0]
  <2>1. CASE Context(p) = {}
    <3>1. Releases(p) = obs
      BY <1>8, <2>1, NothingJoins DEF Releases
    <3>2. ReuseCount(c) = [i \in Statement |-> ReuseCount(c)[i] + IF i \in Context(p) THEN 1 ELSE 0]
      BY <2>1, ReuseCountType
    <3> QED
      BY <1>8, <3>1, <3>2, GrantedConcat, ReuseConcat
  <2>2. CASE Context(p) # {}
    <3>1. PICK used \in Seq(Record) : used = <<Rec("reuse", Context(p))>> /\ NoGrants(used)
      <4>1. PICK kind \in Kind : kind = "reuse"
        BY KindsAppended
      <4>2. PICK of \in SUBSET Statement : of = Context(p)
        BY <1>1
      <4> QED
        BY <4>1, <4>2, QuietRecord
    <3>2. Releases(p) = used \o obs
      BY <1>8, <2>2, <3>1 DEF Releases
    <3>3. c \o Releases(p) = (c \o used) \o obs
      BY <3>2, RecordsJoin
    <3>4. c \o used \in Seq(Record)
      BY ConcatProperties
    <3>5. /\ Granted((c \o used) \o obs) = Granted(c \o used)
          /\ ReuseCount((c \o used) \o obs) = ReuseCount(c \o used)
      BY <1>8, <3>4, GrantedConcat, ReuseConcat
    <3>6. Granted(c \o used) = Granted(c)
      BY <3>1, GrantedConcat
    <3>7. ReuseCount(c \o used) =
            [i \in Statement |-> ReuseCount(c)[i] + IF i \in Context(p) THEN 1 ELSE 0]
      BY <1>1, <3>1, ReuseAdds
    <3> QED
      BY <3>3, <3>5, <3>6, <3>7
  <2> QED
    BY <2>1, <2>2
<1>10. p \notin lapsed' =>
         /\ granted'[p] = Granted(c \o Releases(p))
         /\ reuse'[p] = ReuseCount(c \o Releases(p))
  <2>1. p \notin lapsed => granted[p] = Granted(c) /\ reuse[p] = ReuseCount(c)
    BY <1>1, <1>6 DEF ReplayStands
  <2> QED
    BY <1>2, <1>3, <1>9, <2>1
<1>11. ReplayStands(p)' /\ TraceIsGranted(p)'
  BY <1>5, <1>7, <1>10 DEF ReplayStands, TraceIsGranted
<1> QED
  BY <1>2, <1>4, <1>11, ReplayMoves

\* The record of a failure is durable.
LEMMA RecordedReplays ==
  ASSUME StatementInv, ReplayInd, NEW p \in Runtime, Recorded(p)
  PROVE  ReplayInd'
<1>1. TypeOK /\ ReplayStands(p) /\ pc[p].sent = "stored"
  BY DEF StatementInv, ReplayInd, Recorded
<1>2. /\ known' = [known EXCEPT ![p] = Len(Chain(p))]
      /\ tail' = [tail EXCEPT ![p] = <<>>] /\ pc' = [pc EXCEPT ![p] = AfterRecord(p)]
      /\ UNCHANGED <<log, traces, reuse, granted, env, lapsed>>
  BY DEF Recorded, memory
<1>3. /\ known'[p] = Len(Chain(p)) /\ tail'[p] = <<>> /\ pc'[p] = AfterRecord(p)
      /\ Elsewhere(p)
  BY <1>1, <1>2 DEF TypeOK, Elsewhere
<1>4. pc'[p].phase # "trace"
  BY <1>1, <1>3, WhereRunGoes
<1>5. Durable(p)' = Chain(p)
  BY <1>1, <1>2, <1>3, ChainFlushed
<1>6. Chain(p) \in Seq(Record)
  <2>1. Durable(p) \in Seq(Record) /\ tail[p] \in Seq(Record)
    BY ChainLength
  <2> QED
    BY <2>1, ConcatProperties DEF Chain
<1>7. Chain(p)' = Chain(p)
  <2>1. Chain(p) \o <<>> = Chain(p)
    BY <1>6, NothingJoins
  <2> QED
    BY <1>3, <1>5, <2>1 DEF Chain
<1>8. p \notin lapsed' => granted'[p] = Granted(Chain(p)) /\ reuse'[p] = ReuseCount(Chain(p))
  BY <1>1, <1>2 DEF ReplayStands
<1>9. ReplayStands(p)' /\ TraceIsGranted(p)'
  BY <1>4, <1>7, <1>8 DEF ReplayStands, TraceIsGranted
<1> QED
  BY <1>2, <1>3, <1>9, ReplayMoves

\* A flush that fails takes back nothing a replay would show, or the runtime
\* has lapsed.
LEMMA FlushFailsReplays ==
  ASSUME StatementInv, ReplayInd, NEW p \in Runtime, FlushFails(p)
  PROVE  ReplayInd'
<1> DEFINE recorded == pc[p].phase = "trace" /\ ~pc[p].force
           next == IF recorded THEN RecordFailure(p)
                   ELSE IF pc[p].phase = "trace" THEN FailedTry(p) ELSE AfterRecord(p)
           left == IF recorded THEN <<Rec("failure", {})>> ELSE <<>>
<1>1. TypeOK /\ ReplayStands(p)
  BY DEF StatementInv, ReplayInd
<1>2. /\ known' = [known EXCEPT ![p] = known[p]]
      /\ tail' = [tail EXCEPT ![p] = left] /\ pc' = [pc EXCEPT ![p] = next]
      /\ UNCHANGED <<log, traces, reuse, granted, env>>
      /\ lapsed' = IF \E n \in DOMAIN tail[p] : tail[p][n].kind \in {"reuse", "grant", "revoke"}
                   THEN lapsed \cup {p} ELSE lapsed
  BY DEF FlushFails, RolledBackTo, memory
<1>3. next.phase # "trace"
  BY <1>1, FailureIsRecorded, WhereRunGoes
<1>4. left \in Seq(Record) /\ NoGrants(left) /\ NoReuse(left)
  BY NothingReplayed, FailureIsQuiet
<1> HIDE DEF next, left
<1>5. known' = known /\ tail'[p] = left /\ pc'[p] = next /\ Elsewhere(p)
  BY <1>1, <1>2 DEF TypeOK, Elsewhere
<1>6. PICK d \in Seq(Record) : d = Durable(p)
  BY ChainLength
<1>7. Chain(p)' = d \o left
  <2>1. Durable(p)' = d
    BY <1>2, <1>5, <1>6, DurableKept
  <2> QED
    BY <1>5, <2>1 DEF Chain
<1>8. ASSUME p \notin lapsed'
      PROVE  granted'[p] = Granted(d \o left) /\ reuse'[p] = ReuseCount(d \o left)
  <2>1. p \notin lapsed /\ tail[p] \in Seq(Record)
    BY <1>1, <1>2, <1>8 DEF TypeOK
  <2>2. NoGrants(tail[p]) /\ NoReuse(tail[p])
    BY <1>2, <1>8 DEF NoGrants, NoReuse, Places
  <2>3. granted[p] = Granted(d \o tail[p]) /\ reuse[p] = ReuseCount(d \o tail[p])
    BY <1>1, <1>6, <2>1 DEF ReplayStands, Chain
  <2>4. /\ Granted(d \o tail[p]) = Granted(d) /\ ReuseCount(d \o tail[p]) = ReuseCount(d)
        /\ Granted(d \o left) = Granted(d) /\ ReuseCount(d \o left) = ReuseCount(d)
    BY <1>4, <2>1, <2>2, GrantedConcat, ReuseConcat
  <2> QED
    BY <1>2, <2>3, <2>4
<1>9. ReplayStands(p)' /\ TraceIsGranted(p)'
  BY <1>3, <1>5, <1>7, <1>8 DEF ReplayStands, TraceIsGranted
<1> QED
  BY <1>2, <1>5, <1>9, ReplayMoves

\* A new process holds what the table yields.
LEMMA RestartReplays ==
  ASSUME StatementInv, ReplayInd, NEW p \in Runtime, Restart(p)
  PROVE  ReplayInd'
<1>1. TypeOK /\ log \in Seq(Record) /\ log' = log
  BY DEF StatementInv, TypeOK, Restart
<1>2. /\ known'[p] = Len(log) /\ tail'[p] = <<>> /\ pc'[p] = NoRun
      /\ reuse'[p] = ReuseCount(log) /\ granted'[p] = Granted(log)
  BY <1>1 DEF Restart, TypeOK
<1>3. Durable(p)' = log
  BY <1>1, <1>2, SubSeqFull DEF Durable
<1>4. Chain(p)' = log
  BY <1>1, <1>2, <1>3, NothingJoins DEF Chain
<1>5. ReplayStands(p)' /\ TraceIsGranted(p)'
  BY <1>2, <1>4 DEF ReplayStands, TraceIsGranted, NoRun
<1>6. Elsewhere(p)
  BY <1>1 DEF Restart, TypeOK, Elsewhere
<1>7. \A q \in Runtime \ {p} : reuse'[q] = reuse[q] /\ (q \in lapsed => q \in lapsed')
  BY <1>1 DEF Restart, TypeOK
<1> QED
  BY <1>1, <1>5, <1>6, <1>7, ReplayMoves

\* Every step keeps what is held in memory and what a replay yields together.
LEMMA StepReplays == StatementInv /\ ReplayInd /\ [Next]_vars => ReplayInd'
<1> SUFFICES ASSUME StatementInv, ReplayInd, [Next]_vars PROVE ReplayInd'
  OBVIOUS
<1>1. ASSUME NEW p \in Runtime, NEW kind \in {"grant", "revoke"}, Authority(p, kind)
      PROVE  ReplayInd'
  BY <1>1, AuthorityReplays
<1>2. ASSUME NEW p \in Runtime, Run(p) \/ AnswerFromTrace(p) \/ Abort(p) \/ WriteTrace(p)
      PROVE  ReplayInd'
  BY <1>2, ProgressReplays, WriteTraceReplays
<1>3. ASSUME NEW p \in Runtime, Refuse(p) \/ FlushAtDb(p)
      PROVE  ReplayInd'
  BY <1>3, RefuseReplays, TableGrowthReplays
<1>4. ASSUME NEW p \in Runtime, Commit(p) \/ Recorded(p) \/ FlushFails(p) \/ Restart(p)
      PROVE  ReplayInd'
  BY <1>4, CommitReplays, RecordedReplays, FlushFailsReplays, RestartReplays
<1>5. ASSUME NEW batch \in late, LateFlush(batch) PROVE ReplayInd'
  BY <1>5, TableGrowthReplays
<1>6. CASE UNCHANGED vars
  BY <1>6 DEF vars, ReplayInd, ReplayStands, TraceIsGranted, Chain, Durable
<1> QED
  BY <1>1, <1>2, <1>3, <1>4, <1>5, <1>6 DEF Next

\* A flush takes effect only where the database has what its runtime knows.
LEMMA StoredByFlush ==
  ASSUME StatementInv, [Next]_vars, NEW p \in Runtime,
         pc[p].sent = "sent", pc'[p].sent = "stored"
  PROVE  known[p] = Len(log)
<1>1. TypeOK /\ pc \in [Runtime -> Control] /\ pc[p] \in Control
  BY DEF StatementInv, TypeOK
<1>2. ASSUME NEW q \in Runtime,
             \/ Authority(q, "grant") \/ Authority(q, "revoke") \/ Run(q)
             \/ AnswerFromTrace(q) \/ WriteTrace(q) \/ Refuse(q) \/ Abort(q) \/ Commit(q)
             \/ Recorded(q) \/ FlushFails(q) \/ Restart(q)
      PROVE  pc'[p] = pc[p] \/ pc'[p].sent # "stored"
  <2>1. CASE q # p
    BY <1>1, <1>2, <2>1
    DEF Authority, Run, AnswerFromTrace, WriteTrace, Refuse, Abort, Commit, Recorded,
        FlushFails, Restart
  <2>2. CASE q = p
    <3>1. CASE Authority(q, "grant") \/ Authority(q, "revoke")
      BY <3>1 DEF Authority
    <3>2. CASE Run(q) \/ WriteTrace(q)
      BY <1>1, <2>2, <3>2 DEF Run, WriteTrace, Control
    <3>3. ASSUME pc' = [pc EXCEPT ![p] = RecordFailure(p)]
          PROVE  pc'[p].sent # "stored"
      BY <1>1, <3>3, FailureIsRecorded
    <3>4. ASSUME NEW next \in {NoRun, NextStmt(p), FailedTry(p), AfterRecord(p)},
                 pc' = [pc EXCEPT ![p] = next]
          PROVE  pc'[p].sent # "stored"
      BY <1>1, <3>4, WhereRunGoes
    <3>5. CASE AnswerFromTrace(q) \/ Refuse(q) \/ Abort(q)
      BY <2>2, <3>3, <3>4, <3>5 DEF AnswerFromTrace, Refuse, Abort
    <3>6. CASE Commit(q) \/ Recorded(q) \/ Restart(q)
      BY <2>2, <3>4, <3>6 DEF Commit, Recorded, Restart
    <3>7. CASE FlushFails(q)
      BY <2>2, <3>3, <3>4, <3>7 DEF FlushFails
    <3> QED
      BY <1>2, <3>1, <3>2, <3>5, <3>6, <3>7
  <2> QED
    BY <2>1, <2>2
<1>3. ASSUME NEW q \in Runtime, FlushAtDb(q) PROVE known[p] = Len(log)
  <2>1. q = p
    BY <1>1, <1>3 DEF FlushAtDb
  <2> QED
    BY <1>1, <1>3, <2>1 DEF FlushAtDb, Control
<1>4. (\E batch \in late : LateFlush(batch)) \/ UNCHANGED vars => pc' = pc
  BY DEF LateFlush, vars
<1> QED
  BY <1>2, <1>3, <1>4 DEF Next

\* F-06: what a runtime that lapsed nothing holds in memory is exactly what a
\* replay of its chain yields, however flushes fail and processes end.
THEOREM MemoryStaysReplay == Spec => []MemoryIsReplay
<1>1. Init => ReplayInd
  BY InitReplayInd
<1>2. StatementInv /\ ReplayInd /\ [Next]_vars => ReplayInd'
  BY StepReplays
<1>3. StatementInv /\ ReplayInd => MemoryIsReplay
  BY DEF StatementInv, RuntimeInv, ReplayInd, ReplayStands, MemoryIsReplay
<1> QED
  BY <1>1, <1>2, <1>3, StatementInvariant, PTL DEF Spec

\* A runtime that lapsed nothing has no trace stored that no grant precedes in
\* the table, whoever revoked it and however late the runtime would learn.
THEOREM TracesStayAuthorised == Spec => TracesAreAuthorised
<1>1. Init => ReplayInd
  BY InitReplayInd
<1>2. StatementInv /\ ReplayInd /\ [Next]_vars => ReplayInd'
  BY StepReplays
<1>3. ASSUME StatementInv, ReplayInd, [Next]_vars, NEW p \in Runtime \ lapsed,
             pc[p].phase = "trace", pc[p].sent = "sent", pc'[p].sent = "stored"
      PROVE  Granted(log \o tail[p])
  <2>1. known[p] = Len(log) /\ log \in Seq(Record)
    BY <1>3, StoredByFlush DEF StatementInv, TypeOK
  <2>2. Chain(p) = log \o tail[p]
    BY <2>1, SubSeqFull DEF Chain, Durable
  <2> QED
    BY <1>3, <2>2 DEF ReplayInd, ReplayStands, TraceIsGranted
<1>4. StatementInv /\ ReplayInd /\ [Next]_vars =>
        [\A p \in Runtime \ lapsed :
           pc[p].phase = "trace" /\ pc[p].sent = "sent" /\ pc'[p].sent = "stored"
             => Granted(log \o tail[p])]_vars
  BY <1>3
<1> QED
  BY <1>1, <1>2, <1>4, StatementInvariant, PTL DEF Spec, TracesAreAuthorised
=============================================================================
