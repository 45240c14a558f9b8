-------------------------- MODULE AuditChainProofs --------------------------
(***************************************************************************)
(* Proofs about AuditChain, for every set of requests of every kind, any   *)
(* use of idempotency keys, and with or without faults.                    *)
(***************************************************************************)
EXTENDS AuditChain, SequenceTheorems, TLAPS

-----------------------------------------------------------------------------
(* Histories. *)

\* Genesis and the rows are histories.
LEMMA HeadType ==
  ASSUME rows \in SUBSET Entry, NEW h \in rows \cup {Genesis}
  PROVE  h \in Seq(Request)
BY EmptySeq DEF Entry, Genesis

\* An event behind a history: its seq, its last element, its predecessors.
LEMMA Extended ==
  ASSUME NEW h \in Seq(Request), NEW r \in Request
  PROVE  /\ Append(h, r) \in Entry
         /\ Len(Append(h, r)) = Len(h) + 1
         /\ Append(h, r)[Len(Append(h, r))] = r
         /\ \A k \in 0 .. Len(h) : Prefix(Append(h, r), k) = Prefix(h, k)
         /\ Prefix(Append(h, r), Len(h) + 1) = Append(h, r)
<1>1. /\ Append(h, r) \in Seq(Request)
      /\ Len(Append(h, r)) = Len(h) + 1
      /\ Append(h, r)[Len(h) + 1] = r
  BY AppendProperties
<1>2. Append(h, r) \in Entry
  BY <1>1, EmptySeq DEF Entry, Genesis
<1>3. Append(h, r) = h \o <<r>> /\ <<r>> \in Seq(Request)
  BY AppendIsConcat
<1>4. ASSUME NEW k \in 0 .. Len(h)
      PROVE  Prefix(Append(h, r), k) = Prefix(h, k)
  <2>1. CASE k = 0
    BY <2>1, SubSeqEmpty DEF Prefix
  <2>2. CASE k # 0
    BY <1>3, <2>2, SubSeqOfConcat1, 1 \in 1 .. Len(h), k \in 1 .. Len(h) DEF Prefix
  <2> QED
    BY <2>1, <2>2
<1>5. Prefix(Append(h, r), Len(h) + 1) = Append(h, r)
  BY <1>1, SubSeqFull DEF Prefix
<1> QED
  BY <1>1, <1>2, <1>4, <1>5

\* All of a history, and none of it.
LEMMA PrefixBounds ==
  ASSUME NEW h \in Seq(Request)
  PROVE  Prefix(h, Len(h)) = h /\ Prefix(h, 0) = Genesis
BY SubSeqFull, SubSeqEmpty DEF Prefix, Genesis

\* The head of the chain continues everything that is on it.
LEMMA HeadContinues ==
  ASSUME rows \in SUBSET Entry, TableIsChain,
         NEW h \in Heads, NEW a \in rows \cup {Genesis}
  PROVE  Len(a) <= Len(h) /\ a = Prefix(h, Len(a))
<1>1. a \in Seq(Request) /\ h \in Seq(Request) /\ h \in rows \cup {Genesis}
  BY HeadType DEF Heads
<1>2. CASE a = Genesis
  BY <1>1, <1>2, PrefixBounds DEF Genesis
<1>3. CASE a \in rows
  <2>1. Len(a) <= Len(h) /\ Len(a) # 0
    BY <1>1, <1>3, EmptySeq DEF Heads, Entry, Genesis
  <2>2. h \in rows /\ Len(a) \in 1 .. Len(h)
    BY <1>1, <2>1 DEF Genesis
  <2>3. Prefix(h, Len(a)) \in rows
    BY <2>2 DEF TableIsChain
  <2>4. Len(Prefix(h, Len(a))) = Len(a)
    BY <1>1, <2>2, SubSeqProperties DEF Prefix
  <2> QED
    BY <1>3, <2>1, <2>3, <2>4 DEF TableIsChain
<1> QED
  BY <1>2, <1>3

-----------------------------------------------------------------------------
(* Tables. *)

\* What is stored stays stored.
LEMMA StoreGrows ==
  ASSUME NEW w \in Write, Store(w)
  PROVE  rows \subseteq rows' /\ stored \subseteq stored'
BY DEF Store

\* A row of another table than audit_events.
LEMMA StoreRow ==
  ASSUME NEW table \in Table \ {"audit_events", "responses"}, NEW r \in Request,
         Store(Row(table, r))
  PROVE  rows' = rows /\ stored' = stored \cup {Row(table, r)}
BY DEF Store, Row

\* A row of a request is a write.
LEMMA RowType ==
  ASSUME NEW table \in Table, NEW r \in Request
  PROVE  Row(table, r) \in Write
BY EmptySeq DEF Row, Write, Genesis

\* Where no event is added the events of a request are what they were.
LEMMA SameEvents ==
  ASSUME rows' = rows, NEW r \in Request
  PROVE  Event(r)' = Event(r)
BY DEF Event

\* Where neither the chain nor the late writes change, what is said of them
\* alone stays true.
LEMMA SameChain ==
  ASSUME AuditInv, UNCHANGED <<rows, late>>
  PROVE  TableIsChain' /\ LateIsOnly' /\ OneEventEach'
<1> USE DEF AuditInv
<1>1. \A q \in Request : Event(q)' = Event(q)
  BY SameEvents
<1>2. \A w \in late : w.by \in Request
  BY DEF TypeOK, Write
<1>3. TableIsChain'
  BY DEF TableIsChain
<1>4. LateIsOnly' /\ OneEventEach'
  BY <1>1, <1>2 DEF LateIsOnly, OneEventEach
<1> QED
  BY <1>3, <1>4

\* An event behind a row, at a seq that is free, continues the chain and is
\* one more event of its request.
LEMMA EventStored ==
  ASSUME rows \in SUBSET Entry, TableIsChain,
         NEW h \in rows \cup {Genesis}, NEW r \in Request,
         ~Taken(Append(h, r)), rows' = rows \cup {Append(h, r)}
  PROVE  /\ rows' \in SUBSET Entry
         /\ TableIsChain'
         /\ Event(r)' = Event(r) \cup {Append(h, r)}
         /\ \A q \in Request \ {r} : Event(q)' = Event(q)
<1>1. h \in Seq(Request)
  BY HeadType
<1>2. /\ Append(h, r) \in Entry
      /\ Len(Append(h, r)) = Len(h) + 1
      /\ Append(h, r)[Len(Append(h, r))] = r
  BY <1>1, Extended
<1>3. ASSUME NEW k \in 1 .. Len(Append(h, r))
      PROVE  Prefix(Append(h, r), k) \in rows'
  <2>1. CASE k = Len(h) + 1
    BY <1>1, <2>1, Extended
  <2>2. CASE k # Len(h) + 1
    <3>1. k \in 1 .. Len(h) /\ Prefix(Append(h, r), k) = Prefix(h, k)
      BY <1>1, <1>2, <2>2, Extended
    <3>2. h \in rows
      BY <3>1 DEF Genesis
    <3> QED
      BY <3>1, <3>2 DEF TableIsChain
  <2> QED
    BY <2>1, <2>2
<1>4. TableIsChain'
  BY <1>3 DEF TableIsChain, Taken
<1>5. Event(r)' = Event(r) \cup {Append(h, r)}
  BY <1>2 DEF Event
<1>6. \A q \in Request \ {r} : Event(q)' = Event(q)
  BY <1>2 DEF Event
<1> QED
  BY <1>2, <1>4, <1>5, <1>6

-----------------------------------------------------------------------------
(* The invariant holds at first. *)

\* The tables are empty at first and no request has begun.
LEMMA InitAuditInv == Init => AuditInv
<1> SUFFICES ASSUME Init PROVE AuditInv
  OBVIOUS
<1> USE DEF Init
<1>1. TypeOK
  BY EmptySeq DEF TypeOK, Awaiting, Genesis
<1>2. TableIsChain /\ HeadsAreRows /\ LateIsOnly
  BY DEF TableIsChain, HeadsAreRows, LateIsOnly
<1>3. Unwritten /\ OneEventEach
  BY DEF Unwritten, OneEventEach, Event
<1>4. AttemptIsLeft
  BY DEF AttemptIsLeft
<1>5. Progress /\ RefusalsAreTraced
  BY DEF Progress, RefusalsAreTraced
<1>6. ResponsesAreAnswers /\ ReplaysAreAnswers
  BY DEF ResponsesAreAnswers, ReplaysAreAnswers
<1> QED
  BY <1>1, <1>2, <1>3, <1>4, <1>5, <1>6 DEF AuditInv

-----------------------------------------------------------------------------
(* Every step preserves it.  First the steps that write to no table. *)

\* The gateway lets a request in, or answers for it.
LEMMA GatewayAuditInv ==
  ASSUME AuditInv, NEW r \in Request, Begin(r) \/ Replay(r) \/ Conflict(r)
  PROVE  AuditInv'
<1> USE DEF AuditInv
<1>1. /\ phase[r] = "new"
      /\ phase \in [Request -> Awaiting \cup Answer]
      /\ UNCHANGED <<rows, stored, anchor, seen, tries, late>>
  BY DEF Begin, Replay, Conflict, TypeOK
<1>2. PICK p \in {"effect", "decide", "replayed", "conflict"} :
        phase' = [phase EXCEPT ![r] = p]
  BY DEF Begin, Replay, Conflict, Goes, Start
<1>3. (p = "effect" => Kind[r] = "write") /\ (p = "decide" => Kind[r] # "write")
  BY <1>1, <1>2 DEF Begin, Replay, Conflict, Goes, Start
<1>4. p = "replayed" => \E q \in Responses(Key[r]) : Body[q] = Body[r]
  BY <1>1, <1>2 DEF Begin, Replay, Conflict, Goes, Start
<1>5. \A q \in Request : Event(q)' = Event(q)
  BY <1>1, SameEvents
<1>6. TypeOK'
  BY <1>1, <1>2 DEF TypeOK, Awaiting, Answer
<1>7. TableIsChain' /\ LateIsOnly' /\ OneEventEach'
  BY <1>1, SameChain
<1>8. HeadsAreRows' /\ Unwritten'
  BY <1>1, <1>2, <1>5 DEF HeadsAreRows, Unwritten, Awaiting
<1>9. AttemptIsLeft'
  BY <1>1, <1>2 DEF AttemptIsLeft, Awaiting
<1>10. Progress' /\ RefusalsAreTraced'
  BY <1>1, <1>2, <1>3, <1>5 DEF Progress, RefusalsAreTraced, Awaiting
<1>11. ResponsesAreAnswers'
  BY <1>1, <1>2 DEF ResponsesAreAnswers
<1>12. ReplaysAreAnswers'
  <2>1. ASSUME p = "replayed"
        PROVE  \E q \in Request : Key[q] = Key[r] /\ Body[q] = Body[r] /\ phase[q] = "ok"
    BY <1>4, <2>1 DEF Responses, ResponsesAreAnswers, Row
  <2> QED
    BY <1>1, <1>2, <2>1 DEF ReplaysAreAnswers
<1> QED
  BY <1>6, <1>7, <1>8, <1>9, <1>10, <1>11, <1>12

\* A head is read for a receipt.
LEMMA ReadAnchorAuditInv ==
  ASSUME AuditInv, NEW r \in Request, ReadAnchor(r)
  PROVE  AuditInv'
<1> USE DEF AuditInv
<1>1. PICK h \in Heads : anchor' = [anchor EXCEPT ![r] = h]
  BY DEF ReadAnchor
<1>2. /\ phase[r] = "anchor"
      /\ phase' = [phase EXCEPT ![r] = "receipt"]
      /\ phase \in [Request -> Awaiting \cup Answer]
      /\ anchor \in [Request -> Seq(Request)]
      /\ UNCHANGED <<rows, stored, seen, tries, late>>
  BY DEF ReadAnchor, Goes, TypeOK
<1>3. h \in rows \cup {Genesis} /\ h \in Seq(Request)
  BY HeadType DEF Heads, TypeOK
<1>4. \A q \in Request : Event(q)' = Event(q)
  BY <1>2, SameEvents
<1>5. TypeOK'
  BY <1>1, <1>2, <1>3 DEF TypeOK, Awaiting
<1>6. TableIsChain' /\ LateIsOnly' /\ OneEventEach'
  BY <1>2, SameChain
<1>7. HeadsAreRows'
  BY <1>1, <1>2, <1>3 DEF HeadsAreRows
<1>8. Unwritten' /\ AttemptIsLeft'
  BY <1>2, <1>4 DEF Unwritten, AttemptIsLeft, Awaiting
<1>9. Progress' /\ RefusalsAreTraced'
  BY <1>1, <1>2, <1>4 DEF Progress, RefusalsAreTraced, Awaiting
<1>10. ResponsesAreAnswers' /\ ReplaysAreAnswers'
  BY <1>2 DEF ResponsesAreAnswers, ReplaysAreAnswers
<1> QED
  BY <1>5, <1>6, <1>7, <1>8, <1>9, <1>10

\* appendAudit() reads the head: it continues what the receipt names.
LEMMA ReadHeadAuditInv ==
  ASSUME AuditInv, NEW r \in Request, ReadHead(r)
  PROVE  AuditInv'
<1> USE DEF AuditInv
<1>1. PICK h \in Heads : seen' = [seen EXCEPT ![r] = h]
  BY DEF ReadHead
<1>2. /\ phase[r] = "head"
      /\ phase' = [phase EXCEPT ![r] = "insert"]
      /\ phase \in [Request -> Awaiting \cup Answer]
      /\ tries' = [tries EXCEPT ![r] = tries[r] + 1]
      /\ tries \in [Request -> 0 .. 3]
      /\ seen \in [Request -> Seq(Request)]
      /\ UNCHANGED <<rows, stored, anchor, late>>
  BY DEF ReadHead, Goes, TypeOK
<1>3. h \in rows \cup {Genesis} /\ h \in Seq(Request)
  BY HeadType DEF Heads, TypeOK
<1>4. Len(anchor[r]) <= Len(h) /\ anchor[r] = Prefix(h, Len(anchor[r]))
  BY HeadContinues DEF HeadsAreRows, TypeOK
<1>5. \A q \in Request : Event(q)' = Event(q)
  BY <1>2, SameEvents
<1>6. TypeOK'
  <2>1. tries[r] + 1 \in 0 .. 3
    <3>1. tries[r] < 3
      BY <1>2 DEF AttemptIsLeft, Awaiting
    <3>2. tries[r] \in 0 .. 3
      BY <1>2
    <3> QED
      BY <3>1, <3>2
  <2> QED
    BY <1>1, <1>2, <1>3, <2>1 DEF TypeOK, Awaiting
<1>7. TableIsChain' /\ LateIsOnly' /\ OneEventEach'
  BY <1>2, SameChain
<1>8. HeadsAreRows'
  BY <1>1, <1>2, <1>3 DEF HeadsAreRows
<1>9. Unwritten' /\ AttemptIsLeft'
  BY <1>2, <1>5 DEF Unwritten, AttemptIsLeft, Awaiting
<1>10. Progress' /\ RefusalsAreTraced'
  BY <1>1, <1>2, <1>4, <1>5 DEF Progress, RefusalsAreTraced, Awaiting
<1>11. ResponsesAreAnswers' /\ ReplaysAreAnswers'
  BY <1>2 DEF ResponsesAreAnswers, ReplaysAreAnswers
<1> QED
  BY <1>6, <1>7, <1>8, <1>9, <1>10, <1>11

\* Writes that nobody awaits, none of them an event, join the late ones.
LEMMA MoreLate ==
  ASSUME AuditInv, UNCHANGED rows, NEW W \in SUBSET Write,
         \A w \in W : w.table # "audit_events", late' = late \cup W
  PROVE  TableIsChain' /\ LateIsOnly' /\ OneEventEach'
<1> USE DEF AuditInv
<1>1. \A q \in Request : Event(q)' = Event(q)
  BY SameEvents
<1>2. \A w \in late : w.by \in Request
  BY DEF TypeOK, Write
<1>3. TableIsChain'
  BY DEF TableIsChain
<1>4. LateIsOnly' /\ OneEventEach'
  BY <1>1, <1>2 DEF LateIsOnly, OneEventEach
<1> QED
  BY <1>3, <1>4

\* The answer leaves.
LEMMA RespondAuditInv ==
  ASSUME AuditInv, NEW r \in Request, Respond(r)
  PROVE  AuditInv'
<1> USE DEF AuditInv
<1>1. /\ phase[r] = "done"
      /\ phase' = [phase EXCEPT ![r] = IF r \in Denied THEN "refused" ELSE "ok"]
      /\ phase \in [Request -> Awaiting \cup Answer]
      /\ UNCHANGED <<rows, stored, anchor, seen, tries>>
  BY DEF Respond, Goes, TypeOK
<1>2. PICK W \in SUBSET {Row("responses", r)} :
        late' = late \cup W /\ (W # {} => r \notin Denied)
  <2>1. CASE Keeps(r)
    <3>1. late' = late \cup {Row("responses", r)} /\ r \notin Denied
      BY <2>1 DEF Respond, Keeps
    <3> QED
      BY <3>1
  <2>2. CASE ~Keeps(r)
    <3>1. late' = late \cup {} /\ {} \in SUBSET {Row("responses", r)}
      BY <2>2 DEF Respond
    <3> QED
      BY <3>1
  <2> QED
    BY <2>1, <2>2
<1>3. /\ W \subseteq Write
      /\ \A w \in W : w.table = "responses" /\ w = Row("responses", r) /\ w.by = r
  BY RowType, "responses" \in Table DEF Row, Table
<1>4. \A q \in Request : Event(q)' = Event(q)
  BY <1>1, SameEvents
<1>5. TypeOK'
  BY <1>1, <1>2, <1>3 DEF TypeOK, Answer
<1>6. TableIsChain' /\ LateIsOnly' /\ OneEventEach'
  BY <1>1, <1>2, <1>3, MoreLate
<1>7. HeadsAreRows'
  BY <1>1, <1>2, <1>3 DEF HeadsAreRows
<1>8. Unwritten' /\ AttemptIsLeft'
  BY <1>1, <1>2, <1>3, <1>4 DEF Unwritten, AttemptIsLeft, Awaiting
<1>9. Progress'
  BY <1>1, <1>4 DEF Progress, Awaiting
<1>10. RefusalsAreTraced'
  <2>1. ASSUME r \in Denied
        PROVE  /\ {Row("decisions", r), Row("receipts", r)} \subseteq stored
               /\ \E e \in Event(r) : /\ Len(anchor[r]) < Len(e)
                                      /\ anchor[r] = Prefix(e, Len(anchor[r]))
    BY <1>1, <2>1, RequestAssumption DEF Progress, Awaiting
  <2> QED
    BY <1>1, <1>4, <2>1 DEF RefusalsAreTraced
<1>11. ResponsesAreAnswers'
  BY <1>1, <1>2, <1>3 DEF ResponsesAreAnswers
<1>12. ReplaysAreAnswers'
  BY <1>1 DEF ReplaysAreAnswers
<1> QED
  BY <1>5, <1>6, <1>7, <1>8, <1>9, <1>10, <1>11, <1>12

\* A rejected await, or a lost isolate: what was under way becomes late.
LEMMA FailAuditInv ==
  ASSUME AuditInv, NEW r \in Request, Fail(r)
  PROVE  AuditInv'
<1> USE DEF AuditInv
<1>1. /\ phase[r] \in Awaiting
      /\ phase' = [phase EXCEPT ![r] = "error"]
      /\ phase \in [Request -> Awaiting \cup Answer]
      /\ late' = late \cup UnderWay(r)
      /\ UNCHANGED <<rows, stored, anchor, seen, tries>>
  BY DEF Fail, Goes, TypeOK
<1>2. /\ seen[r] \in rows \cup {Genesis}
      /\ seen[r] \in Seq(Request)
  BY DEF HeadsAreRows, TypeOK
<1>3. /\ EventRow(r) \in Write
      /\ EventRow(r).table = "audit_events"
      /\ EventRow(r).by = r
      /\ EventRow(r).row = Append(seen[r], r)
  BY <1>2, Extended DEF EventRow, Write, Table, Entry
<1>4. \/ phase[r] = "insert" /\ UnderWay(r) = {EventRow(r)}
      \/ \E table \in {"decisions", "effects", "receipts"} :
           UnderWay(r) = {Row(table, r)}
      \/ UnderWay(r) = {}
  BY DEF UnderWay
<1>5. \A q \in Request : Event(q)' = Event(q)
  BY <1>1, SameEvents
<1>6. /\ UnderWay(r) \subseteq Write
      /\ \A w \in UnderWay(r) : w.table # "responses"
      /\ \A w \in UnderWay(r) : w.table = "audit_events" =>
           w = EventRow(r) /\ phase[r] = "insert"
  <2>1. \A table \in {"decisions", "effects", "receipts"} :
          Row(table, r) \in Write /\ Row(table, r).table = table
    BY RowType DEF Row, Table
  <2> QED
    BY <1>3, <1>4, <2>1
<1>7. TypeOK'
  BY <1>1, <1>6 DEF TypeOK, Answer
<1>8. TableIsChain' /\ OneEventEach'
  BY <1>1, <1>5 DEF TableIsChain, OneEventEach
<1>9. HeadsAreRows'
  BY <1>1, <1>2, <1>3, <1>6 DEF HeadsAreRows
<1>10. Unwritten'
  <2>1. \A w \in UnderWay(r) : w.table = "audit_events" => w.by = r
    BY <1>3, <1>6
  <2> QED
    BY <1>1, <1>5, <2>1 DEF Unwritten, Awaiting
<1>11. LateIsOnly'
  <2>1. ASSUME phase[r] = "insert"
        PROVE  /\ Event(r) = {}
               /\ \A w \in late : w.by = r => w.table # "audit_events"
    BY <2>1 DEF Unwritten, Awaiting
  <2>2. \A w \in late : w.by \in Request
    BY DEF TypeOK, Write
  <2> QED
    BY <1>1, <1>3, <1>5, <1>6, <2>1, <2>2, ZenonT(40) DEF LateIsOnly
<1>12. AttemptIsLeft'
  BY <1>1 DEF AttemptIsLeft, Awaiting
<1>13. Progress' /\ RefusalsAreTraced'
  BY <1>1, <1>5 DEF Progress, RefusalsAreTraced, Awaiting
<1>14. ResponsesAreAnswers'
  BY <1>1, <1>6 DEF ResponsesAreAnswers, Awaiting
<1>15. ReplaysAreAnswers'
  BY <1>1 DEF ReplaysAreAnswers, Awaiting
<1> QED
  BY <1>7, <1>8, <1>9, <1>10, <1>11, <1>12, <1>13, <1>14, <1>15

-----------------------------------------------------------------------------
(* Then the steps that write to a table. *)

\* A request stores its decision, its change or its receipt and goes on.
LEMMA StoreStepAuditInv ==
  ASSUME AuditInv, NEW r \in Request,
         StoreDecision(r) \/ StoreEffect(r) \/ StoreReceipt(r)
  PROVE  AuditInv'
<1> USE DEF AuditInv
<1>1. /\ phase[r] \in {"decide", "effect", "receipt"}
      /\ phase \in [Request -> Awaiting \cup Answer]
      /\ UNCHANGED <<anchor, seen, tries, late>>
  BY DEF StoreDecision, StoreEffect, StoreReceipt, TypeOK
<1>2. PICK table \in {"decisions", "effects", "receipts"} :
        /\ Store(Row(table, r))
        /\ phase[r] = "decide" => table = "decisions"
        /\ phase[r] = "effect" => table = "effects"
        /\ phase[r] = "receipt" => table = "receipts"
  BY DEF StoreDecision, StoreEffect, StoreReceipt
<1>3. rows' = rows /\ stored' = stored \cup {Row(table, r)}
  BY <1>2, StoreRow DEF Table
<1>4. PICK p \in {"anchor", "effect", "head"} :
        /\ phase' = [phase EXCEPT ![r] = p]
        /\ p = "effect" => phase[r] = "decide" /\ r \notin Denied /\ Kind[r] # "read"
        /\ p = "anchor" /\ phase[r] = "decide" => r \in Denied \/ Kind[r] = "read"
        /\ p = "anchor" => phase[r] \in {"decide", "effect"}
        /\ p = "anchor" /\ phase[r] = "effect" => Kind[r] # "write"
        /\ p = "head" /\ phase[r] = "effect" => Kind[r] = "write"
        /\ p = "head" => phase[r] \in {"effect", "receipt"}
  BY DEF StoreDecision, StoreEffect, StoreReceipt, Goes
<1>5. \A q \in Request : Event(q)' = Event(q)
  BY <1>3, SameEvents
<1>6. TypeOK'
  <2>1. Row(table, r) \in Write
    BY RowType DEF Table
  <2> QED
    BY <1>1, <1>3, <1>4, <2>1 DEF TypeOK, Awaiting
<1>7. TableIsChain' /\ LateIsOnly' /\ OneEventEach'
  BY <1>1, <1>3, SameChain
<1>8. HeadsAreRows'
  BY <1>1, <1>3 DEF HeadsAreRows
<1>9. Unwritten' /\ AttemptIsLeft'
  BY <1>1, <1>4, <1>5 DEF Unwritten, AttemptIsLeft, Awaiting
<1>10. Progress'
  BY <1>1, <1>2, <1>3, <1>4, <1>5, RequestAssumption DEF Progress, Awaiting
<1>11. RefusalsAreTraced'
  BY <1>1, <1>3, <1>4, <1>5 DEF RefusalsAreTraced
<1>12. ResponsesAreAnswers'
  BY <1>1, <1>3, <1>4 DEF ResponsesAreAnswers, Row
<1>13. ReplaysAreAnswers'
  BY <1>1, <1>4 DEF ReplaysAreAnswers
<1> QED
  BY <1>6, <1>7, <1>8, <1>9, <1>10, <1>11, <1>12, <1>13

\* appendAudit() loses the race for its seq.
LEMMA InsertRefusedAuditInv ==
  ASSUME AuditInv, NEW r \in Request, InsertEvent(r), Taken(EventRow(r).row)
  PROVE  AuditInv'
<1> USE DEF AuditInv
<1>1. /\ phase[r] = "insert"
      /\ phase \in [Request -> Awaiting \cup Answer]
      /\ UNCHANGED <<rows, stored, anchor, seen, tries, late>>
  BY DEF InsertEvent, Store, EventRow, TypeOK
<1>2. PICK p \in {"error", "head"} :
        phase' = [phase EXCEPT ![r] = p] /\ (p = "head" => tries[r] < 3)
  <2>1. phase' = [phase EXCEPT ![r] = LostRace(r)]
    BY DEF InsertEvent, Goes
  <2>2. tries[r] \in 0 .. 3
    BY DEF TypeOK
  <2>3. CASE tries[r] = 3
    <3>1. phase' = [phase EXCEPT ![r] = "error"]
      BY <2>1, <2>3 DEF LostRace
    <3> QED
      BY <3>1
  <2>4. CASE tries[r] # 3
    <3>1. phase' = [phase EXCEPT ![r] = "head"] /\ tries[r] < 3
      BY <2>1, <2>2, <2>4 DEF LostRace
    <3> QED
      BY <3>1
  <2> QED
    BY <2>3, <2>4
<1>3. \A q \in Request : Event(q)' = Event(q)
  BY <1>1, SameEvents
<1>4. TypeOK'
  BY <1>1, <1>2 DEF TypeOK, Awaiting, Answer
<1>5. TableIsChain' /\ LateIsOnly' /\ OneEventEach'
  BY <1>1, SameChain
<1>6. HeadsAreRows'
  BY <1>1 DEF HeadsAreRows
<1>7. Unwritten' /\ AttemptIsLeft'
  BY <1>1, <1>2, <1>3 DEF Unwritten, AttemptIsLeft, Awaiting
<1>8. Progress' /\ RefusalsAreTraced'
  BY <1>1, <1>2, <1>3 DEF Progress, RefusalsAreTraced, Awaiting
<1>9. ResponsesAreAnswers' /\ ReplaysAreAnswers'
  BY <1>1, <1>2 DEF ResponsesAreAnswers, ReplaysAreAnswers
<1> QED
  BY <1>4, <1>5, <1>6, <1>7, <1>8, <1>9

\* appendAudit() extends the chain.
LEMMA InsertStoredAuditInv ==
  ASSUME AuditInv, NEW r \in Request, InsertEvent(r), ~Taken(EventRow(r).row)
  PROVE  AuditInv'
<1> USE DEF AuditInv
<1> DEFINE e == Append(seen[r], r)
<1>1. /\ phase[r] = "insert"
      /\ phase' = [phase EXCEPT ![r] = "done"]
      /\ phase \in [Request -> Awaiting \cup Answer]
      /\ rows' = rows \cup {e}
      /\ ~Taken(e)
      /\ UNCHANGED <<stored, anchor, seen, tries, late>>
  BY DEF InsertEvent, Store, EventRow, Goes, TypeOK
<1>2. /\ seen[r] \in rows \cup {Genesis}
      /\ seen[r] \in Seq(Request)
      /\ rows \in SUBSET Entry
  BY DEF HeadsAreRows, TypeOK
<1>3. /\ rows' \in SUBSET Entry
      /\ TableIsChain'
      /\ Event(r)' = Event(r) \cup {e}
      /\ \A q \in Request \ {r} : Event(q)' = Event(q)
  BY <1>1, <1>2, EventStored
<1>4. Event(r) = {} /\ \A w \in late : w.by = r => w.table # "audit_events"
  BY <1>1 DEF Unwritten, Awaiting
<1>5. Len(e) = Len(seen[r]) + 1
      /\ \A k \in 0 .. Len(seen[r]) : Prefix(e, k) = Prefix(seen[r], k)
  BY <1>2, Extended
<1> HIDE DEF e
<1>6. TypeOK'
  BY <1>1, <1>3 DEF TypeOK, Awaiting
<1>7. OneEventEach'
  BY <1>3, <1>4 DEF OneEventEach
<1>8. HeadsAreRows'
  BY <1>1 DEF HeadsAreRows
<1>9. Unwritten' /\ AttemptIsLeft'
  BY <1>1, <1>3 DEF Unwritten, AttemptIsLeft, Awaiting
<1>10. LateIsOnly'
  <2>1. \A w \in late : w.by \in Request
    BY DEF TypeOK, Write
  <2> QED
    BY <1>1, <1>3, <1>4, <2>1 DEF LateIsOnly
<1>11. Progress'
  <2>1. ASSUME Kind[r] # "write"
        PROVE  Len(anchor[r]) < Len(e) /\ anchor[r] = Prefix(e, Len(anchor[r]))
    <3>1. Len(anchor[r]) <= Len(seen[r]) /\ anchor[r] = Prefix(seen[r], Len(anchor[r]))
      BY <1>1, <2>1 DEF Progress
    <3>2. Len(anchor[r]) \in 0 .. Len(seen[r])
      BY <1>2, <3>1 DEF TypeOK
    <3> QED
      BY <1>2, <1>5, <3>1, <3>2
  <2>2. r \in Denied => Kind[r] # "write"
    BY RequestAssumption
  <2>3. ASSUME NEW q \in Request, q # r
        PROVE  phase'[q] = phase[q] /\ Event(q)' = Event(q)
    BY <1>1, <1>3, <2>3
  <2>4. /\ phase'[r] = "done" /\ e \in Event(r)'
    BY <1>1, <1>3
  <2> QED
    BY <1>1, <2>1, <2>2, <2>3, <2>4 DEF Progress, Awaiting
<1>12. RefusalsAreTraced'
  BY <1>1, <1>3 DEF RefusalsAreTraced
<1>13. ResponsesAreAnswers' /\ ReplaysAreAnswers'
  BY <1>1 DEF ResponsesAreAnswers, ReplaysAreAnswers
<1> QED
  BY <1>3, <1>6, <1>7, <1>8, <1>9, <1>10, <1>11, <1>12, <1>13

\* What a late write that is no event leaves as it was.
LEMMA LateRowAuditInv ==
  ASSUME AuditInv, NEW w \in late, LateWrite(w), w.table # "audit_events"
  PROVE  AuditInv'
<1> USE DEF AuditInv
<1>1. /\ w \in Write
      /\ rows' = rows
      /\ stored \subseteq stored'
      /\ stored' \subseteq stored \cup {w}
      /\ late' = late \ {w}
      /\ UNCHANGED <<phase, anchor, seen, tries>>
  BY DEF LateWrite, Store, TypeOK
<1>2. \A q \in Request : Event(q)' = Event(q)
  BY <1>1, SameEvents
<1>3. \A v \in late : v.by \in Request
  BY DEF TypeOK, Write
<1>4. TypeOK'
  BY <1>1 DEF TypeOK
<1>5. TableIsChain' /\ OneEventEach'
  BY <1>1, <1>2 DEF TableIsChain, OneEventEach
<1>6. HeadsAreRows' /\ Unwritten' /\ AttemptIsLeft'
  BY <1>1, <1>2 DEF HeadsAreRows, Unwritten, AttemptIsLeft
<1>7. LateIsOnly'
  BY <1>1, <1>2, <1>3 DEF LateIsOnly
<1>8. Progress' /\ RefusalsAreTraced'
  BY <1>1, <1>2 DEF Progress, RefusalsAreTraced
<1>9. ResponsesAreAnswers' /\ ReplaysAreAnswers'
  BY <1>1 DEF ResponsesAreAnswers, ReplaysAreAnswers
<1> QED
  BY <1>4, <1>5, <1>6, <1>7, <1>8, <1>9

\* An event whose request has given up reaches the table after all.
LEMMA LateEventAuditInv ==
  ASSUME AuditInv, NEW w \in late, LateWrite(w), w.table = "audit_events"
  PROVE  AuditInv'
<1> USE DEF AuditInv
<1>1. /\ w.by \in Request
      /\ rows \in SUBSET Entry
      /\ \A v \in late : v.by \in Request
      /\ stored' = stored
      /\ late' = late \ {w}
      /\ UNCHANGED <<phase, anchor, seen, tries>>
  BY DEF LateWrite, Store, TypeOK, Write
<1>2. PICK h \in rows \cup {Genesis} : w.row = Append(h, w.by)
  BY DEF HeadsAreRows
<1>3. /\ rows \subseteq rows'
      /\ rows' \in SUBSET Entry
      /\ TableIsChain'
      /\ \A q \in Request : Event(q) \subseteq Event(q)'
      /\ Event(w.by)' \subseteq {w.row}
      /\ \A q \in Request \ {w.by} : Event(q)' = Event(q)
  <2>1. Event(w.by) = {}
    BY DEF LateIsOnly
  <2>2. CASE Taken(w.row)
    <3>1. rows' = rows
      BY <2>2 DEF LateWrite, Store
    <3>2. \A q \in Request : Event(q)' = Event(q)
      BY <3>1, SameEvents
    <3> QED
      BY <1>1, <2>1, <3>1, <3>2 DEF TableIsChain
  <2>3. CASE ~Taken(w.row)
    <3>1. rows' = rows \cup {Append(h, w.by)} /\ ~Taken(Append(h, w.by))
      BY <1>2, <2>3 DEF LateWrite, Store
    <3> QED
      BY <1>1, <1>2, <2>1, <3>1, EventStored
  <2> QED
    BY <2>2, <2>3
<1>4. TypeOK'
  BY <1>1, <1>3 DEF TypeOK
<1>5. OneEventEach'
  BY <1>1, <1>3 DEF OneEventEach
<1>6. HeadsAreRows'
  BY <1>1, <1>3 DEF HeadsAreRows
<1>7. Unwritten' /\ AttemptIsLeft'
  BY <1>1, <1>3 DEF Unwritten, AttemptIsLeft
<1>8. LateIsOnly'
  BY <1>1, <1>3 DEF LateIsOnly
<1>9. Progress'
  BY <1>1, <1>3 DEF Progress
<1>10. RefusalsAreTraced'
  BY <1>1, <1>3 DEF RefusalsAreTraced
<1>11. ResponsesAreAnswers' /\ ReplaysAreAnswers'
  BY <1>1 DEF ResponsesAreAnswers, ReplaysAreAnswers
<1> QED
  BY <1>3, <1>4, <1>5, <1>6, <1>7, <1>8, <1>9, <1>10, <1>11

-----------------------------------------------------------------------------
(* The theorems. *)

\* Every step keeps the invariant: one lemma above for each action.
LEMMA NextAuditInv == AuditInv /\ [Next]_vars => AuditInv'
<1> SUFFICES ASSUME AuditInv, [Next]_vars PROVE AuditInv'
  OBVIOUS
<1>1. ASSUME NEW r \in Request, Begin(r) \/ Replay(r) \/ Conflict(r) PROVE AuditInv'
  BY <1>1, GatewayAuditInv
<1>2. ASSUME NEW r \in Request,
             StoreDecision(r) \/ StoreEffect(r) \/ StoreReceipt(r)
      PROVE  AuditInv'
  BY <1>2, StoreStepAuditInv
<1>3. ASSUME NEW r \in Request, ReadAnchor(r) PROVE AuditInv'
  BY <1>3, ReadAnchorAuditInv
<1>4. ASSUME NEW r \in Request, ReadHead(r) PROVE AuditInv'
  BY <1>4, ReadHeadAuditInv
<1>5. ASSUME NEW r \in Request, InsertEvent(r) PROVE AuditInv'
  BY <1>5, InsertRefusedAuditInv, InsertStoredAuditInv
<1>6. ASSUME NEW r \in Request, Respond(r) PROVE AuditInv'
  BY <1>6, RespondAuditInv
<1>7. ASSUME NEW r \in Request, Fail(r) PROVE AuditInv'
  BY <1>7, FailAuditInv
<1>8. ASSUME NEW w \in late, LateWrite(w) PROVE AuditInv'
  BY <1>8, LateRowAuditInv, LateEventAuditInv
<1>9. CASE UNCHANGED vars
  BY <1>9 DEF vars, AuditInv, TypeOK, TableIsChain, HeadsAreRows, Unwritten,
     LateIsOnly, AttemptIsLeft, OneEventEach, Progress, RefusalsAreTraced,
     ResponsesAreAnswers, ReplaysAreAnswers, Event
<1> QED
  BY <1>1, <1>2, <1>3, <1>4, <1>5, <1>6, <1>7, <1>8, <1>9 DEF Next

\* The inductive invariant of the API's requests and of the audit chain.
THEOREM AuditInvariant == Spec => []AuditInv
BY InitAuditInv, NextAuditInv, PTL DEF Spec

\* Every variable keeps its type, and appendAudit() its three attempts.
THEOREM AuditTypes == Spec => []TypeOK
<1>1. AuditInv => TypeOK
  BY DEF AuditInv
<1> QED
  BY <1>1, AuditInvariant, PTL

\* audit_events holds one chain per tenant, without gap or fork, whatever
\* races, lost answers and late INSERTs there are.
THEOREM AuditStaysChain == Spec => []TableIsChain
<1>1. AuditInv => TableIsChain
  BY DEF AuditInv
<1> QED
  BY <1>1, AuditInvariant, PTL

\* The head that a receipt names is on the chain for good.
THEOREM ReceiptsStayAnchored == Spec => []ReceiptsAreAnchored
<1>1. AuditInv => ReceiptsAreAnchored
  BY DEF AuditInv, HeadsAreRows, ReceiptsAreAnchored
<1> QED
  BY <1>1, AuditInvariant, PTL

\* A request never has two events in the chain.
THEOREM OneEventPerRequest == Spec => []OneEventEach
<1>1. AuditInv => OneEventEach
  BY DEF AuditInv
<1> QED
  BY <1>1, AuditInvariant, PTL

\* No 403 leaves before its decision, its receipt and its event are stored.
THEOREM RefusalsStayTraced == Spec => []RefusalsAreTraced
<1>1. AuditInv => RefusalsAreTraced
  BY DEF AuditInv
<1> QED
  BY <1>1, AuditInvariant, PTL

\* Nobody is told of a success, first hand or in a replayed answer, whose
\* change and event are not stored.
THEOREM SuccessStaysTraced == Spec => []SuccessIsTraced
<1>1. AuditInv => SuccessIsTraced
  <2> SUFFICES ASSUME AuditInv, NEW r \in Request, phase[r] \in {"ok", "replayed"}
               PROVE  \E q \in {r} \cup {p \in Request : Key[p] = Key[r] /\ Body[p] = Body[r]} :
                        /\ phase[q] = "ok" /\ Event(q) # {}
                        /\ Kind[q] # "read" => Row("effects", q) \in stored
    BY DEF SuccessIsTraced
  <2>1. ASSUME NEW q \in Request, phase[q] = "ok"
        PROVE  /\ Event(q) # {}
               /\ Kind[q] # "read" => Row("effects", q) \in stored
    BY <2>1 DEF AuditInv, Progress
  <2>2. CASE phase[r] = "ok"
    BY <2>1, <2>2
  <2>3. CASE phase[r] = "replayed"
    BY <2>1, <2>3 DEF AuditInv, ReplaysAreAnswers
  <2> QED
    BY <2>2, <2>3
<1> QED
  BY <1>1, AuditInvariant, PTL

-----------------------------------------------------------------------------
(* The refinement of SharedLog. *)

\* A receipt is stored, by its request or late, only after its head was read.
Unreceipted ==
  /\ \A r \in Request : phase[r] \in {"new", "decide", "effect", "anchor"} =>
       Row("receipts", r) \notin stored \cup late
  /\ \A w \in late : w.table # "audit_events" => w = Row(w.table, w.by)

\* The chain always has a head.
RefInv == AuditInv /\ Unreceipted /\ Heads # {}

\* And only one.
LEMMA HeadUnique ==
  ASSUME AuditInv, NEW h \in Heads
  PROVE  Heads = {h} /\ ChainLog = h
<1> USE DEF AuditInv
<1>1. ASSUME NEW g \in Heads
      PROVE  g = h
  <2>1. g \in rows \cup {Genesis} /\ h \in rows \cup {Genesis}
    BY DEF Heads
  <2>2. g \in Seq(Request) /\ h \in Seq(Request)
    BY <2>1, HeadType DEF TypeOK
  <2>3. /\ Len(g) <= Len(h) /\ g = Prefix(h, Len(g))
        /\ Len(h) <= Len(g)
    BY <2>1, HeadContinues DEF TypeOK
  <2> QED
    BY <2>2, <2>3, PrefixBounds
<1>2. Heads = {h}
  BY <1>1
<1> QED
  BY <1>2 DEF ChainLog

\* A row at a free seq is the new head, behind the old one.
LEMMA HeadMoves ==
  ASSUME AuditInv, NEW h \in rows \cup {Genesis}, NEW r \in Request,
         ~Taken(Append(h, r)), rows' = rows \cup {Append(h, r)}
  PROVE  h \in Heads /\ Append(h, r) \in Heads'
<1> USE DEF AuditInv
<1>1. h \in Seq(Request) /\ Len(Append(h, r)) = Len(h) + 1
  BY HeadType, Extended DEF TypeOK
<1>2. ASSUME NEW e \in rows
      PROVE  Len(e) <= Len(h)
  <2> SUFFICES ASSUME Len(e) > Len(h) PROVE FALSE
    BY <1>1 DEF TypeOK, Entry
  <2>1. e \in Seq(Request)
    BY DEF TypeOK, Entry
  <2>2. Len(h) + 1 \in 1 .. Len(e)
    BY <1>1, <2>1
  <2>3. Prefix(e, Len(h) + 1) \in rows
    BY <2>2 DEF TableIsChain
  <2>4. Len(Prefix(e, Len(h) + 1)) = Len(h) + 1
    BY <2>1, <2>2, SubSeqProperties DEF Prefix
  <2> QED
    BY <1>1, <2>3, <2>4 DEF Taken
<1>3. h \in Heads
  BY <1>2 DEF Heads
<1>4. Append(h, r) \in Heads'
  <2>1. ASSUME NEW e \in rows \cup {Append(h, r)}
        PROVE  Len(e) <= Len(Append(h, r))
    <3>1. CASE e \in rows
      <4>1. Len(e) <= Len(h) /\ Len(e) \in Nat /\ Len(h) \in Nat
        BY <1>1, <1>2, <3>1 DEF TypeOK, Entry
      <4> QED
        BY <1>1, <4>1
    <3>2. CASE e = Append(h, r)
      BY <1>1, <3>2
    <3> QED
      BY <3>1, <3>2
  <2> QED
    BY <2>1 DEF Heads
<1> QED
  BY <1>3, <1>4

\* What a step does to the chain.
LEMMA RowsStep ==
  ASSUME AuditInv, [Next]_vars
  PROVE  \/ rows' = rows
         \/ \E h \in rows \cup {Genesis}, r \in Request :
              /\ ~Taken(Append(h, r))
              /\ rows' = rows \cup {Append(h, r)}
              /\ UNCHANGED <<stored, anchor>>
<1> USE DEF AuditInv
<1> DEFINE Extends == \E h \in rows \cup {Genesis}, r \in Request :
                        /\ ~Taken(Append(h, r))
                        /\ rows' = rows \cup {Append(h, r)}
                        /\ UNCHANGED <<stored, anchor>>
<1>1. ASSUME NEW r \in Request,
             Begin(r) \/ Replay(r) \/ Conflict(r) \/ ReadAnchor(r)
               \/ ReadHead(r) \/ Respond(r) \/ Fail(r)
      PROVE  rows' = rows
  BY <1>1 DEF Begin, Replay, Conflict, ReadAnchor, ReadHead, Respond, Fail
<1>2. ASSUME NEW r \in Request,
             StoreDecision(r) \/ StoreEffect(r) \/ StoreReceipt(r)
      PROVE  rows' = rows
  BY <1>2 DEF StoreDecision, StoreEffect, StoreReceipt, Store, Row
<1>3. ASSUME NEW r \in Request, InsertEvent(r)
      PROVE  rows' = rows \/ Extends
  <2>1. seen[r] \in rows \cup {Genesis}
    BY DEF HeadsAreRows
  <2>2. CASE Taken(Append(seen[r], r))
    BY <1>3, <2>2 DEF InsertEvent, Store, EventRow
  <2>3. CASE ~Taken(Append(seen[r], r))
    <3>1. rows' = rows \cup {Append(seen[r], r)} /\ UNCHANGED <<stored, anchor>>
      BY <1>3, <2>3 DEF InsertEvent, Store, EventRow
    <3> QED
      BY <2>1, <2>3, <3>1
  <2> QED
    BY <2>2, <2>3
<1>4. ASSUME NEW w \in late, LateWrite(w)
      PROVE  rows' = rows \/ Extends
  <2>1. CASE w.table # "audit_events" \/ Taken(w.row)
    BY <1>4, <2>1 DEF LateWrite, Store
  <2>2. CASE w.table = "audit_events" /\ ~Taken(w.row)
    <3>1. PICK h \in rows \cup {Genesis} : w.row = Append(h, w.by)
      BY <2>2 DEF HeadsAreRows
    <3>2. w.by \in Request
      BY DEF TypeOK, Write
    <3>3. rows' = rows \cup {w.row} /\ UNCHANGED <<stored, anchor>>
      BY <1>4, <2>2 DEF LateWrite, Store
    <3> QED
      BY <2>2, <3>1, <3>2, <3>3
  <2> QED
    BY <2>1, <2>2
<1>5. CASE UNCHANGED vars
  BY <1>5 DEF vars
<1> QED
  BY <1>1, <1>2, <1>3, <1>4, <1>5 DEF Next

\* The chain keeps a head.
LEMMA HeadStep ==
  ASSUME RefInv, [Next]_vars
  PROVE  Heads' # {}
<1>1. CASE rows' = rows
  BY <1>1 DEF RefInv, Heads
<1>2. CASE rows' # rows
  <2>1. PICK h \in rows \cup {Genesis}, r \in Request :
          ~Taken(Append(h, r)) /\ rows' = rows \cup {Append(h, r)}
    BY <1>2, RowsStep DEF RefInv
  <2> QED
    BY <2>1, HeadMoves DEF RefInv
<1> QED
  BY <1>1, <1>2

\* Only StoreReceipt and a late write add a receipt.
LEMMA UnreceiptedStep ==
  ASSUME RefInv, [Next]_vars
  PROVE  Unreceipted'
<1> USE DEF RefInv, Unreceipted
<1> DEFINE Early == {"new", "decide", "effect", "anchor"}
<1>1. phase \in [Request -> Awaiting \cup Answer] /\ late \in SUBSET Write
  BY DEF AuditInv, TypeOK
<1>2. ASSUME NEW r \in Request,
             Begin(r) \/ Replay(r) \/ Conflict(r) \/ ReadAnchor(r) \/ ReadHead(r)
      PROVE  Unreceipted'
  <2>1. UNCHANGED <<stored, late>>
    BY <1>2 DEF Begin, Replay, Conflict, ReadAnchor, ReadHead
  <2>2. \A q \in Request : phase'[q] \in Early => phase[q] \in Early
    BY <1>1, <1>2 DEF Begin, Replay, Conflict, ReadAnchor, ReadHead, Goes
  <2> QED
    BY <2>1, <2>2
<1>3. ASSUME NEW r \in Request, StoreDecision(r) \/ StoreEffect(r)
      PROVE  Unreceipted'
  <2>1. late' = late
    BY <1>3 DEF StoreDecision, StoreEffect
  <2>2. stored' = stored \cup {Row("decisions", r)} \/ stored' = stored \cup {Row("effects", r)}
    BY <1>3, StoreRow DEF StoreDecision, StoreEffect, Table
  <2>3. \A q \in Request : phase'[q] \in Early => phase[q] \in Early
    BY <1>1, <1>3 DEF StoreDecision, StoreEffect, Goes
  <2>4. \A q \in Request : Row("receipts", q) \in stored' => Row("receipts", q) \in stored
    BY <2>2 DEF Row
  <2> QED
    BY <2>1, <2>3, <2>4
<1>4. ASSUME NEW r \in Request, StoreReceipt(r)
      PROVE  Unreceipted'
  <2>1. late' = late /\ stored' = stored \cup {Row("receipts", r)}
    BY <1>4, StoreRow DEF StoreReceipt, Table
  <2>2. phase' = [phase EXCEPT ![r] = "head"]
    BY <1>4 DEF StoreReceipt, Goes
  <2>3. \A q \in Request : phase'[q] \in Early => q # r /\ phase[q] \in Early
    BY <1>1, <2>2
  <2>4. \A q \in Request \ {r} : Row("receipts", q) # Row("receipts", r)
    BY DEF Row
  <2> QED
    BY <2>1, <2>3, <2>4
<1>5. ASSUME NEW r \in Request, InsertEvent(r)
      PROVE  Unreceipted'
  <2>1. UNCHANGED <<stored, late>>
    BY <1>5 DEF InsertEvent, Store, EventRow
  <2>2. \A q \in Request : phase'[q] \in Early => phase[q] \in Early
    BY <1>1, <1>5 DEF InsertEvent, Goes, LostRace
  <2> QED
    BY <2>1, <2>2
<1>6. ASSUME NEW r \in Request, Respond(r)
      PROVE  Unreceipted'
  <2>1. stored' = stored /\ late' \subseteq late \cup {Row("responses", r)}
    BY <1>6 DEF Respond
  <2>2. \A q \in Request : phase'[q] \in Early => phase[q] \in Early
    BY <1>1, <1>6 DEF Respond, Goes
  <2> QED
    BY <2>1, <2>2 DEF Row
<1>7. ASSUME NEW r \in Request, Fail(r)
      PROVE  Unreceipted'
  <2>1. stored' = stored /\ late' = late \cup UnderWay(r)
    BY <1>7 DEF Fail
  <2>2. \A q \in Request : phase'[q] \in Early => q # r /\ phase[q] \in Early
    BY <1>1, <1>7 DEF Fail, Goes
  <2>3. \A w \in UnderWay(r) : /\ w.by = r
                               /\ w.table # "audit_events" => w = Row(w.table, w.by)
    BY DEF UnderWay, Row, EventRow
  <2>4. \A q \in Request \ {r} : Row("receipts", q) \notin UnderWay(r)
    BY <2>3 DEF Row
  <2> QED
    BY <2>1, <2>2, <2>3, <2>4
<1>8. ASSUME NEW w \in late, LateWrite(w)
      PROVE  Unreceipted'
  BY <1>8 DEF LateWrite, Store
<1>9. CASE UNCHANGED vars
  BY <1>9 DEF vars
<1> QED
  BY <1>2, <1>3, <1>4, <1>5, <1>6, <1>7, <1>8, <1>9 DEF Next

\* No receipt is stored at first and the head is that of no event.
LEMMA InitRefInv == Init => RefInv
<1> SUFFICES ASSUME Init PROVE RefInv
  OBVIOUS
<1>1. AuditInv
  BY InitAuditInv
<1>2. Unreceipted
  BY DEF Init, Unreceipted
<1>3. Genesis \in Heads
  BY EmptySeq DEF Init, Heads, Genesis
<1> QED
  BY <1>1, <1>2, <1>3 DEF RefInv

\* Every step keeps what the refinement needs.
LEMMA NextRefInv == RefInv /\ [Next]_vars => RefInv'
BY NextAuditInv, HeadStep, UnreceiptedStep DEF RefInv

\* Where no receipt is added and none changes its head, nobody's view changes.
LEMMA ViewKept ==
  ASSUME \A r \in Request : Row("receipts", r) \in stored' <=> Row("receipts", r) \in stored,
         \A r \in Request : Row("receipts", r) \in stored => anchor'[r] = anchor[r]
  PROVE  ReceiptView' = ReceiptView
BY DEF ReceiptView

\* A receipt that is added shows its holder the head it names.
LEMMA ViewMoves ==
  ASSUME NEW r \in Request, Row("receipts", r) \notin stored,
         stored' = stored \cup {Row("receipts", r)}, anchor' = anchor
  PROVE  ReceiptView' = [ReceiptView EXCEPT ![r] = anchor[r]]
<1>1. \A q \in Request \ {r} : Row("receipts", q) # Row("receipts", r)
  BY DEF Row
<1>2. ReceiptView' = [q \in Request |-> IF q = r THEN anchor[r] ELSE ReceiptView[q]]
  BY <1>1 DEF ReceiptView
<1>3. ReceiptView = [q \in Request |-> ReceiptView[q]]
  BY DEF ReceiptView
<1> QED
  BY <1>2, <1>3

\* What a step does to the receipts.
LEMMA ViewStep ==
  ASSUME RefInv, [Next]_vars
  PROVE  \/ ReceiptView' = ReceiptView
         \/ \E r \in Request : /\ rows' = rows
                               /\ Row("receipts", r) \notin stored
                               /\ ReceiptView' = [ReceiptView EXCEPT ![r] = anchor[r]]
<1> USE DEF RefInv
<1> DEFINE Receipted == \E r \in Request :
                          /\ rows' = rows
                          /\ Row("receipts", r) \notin stored
                          /\ ReceiptView' = [ReceiptView EXCEPT ![r] = anchor[r]]
<1>1. ASSUME NEW r \in Request,
             Begin(r) \/ Replay(r) \/ Conflict(r) \/ ReadHead(r) \/ InsertEvent(r)
               \/ Respond(r) \/ Fail(r)
      PROVE  ReceiptView' = ReceiptView
  <2>1. UNCHANGED <<stored, anchor>>
    BY <1>1 DEF Begin, Replay, Conflict, ReadHead, InsertEvent, Respond, Fail,
       Store, EventRow
  <2> QED
    BY <2>1, ViewKept
<1>2. ASSUME NEW r \in Request, ReadAnchor(r)
      PROVE  ReceiptView' = ReceiptView
  <2>1. stored' = stored /\ Row("receipts", r) \notin stored
    BY <1>2 DEF ReadAnchor, Unreceipted
  <2>2. \A q \in Request \ {r} : anchor'[q] = anchor[q]
    BY <1>2 DEF ReadAnchor, AuditInv, TypeOK
  <2> QED
    BY <2>1, <2>2, ViewKept
<1>3. ASSUME NEW r \in Request, StoreDecision(r) \/ StoreEffect(r)
      PROVE  ReceiptView' = ReceiptView
  <2>1. anchor' = anchor
    BY <1>3 DEF StoreDecision, StoreEffect
  <2>2. stored' = stored \cup {Row("decisions", r)} \/ stored' = stored \cup {Row("effects", r)}
    BY <1>3, StoreRow DEF StoreDecision, StoreEffect, Table
  <2>3. \A q \in Request : Row("receipts", q) \in stored' <=> Row("receipts", q) \in stored
    BY <2>2 DEF Row
  <2> QED
    BY <2>1, <2>3, ViewKept
<1>4. ASSUME NEW r \in Request, rows' = rows, anchor' = anchor,
             stored' = stored \cup {Row("receipts", r)}
      PROVE  ReceiptView' = ReceiptView \/ Receipted
  <2>1. CASE Row("receipts", r) \in stored
    <3>1. stored' = stored
      BY <1>4, <2>1
    <3> QED
      BY <1>4, <3>1, ViewKept
  <2>2. CASE Row("receipts", r) \notin stored
    BY <1>4, <2>2, ViewMoves
  <2> QED
    BY <2>1, <2>2
<1>5. ASSUME NEW r \in Request, StoreReceipt(r)
      PROVE  ReceiptView' = ReceiptView \/ Receipted
  <2>1. rows' = rows /\ anchor' = anchor /\ stored' = stored \cup {Row("receipts", r)}
    BY <1>5, StoreRow DEF StoreReceipt, Table
  <2> QED
    BY <1>4, <2>1
<1>6. ASSUME NEW w \in late, LateWrite(w)
      PROVE  ReceiptView' = ReceiptView \/ Receipted
  <2>1. anchor' = anchor /\ w.by \in Request
    BY <1>6 DEF LateWrite, AuditInv, TypeOK, Write
  <2>2. CASE w.table = "receipts"
    <3>1. /\ w = Row("receipts", w.by)
          /\ rows' = rows
          /\ stored' = stored \cup {w}
      BY <1>6, <2>2 DEF LateWrite, Store, Unreceipted
    <3>2. stored' = stored \cup {Row("receipts", w.by)}
      BY <3>1
    <3> QED
      BY <1>4, <2>1, <3>1, <3>2
  <2>3. CASE w.table # "receipts"
    <3>1. stored \subseteq stored' /\ stored' \subseteq stored \cup {w}
      BY <1>6 DEF LateWrite, Store
    <3>2. \A q \in Request : Row("receipts", q) # w
      BY <2>3 DEF Row
    <3>3. \A q \in Request : Row("receipts", q) \in stored' <=> Row("receipts", q) \in stored
      BY <3>1, <3>2
    <3> QED
      BY <2>1, <3>3, ViewKept
  <2> QED
    BY <2>2, <2>3
<1>7. CASE UNCHANGED vars
  <2>1. UNCHANGED <<stored, anchor>>
    BY <1>7 DEF vars
  <2> QED
    BY <2>1, ViewKept
<1> QED
  BY <1>1, <1>2, <1>3, <1>5, <1>6, <1>7 DEF Next

\* An event that is stored extends the shared log.
LEMMA ExtendStep ==
  ASSUME AuditInv, NEW h \in rows \cup {Genesis}, NEW r \in Request,
         ~Taken(Append(h, r)), rows' = rows \cup {Append(h, r)},
         AuditInv', ReceiptView' = ReceiptView
  PROVE  Log!Extend
<1> DEFINE e == Append(h, r)
<1>1. h \in Seq(Request)
  BY HeadType DEF AuditInv, TypeOK
<1>2. h \in Heads /\ e \in Heads'
  BY HeadMoves
<1>3. ChainLog = h
  BY <1>2, HeadUnique
<1>4. ChainLog' = e
  <2>1. AuditInv' /\ e \in Heads'
    BY <1>2
  <2>2. \A g \in Heads' : g = e
    <3> SUFFICES ASSUME NEW g \in Heads' PROVE g = e
      OBVIOUS
    <3>1. rows' \in SUBSET Entry /\ TableIsChain'
      BY DEF AuditInv, TypeOK
    <3>2. g \in rows' /\ Len(g) = Len(e)
      <4>1. /\ g \in rows' \cup {Genesis}
            /\ e \in rows'
            /\ Len(e) <= Len(g)
        BY DEF Heads
      <4>2. e \in Seq(Request) /\ Len(e) = Len(h) + 1 /\ g \in Seq(Request)
        BY <1>1, <3>1, <4>1, Extended, EmptySeq DEF Entry, Genesis
      <4>3. g # Genesis
        BY <1>1, <4>1, <4>2, EmptySeq DEF Genesis
      <4>4. Len(g) <= Len(e)
        BY <1>2, <4>1, <4>3 DEF Heads
      <4> QED
        BY <4>1, <4>2, <4>3, <4>4
    <3> QED
      BY <3>1, <3>2, <1>2 DEF TableIsChain
  <2>3. Heads' = {e}
    BY <2>1, <2>2
  <2> QED
    BY <2>3 DEF ChainLog
<1>5. /\ e \in Seq(Request)
      /\ Len(e) = Len(h) + 1
      /\ Prefix(e, Len(h)) = Prefix(h, Len(h))
      /\ Prefix(h, Len(h)) = h
      /\ Len(h) \in Nat
  BY <1>1, Extended, PrefixBounds DEF Entry
<1> HIDE DEF e
<1> QED
  BY <1>3, <1>4, <1>5 DEF Log!Extend, Log!PrefixOf, Log!Prefix, Prefix

\* A receipt that is stored lets its holder observe the shared log.
LEMMA ObserveStep ==
  ASSUME RefInv, NEW r \in Request, rows' = rows, Row("receipts", r) \notin stored,
         ReceiptView' = [ReceiptView EXCEPT ![r] = anchor[r]]
  PROVE  Log!Observe(r)
<1> USE DEF RefInv
<1>1. PICK h \in Heads : TRUE
  OBVIOUS
<1>2. ChainLog = h
  BY HeadUnique
<1>3. ChainLog' = ChainLog
  BY DEF ChainLog, Heads
<1>4. Len(anchor[r]) <= Len(h) /\ anchor[r] = Prefix(h, Len(anchor[r]))
  BY HeadContinues DEF AuditInv, TypeOK, HeadsAreRows
<1>5. ReceiptView'[r] = anchor[r] /\ ReceiptView[r] = Genesis
  BY DEF ReceiptView
<1>6. anchor[r] \in Seq(Request)
  BY DEF AuditInv, TypeOK
<1>7. Log!PrefixOf(Genesis, anchor[r])
  BY <1>6, EmptySeq, PrefixBounds DEF Log!PrefixOf, Log!Prefix, Prefix, Genesis
<1> QED
  BY <1>2, <1>3, <1>4, <1>5, <1>7 DEF Log!Observe, Log!PrefixOf, Log!Prefix, Prefix

\* At first the log is empty and nobody holds a view of it.
LEMMA InitRefines == Init => Log!LogInit
<1> SUFFICES ASSUME Init PROVE Log!LogInit
  OBVIOUS
<1>1. Genesis \in Heads /\ \A h \in Heads : h = Genesis
  BY EmptySeq DEF Init, Heads, Genesis
<1>2. ChainLog = Genesis
  BY <1>1 DEF ChainLog
<1>3. ReceiptView = [r \in Request |-> Genesis]
  BY DEF Init, ReceiptView
<1> QED
  BY <1>2, <1>3 DEF Log!LogInit, Genesis

\* A step adds one event to the log, gives a receipt its head, or shows nothing.
LEMMA NextRefines == RefInv /\ [Next]_vars => [Log!LogNext]_(Log!logVars)
<1> SUFFICES ASSUME RefInv, [Next]_vars PROVE [Log!LogNext]_(Log!logVars)
  OBVIOUS
<1>1. AuditInv'
  BY NextAuditInv DEF RefInv
<1>2. CASE rows' = rows /\ ReceiptView' = ReceiptView
  <2>1. ChainLog' = ChainLog
    BY <1>2 DEF ChainLog, Heads
  <2> QED
    BY <1>2, <2>1 DEF Log!logVars
<1>3. CASE rows' = rows /\ ReceiptView' # ReceiptView
  <2>1. \E r \in Request : Log!Observe(r)
    BY <1>3, ViewStep, ObserveStep
  <2> QED
    BY <2>1 DEF Log!LogNext
<1>4. CASE rows' # rows
  <2>1. PICK h \in rows \cup {Genesis}, r \in Request :
          /\ ~Taken(Append(h, r))
          /\ rows' = rows \cup {Append(h, r)}
          /\ UNCHANGED <<stored, anchor>>
    BY <1>4, RowsStep DEF RefInv
  <2>2. ReceiptView' = ReceiptView
    BY <2>1, ViewKept
  <2>3. Log!Extend
    BY <1>1, <2>1, <2>2, ExtendStep DEF RefInv
  <2> QED
    BY <2>3 DEF Log!LogNext
<1> QED
  BY <1>2, <1>3, <1>4

\* The chain and the receipts implement the shared log: a stored event only
\* ever extends it, and a receipt fixes a part of it that nothing takes back.
THEOREM AuditRefinesSharedLog == Spec => ImplementsSharedLog
<1>1. Init => RefInv /\ Log!LogInit
  BY InitRefInv, InitRefines
<1>2. RefInv /\ [Next]_vars => RefInv' /\ [Log!LogNext]_(Log!logVars)
  BY NextRefInv, NextRefines
<1> QED
  BY <1>1, <1>2, PTL DEF Spec, ImplementsSharedLog, Log!LogSpec
=============================================================================
