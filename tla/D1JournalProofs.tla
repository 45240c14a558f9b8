-------------------------- MODULE D1JournalProofs --------------------------
(***************************************************************************)
(* Proofs about D1Journal, for every set of instances, flush slots and     *)
(* bodies and every bound.  They are about instances that are used by one  *)
(* coroutine at a time (Overlap = FALSE); several instances still race.    *)
(* The last part maps them to the one log of SharedLog.                    *)
(***************************************************************************)
EXTENDS D1Journal, SequenceTheorems, TLAPS

-----------------------------------------------------------------------------
(* Prefixes. *)

\* A prefix is a sequence of the length asked for.
LEMMA PrefixType ==
  ASSUME NEW s \in Seq(Body), NEW k \in 0 .. Len(s)
  PROVE  /\ Prefix(s, k) \in Seq(Body)
         /\ Len(Prefix(s, k)) = k
<1>1. \A i \in 1 .. k : s[i] \in Body
  OBVIOUS
<1> QED
  BY <1>1, SubSeqProperties DEF Prefix

\* A nonempty prefix can be the digest of an entry.
LEMMA PrefixEntry ==
  ASSUME NEW s \in Seq(Body), NEW k \in 1 .. Len(s)
  PROVE  Prefix(s, k) \in Entry
BY PrefixType DEF Entry

\* A prefix of a prefix is the shorter prefix.
LEMMA PrefixPrefix ==
  ASSUME NEW s \in Seq(Body), NEW n \in 0 .. Len(s), NEW k \in 0 .. n
  PROVE  Prefix(Prefix(s, n), k) = Prefix(s, k)
<1>1. CASE k = 0
  BY <1>1, SubSeqEmpty DEF Prefix
<1>2. CASE k # 0
  BY <1>2, SubSeqOfSubSeq, 1 \in 1 .. Len(s), n \in 1 .. Len(s),
     1 \in 1 .. n - 1 + 1, k \in 1 .. n - 1 + 1, s \in Seq(Body) DEF Prefix
<1> QED
  BY <1>1, <1>2

\* The longest prefix is the whole.
LEMMA PrefixAll ==
  ASSUME NEW s \in Seq(Body)
  PROVE  Prefix(s, Len(s)) = s
BY SubSeqFull DEF Prefix

\* Chaining an entry leaves every earlier prefix alone.
LEMMA PrefixAppend ==
  ASSUME NEW s \in Seq(Body), NEW b \in Body, NEW k \in 0 .. Len(s)
  PROVE  Prefix(Append(s, b), k) = Prefix(s, k)
<1>1. Append(s, b) = s \o <<b>> /\ <<b>> \in Seq(Body)
  BY AppendIsConcat
<1>2. CASE k = 0
  BY <1>2, SubSeqEmpty DEF Prefix
<1>3. CASE k # 0
  BY <1>1, <1>3, SubSeqOfConcat1, 1 \in 1 .. Len(s), k \in 1 .. Len(s) DEF Prefix
<1> QED
  BY <1>2, <1>3
-----------------------------------------------------------------------------
(* What the steps write into a call is a call. *)

\* A flush slot that is free has the type of a call.
LEMMA NoCallType == NoCall \in CallState
BY DEF NoCall, CallState, Phase, Genesis

\* What a flush sets of its local variables keeps their type.
LEMMA CallUpdateType ==
  ASSUME NEW c \in CallState, NEW p \in Phase, NEW s \in Seq(Body),
         NEW batch \in SUBSET Entry
  PROVE  /\ [c EXCEPT !.phase = p] \in CallState
         /\ [c EXCEPT !.phase = p, !.prev = s] \in CallState
         /\ [c EXCEPT !.phase = p, !.seen = s] \in CallState
         /\ [c EXCEPT !.phase = p, !.batch = batch] \in CallState
BY DEF CallState

-----------------------------------------------------------------------------
(* The inductive invariant. *)

\* The queue of an instance continues the table.
LEMMA PendingContinues ==
  ASSUME SerialInv, NEW j \in Journal
  PROVE  Continues(pending[j])
<1> USE DEF SerialInv, TypeOK
<1>1. ASSUME NEW e \in pending[j]
      PROVE  \E n \in durable[j] + 1 .. Len(list[j]) :
               e = Prefix(list[j], n) /\ Len(e) = n
  <2>1. PICK n \in durable[j] + 1 .. Len(list[j]) : e = Prefix(list[j], n)
    BY <1>1 DEF PendingIsTail
  <2>2. n \in 0 .. Len(list[j]) /\ list[j] \in Seq(Body)
    OBVIOUS
  <2>3. Len(e) = n
    BY <2>1, <2>2, PrefixType
  <2> QED
    BY <2>1, <2>3
<1>2. ASSUME NEW e \in pending[j], NEW k \in 1 .. Len(e)
      PROVE  Prefix(e, k) \in pending[j] \cup rows
  <2>1. PICK n \in durable[j] + 1 .. Len(list[j]) :
               e = Prefix(list[j], n) /\ Len(e) = n
    BY <1>1
  <2>2. Prefix(e, k) = Prefix(list[j], k)
    BY <2>1, PrefixPrefix
  <2>3. CASE k <= durable[j]
    BY <2>2, <2>3 DEF DurableIsStored
  <2>4. CASE k > durable[j]
    BY <2>1, <2>2, <2>4 DEF PendingIsTail
  <2> QED
    BY <2>1, <2>3, <2>4
<1> QED
  BY <1>1, <1>2 DEF Continues

\* Storing a batch that continues the table leaves it a chain, and whatever
\* continued the table before still does, as does what is left of it.
LEMMA StoreKeepsChain ==
  ASSUME TableIsChain, NEW batch, Continues(batch), ~Collides(batch),
         rows' = rows \cup batch
  PROVE  TableIsChain'
BY DEF TableIsChain, Continues, Collides

\* A batch that continues the table does so when the table has grown.
LEMMA ContinuesGrows ==
  ASSUME NEW batch, Continues(batch), rows \subseteq rows'
  PROVE  Continues(batch)'
BY DEF Continues

\* The table is empty at first, and so is every instance.
LEMMA InitSerialInv == Init => SerialInv
<1> SUFFICES ASSUME Init PROVE SerialInv
  OBVIOUS
<1> USE DEF Init
<1>1. TypeOK
  BY NoCallType DEF TypeOK, Genesis
<1>2. TableIsChain /\ OrphansContinue
  BY DEF TableIsChain, OrphansContinue
<1>3. DurableIsStored /\ PendingIsTail
  BY DEF DurableIsStored, PendingIsTail, Genesis
<1>4. OneFlush /\ InFlight
  BY DEF OneFlush, InFlight, NoCall
<1> QED
  BY <1>1, <1>2, <1>3, <1>4 DEF SerialInv

\* Steps that only move a flush forward.
LEMMA CallStepSerialInv ==
  ASSUME SerialInv, Overlap = FALSE, NEW f \in Flush,
         FlushCall(f) \/ DbSelect(f) \/ SendInsert(f)
  PROVE  SerialInv'
<1> USE DEF SerialInv, TypeOK
<1>1. UNCHANGED <<rows, list, durable, pending, orphans>>
  BY DEF FlushCall, DbSelect, SendInsert
<1>2. call' \in [Flush -> CallState]
  <2>1. CASE FlushCall(f)
    <3>1. PICK first \in pending[On[f]] :
            call' = [call EXCEPT ![f] = [NoCall EXCEPT !.phase = "select",
                                                       !.prev = Prev(first)]]
      BY <2>1 DEF FlushCall
    <3>2. first \in Entry
      BY OnAssumption
    <3>3. Prev(first) \in Seq(Body)
      BY <3>2, PrefixType DEF Prev, Entry
    <3>4. [NoCall EXCEPT !.phase = "select", !.prev = Prev(first)] \in CallState
      BY <3>3, NoCallType, CallUpdateType, "select" \in Phase DEF Phase
    <3> QED
      BY <3>1, <3>4
  <2>2. CASE DbSelect(f)
    <3>1. PICK h \in DurableHeads :
            call' = [call EXCEPT ![f].phase = "read", ![f].seen = h]
      BY <2>2 DEF DbSelect
    <3>2. h \in rows \cup {Genesis}
      BY DEF DurableHeads
    <3>3. h \in Seq(Body)
      <4>1. rows \subseteq Seq(Body)
        BY DEF Entry
      <4>2. Genesis \in Seq(Body)
        BY EmptySeq DEF Genesis
      <4> QED
        BY <3>2, <4>1, <4>2
    <3>4. [call[f] EXCEPT !.phase = "read", !.seen = h] \in CallState
      BY <3>3, CallUpdateType, "read" \in Phase, {} \in SUBSET Entry DEF Phase
    <3> QED
      BY <3>1, <3>4
  <2>3. CASE SendInsert(f)
    <3>1. [call[f] EXCEPT !.phase = "insert", !.batch = pending[On[f]]] \in CallState
      BY OnAssumption, CallUpdateType, "insert" \in Phase DEF Phase
    <3> QED
      BY <2>3, <3>1 DEF SendInsert
  <2> QED
    BY <2>1, <2>2, <2>3
<1>3. \A g \in Flush : g # f => call'[g] = call[g]
  BY DEF FlushCall, DbSelect, SendInsert
<1>4. OneFlush'
  <2>1. CASE call[f].phase # "idle"
    BY <1>3, <2>1 DEF OneFlush
  <2>2. CASE call[f].phase = "idle"
    <3>1. MayRun(On[f])
      BY <2>2 DEF FlushCall, DbSelect, SendInsert
    <3> QED
      BY <1>3, <3>1 DEF OneFlush, MayRun
  <2> QED
    BY <2>1, <2>2
<1>5. InFlight'
  <2>1. call'[f].phase \in {"select", "read"}
        \/ (call'[f].phase = "insert" /\ call'[f].batch = pending[On[f]])
    BY DEF FlushCall, DbSelect, SendInsert, NoCall, CallState
  <2> QED
    BY <1>1, <1>3, <2>1 DEF InFlight
<1> QED
  BY <1>1, <1>2, <1>4, <1>5
     DEF TableIsChain, DurableIsStored, PendingIsTail, OrphansContinue, Continues

\* The database runs the INSERT of a flush.
LEMMA DbInsertSerialInv ==
  ASSUME SerialInv, NEW f \in Flush, DbInsert(f)
  PROVE  SerialInv'
<1> USE DEF SerialInv, TypeOK, DbInsert
<1>1. rows \subseteq rows' /\ UNCHANGED <<list, durable, pending, orphans>>
  OBVIOUS
<1>2. call[f].batch = pending[On[f]] /\ Continues(call[f].batch)
  BY PendingContinues, OnAssumption DEF InFlight
<1>3. TableIsChain'
  <2>1. CASE Collides(call[f].batch)
    BY <2>1 DEF TableIsChain
  <2>2. CASE ~Collides(call[f].batch)
    BY <1>2, <2>2, StoreKeepsChain
  <2> QED
    BY <2>1, <2>2
<1>4. TypeOK'
  <2>1. call[f] \in CallState
    OBVIOUS
  <2>2. rows' \subseteq Entry
    BY <2>1 DEF CallState
  <2>3. \A p \in Phase : [call[f] EXCEPT !.phase = p] \in CallState
    BY <2>1, CallUpdateType, EmptySeq, {} \in SUBSET Entry
  <2>4. call' \in [Flush -> CallState]
    BY <2>3 DEF Phase
  <2> QED
    BY <2>2, <2>4
<1>5. DurableIsStored' /\ PendingIsTail'
  BY <1>1 DEF DurableIsStored, PendingIsTail
<1>6. OneFlush'
  BY DEF OneFlush
<1>7. InFlight'
  <2>1. ASSUME NEW g \in Flush, g # f
        PROVE  /\ call'[g] = call[g]
               /\ call[g].phase = "stored" => pending[On[g]] \subseteq rows
    BY <2>1 DEF InFlight
  <2>2. call'[f].batch = pending[On[f]]
        /\ (call'[f].phase = "stored" => pending[On[f]] \subseteq rows')
    BY <1>2 DEF CallState
  <2> QED
    BY <1>1, <2>1, <2>2 DEF InFlight
<1>8. OrphansContinue'
  BY <1>1, ContinuesGrows DEF OrphansContinue
<1> QED
  BY <1>3, <1>4, <1>5, <1>6, <1>7, <1>8

\* A chain cut back to its durable part, with nothing queued.  The steps that
\* do this to the instance of flush f also let go of the flush.
LEMMA RollbackSerialInv ==
  ASSUME SerialInv, NEW f \in Flush, call[f].phase # "idle", Rollback(f),
         UNCHANGED <<rows, durable>>, orphans' \in SUBSET SUBSET Entry,
         \A batch \in orphans' : Continues(batch)
  PROVE  SerialInv'
<1> DEFINE j == On[f]
<1> USE DEF SerialInv, TypeOK
<1>1. j \in Journal /\ list[j] \in Seq(Body) /\ durable[j] \in 0 .. Len(list[j])
  BY OnAssumption DEF DurableIsStored
<1>2. /\ list' = [list EXCEPT ![j] = Prefix(list[j], durable[j])]
      /\ pending' = [pending EXCEPT ![j] = {}]
      /\ call' = [call EXCEPT ![f] = NoCall]
  BY DEF Rollback
<1> HIDE DEF j
<1>3. Prefix(list[j], durable[j]) \in Seq(Body)
      /\ Len(Prefix(list[j], durable[j])) = durable[j]
  BY <1>1, PrefixType
<1>4. TypeOK'
  BY <1>1, <1>2, <1>3, NoCallType
<1>5. DurableIsStored'
  <2>1. ASSUME NEW k \in 1 .. durable[j]
        PROVE  Prefix(Prefix(list[j], durable[j]), k) \in rows
    BY <1>1, PrefixPrefix DEF DurableIsStored
  <2> QED
    BY <1>1, <1>2, <1>3, <2>1 DEF DurableIsStored
<1>6. PendingIsTail'
  <2>1. durable[j] + 1 .. Len(list'[j]) = {}
    BY <1>1, <1>2, <1>3
  <2> QED
    BY <1>1, <1>2, <2>1 DEF PendingIsTail
<1>7. OneFlush'
  BY <1>2 DEF OneFlush, NoCall
<1>8. InFlight'
  <2>1. ASSUME NEW g \in Flush, call'[g].phase # "idle"
        PROVE  g # f /\ call'[g] = call[g] /\ pending'[On[g]] = pending[On[g]]
    <3>1. g # f /\ call'[g] = call[g]
      BY <1>2, <2>1 DEF NoCall
    <3>2. CASE On[g] # j
      BY <1>2, <3>1, <3>2, OnAssumption
    <3>3. CASE On[g] = j
      BY <1>2, <3>1, <3>3, <2>1 DEF OneFlush, NoCall, j
    <3> QED
      BY <3>1, <3>2, <3>3
  <2> QED
    BY <2>1 DEF InFlight
<1>9. TableIsChain' /\ OrphansContinue'
  BY ContinuesGrows DEF TableIsChain, OrphansContinue
<1> QED
  BY <1>4, <1>5, <1>6, <1>7, <1>8, <1>9

\* append() on an instance with no flush under way.
LEMMA AppendSerialInv ==
  ASSUME SerialInv, Overlap = FALSE, NEW j \in Journal, NEW b \in Body,
         AppendEntry(j, b)
  PROVE  SerialInv'
<1> USE DEF SerialInv, TypeOK
<1>1. /\ list' = [list EXCEPT ![j] = Append(list[j], b)]
      /\ pending' = [pending EXCEPT ![j] = pending[j] \cup {Append(list[j], b)}]
      /\ UNCHANGED <<rows, durable, call, orphans>>
  BY DEF AppendEntry
<1>2. list[j] \in Seq(Body) /\ durable[j] \in 0 .. Len(list[j])
  BY DEF DurableIsStored
<1>3. /\ Append(list[j], b) \in Entry
      /\ Append(list[j], b) \in Seq(Body)
      /\ Len(Append(list[j], b)) = Len(list[j]) + 1
  BY <1>2, AppendProperties DEF Entry
<1>4. \A k \in 0 .. Len(list[j]) : Prefix(Append(list[j], b), k) = Prefix(list[j], k)
  BY <1>2, PrefixAppend
<1>5. TypeOK'
  BY <1>1, <1>3
<1>6. DurableIsStored'
  <2>1. ASSUME NEW k \in 1 .. durable[j]
        PROVE  Prefix(list'[j], k) \in rows
    BY <1>1, <1>2, <1>4 DEF DurableIsStored
  <2> QED
    BY <1>1, <1>2, <1>3, <2>1 DEF DurableIsStored
<1>7. PendingIsTail'
  <2>1. pending[j] = {Prefix(list[j], k) : k \in durable[j] + 1 .. Len(list[j])}
    BY DEF PendingIsTail
  <2>2. pending[j] = {Prefix(list'[j], k) : k \in durable[j] + 1 .. Len(list[j])}
    BY <1>1, <1>2, <1>4, <2>1
  <2>3. Append(list[j], b) = Prefix(list'[j], Len(list[j]) + 1)
    BY <1>1, <1>3, PrefixAll
  <2>4. durable[j] + 1 .. Len(list'[j])
          = (durable[j] + 1 .. Len(list[j])) \cup {Len(list[j]) + 1}
    BY <1>1, <1>2, <1>3
  <2>5. pending'[j] = {Prefix(list'[j], k) : k \in durable[j] + 1 .. Len(list'[j])}
    BY <1>1, <2>2, <2>3, <2>4
  <2> QED
    BY <1>1, <2>5 DEF PendingIsTail
<1>8. OneFlush'
  BY <1>1 DEF OneFlush
<1>9. InFlight'
  <2>1. ASSUME NEW f \in Flush, call[f].phase # "idle"
        PROVE  pending'[On[f]] = pending[On[f]]
    BY <1>1, <2>1, OnAssumption DEF AppendEntry, MayRun
  <2> QED
    BY <1>1, <2>1 DEF InFlight
<1>10. TableIsChain' /\ OrphansContinue'
  BY <1>1 DEF TableIsChain, OrphansContinue, Continues
<1> QED
  BY <1>5, <1>6, <1>7, <1>8, <1>9, <1>10

\* A successful flush: what was queued is durable.
LEMMA ConfirmSerialInv ==
  ASSUME SerialInv, NEW f \in Flush, Confirm(f)
  PROVE  SerialInv'
<1> DEFINE j == On[f]
<1> USE DEF SerialInv, TypeOK
<1>1. /\ pending' = [pending EXCEPT ![j] = {}]
      /\ durable' = [durable EXCEPT ![j] = Len(list[j])]
      /\ call' = [call EXCEPT ![f] = NoCall]
      /\ UNCHANGED <<rows, list, orphans>>
      /\ call[f].phase = "stored"
  BY DEF Confirm
<1>2. j \in Journal /\ list[j] \in Seq(Body) /\ durable[j] \in 0 .. Len(list[j])
  BY OnAssumption DEF DurableIsStored
<1>3. pending[j] \subseteq rows
  BY <1>1 DEF InFlight
<1>4. TypeOK'
  BY <1>1, <1>2, NoCallType
<1>5. DurableIsStored'
  <2>1. ASSUME NEW k \in 1 .. Len(list[j])
        PROVE  Prefix(list[j], k) \in rows
    <3>1. CASE k <= durable[j]
      BY <1>2, <3>1 DEF DurableIsStored
    <3>2. CASE k > durable[j]
      BY <1>2, <1>3, <3>2 DEF PendingIsTail
    <3> QED
      BY <1>2, <3>1, <3>2
  <2> QED
    BY <1>1, <1>2, <2>1 DEF DurableIsStored
<1>6. PendingIsTail'
  <2>1. durable'[j] + 1 .. Len(list[j]) = {}
    BY <1>1, <1>2
  <2> QED
    BY <1>1, <2>1 DEF PendingIsTail
<1>7. OneFlush'
  BY <1>1 DEF OneFlush, NoCall
<1>8. InFlight'
  <2>1. ASSUME NEW g \in Flush, call'[g].phase # "idle"
        PROVE  g # f /\ call'[g] = call[g] /\ pending'[On[g]] = pending[On[g]]
    <3>1. g # f /\ call'[g] = call[g]
      BY <1>1, <2>1 DEF NoCall
    <3>2. On[g] # On[f]
      BY <1>1, <2>1, <3>1 DEF OneFlush
    <3> QED
      BY <1>1, <3>1, <3>2, OnAssumption
  <2> QED
    BY <1>1, <2>1 DEF InFlight
<1>9. TableIsChain' /\ OrphansContinue'
  BY <1>1 DEF TableIsChain, OrphansContinue, Continues
<1> QED
  BY <1>4, <1>5, <1>6, <1>7, <1>8, <1>9

\* The INSERTs that a failing flush or a dying process leaves behind.
LEMMA UnansweredContinue ==
  ASSUME SerialInv, NEW F \in SUBSET Flush, NEW batch \in Unanswered(F)
  PROVE  batch \in SUBSET Entry /\ Continues(batch)
<1>1. PICK f \in Flush : call[f].phase = "insert" /\ batch = call[f].batch
  BY DEF Unanswered
<1>2. batch = pending[On[f]] /\ On[f] \in Journal
  BY <1>1, OnAssumption DEF SerialInv, InFlight
<1> QED
  BY <1>2, PendingContinues DEF SerialInv, TypeOK

\* A flush that fails, for whatever reason.
LEMMA FailingSerialInv ==
  ASSUME SerialInv, NEW f \in Flush, HeadMoved(f) \/ LostRace(f) \/ Fail(f)
  PROVE  SerialInv'
<1>1. /\ call[f].phase # "idle"
      /\ Rollback(f)
      /\ UNCHANGED <<rows, durable>>
      /\ orphans' \subseteq orphans \cup Unanswered({f})
  BY DEF HeadMoved, LostRace, Fail
<1>2. /\ orphans' \in SUBSET SUBSET Entry
      /\ \A batch \in orphans' : Continues(batch)
  BY <1>1, UnansweredContinue, {f} \in SUBSET Flush
     DEF SerialInv, TypeOK, OrphansContinue
<1> QED
  BY <1>1, <1>2, RollbackSerialInv

\* An INSERT that nobody waits for.
LEMMA OrphanSerialInv ==
  ASSUME SerialInv, NEW batch \in orphans, DbInsertOrphan(batch)
  PROVE  SerialInv'
<1> USE DEF SerialInv
<1>1. /\ rows \subseteq rows' /\ UNCHANGED <<list, durable, pending, call>>
      /\ orphans' \subseteq orphans
      /\ rows' = IF Collides(batch) THEN rows ELSE rows \cup batch
  BY DEF DbInsertOrphan
<1>2. Continues(batch) /\ batch \subseteq Entry
  BY DEF OrphansContinue, TypeOK
<1>3. TableIsChain'
  <2>1. CASE Collides(batch)
    BY <1>1, <2>1 DEF TableIsChain
  <2>2. CASE ~Collides(batch)
    BY <1>1, <1>2, <2>2, StoreKeepsChain
  <2> QED
    BY <2>1, <2>2
<1>4. TypeOK'
  BY <1>1, <1>2 DEF TypeOK
<1>5. DurableIsStored' /\ PendingIsTail' /\ OneFlush' /\ InFlight'
  BY <1>1 DEF DurableIsStored, PendingIsTail, OneFlush, InFlight
<1>6. OrphansContinue'
  BY <1>1, ContinuesGrows DEF OrphansContinue
<1> QED
  BY <1>3, <1>4, <1>5, <1>6

\* A process dies and replays the table.
LEMMA RestartSerialInv ==
  ASSUME SerialInv, NEW j \in Journal, Restart(j)
  PROVE  SerialInv'
<1> DEFINE mine == {f \in Flush : On[f] = j}
<1> USE DEF SerialInv
<1>1. PICK h \in DurableHeads : /\ list' = [list EXCEPT ![j] = h]
                                /\ durable' = [durable EXCEPT ![j] = Len(h)]
  BY DEF Restart, ReplayedDurable
<1>2. /\ pending' = [pending EXCEPT ![j] = {}]
      /\ call' = [f \in Flush |-> IF f \in mine THEN NoCall ELSE call[f]]
      /\ orphans' = orphans \cup Unanswered(mine)
      /\ UNCHANGED rows
  BY DEF Restart, ReplayedDurable
<1>3. h \in Seq(Body) /\ \A k \in 1 .. Len(h) : Prefix(h, k) \in rows
  <2>1. CASE h = Genesis
    BY <2>1, EmptySeq DEF Genesis
  <2>2. CASE h \in rows
    BY <2>2 DEF TableIsChain, TypeOK, Entry
  <2> QED
    BY <2>1, <2>2 DEF DurableHeads
<1>4. mine \in SUBSET Flush
  OBVIOUS
<1>5. /\ orphans' \in SUBSET SUBSET Entry
      /\ \A batch \in orphans' : Continues(batch)
  BY <1>2, <1>4, UnansweredContinue DEF TypeOK, OrphansContinue
<1>6. TypeOK'
  <2>1. Len(h) \in Nat
    BY <1>3, LenProperties
  <2>2. call' \in [Flush -> CallState]
    BY <1>2, NoCallType DEF TypeOK
  <2>3. list' \in [Journal -> Seq(Body)] /\ durable' \in [Journal -> Nat]
    BY <1>1, <1>3, <2>1 DEF TypeOK
  <2>4. pending' \in [Journal -> SUBSET Entry] /\ rows' \in SUBSET Entry
    BY <1>2 DEF TypeOK
  <2> QED
    BY <1>5, <2>2, <2>3, <2>4 DEF TypeOK
<1>7. DurableIsStored'
  BY <1>1, <1>2, <1>3 DEF TypeOK, DurableIsStored
<1>8. PendingIsTail'
  <2>1. durable'[j] + 1 .. Len(list'[j]) = {}
    BY <1>1, <1>3 DEF TypeOK
  <2>2. \A i \in Journal : i # j =>
          /\ pending'[i] = pending[i]
          /\ list'[i] = list[i]
          /\ durable'[i] = durable[i]
    BY <1>1, <1>2 DEF TypeOK
  <2>3. pending'[j] = {}
    BY <1>2 DEF TypeOK
  <2> QED
    BY <2>1, <2>2, <2>3 DEF PendingIsTail
<1>9. OneFlush'
  BY <1>2 DEF OneFlush, NoCall
<1>10. InFlight'
  <2>1. ASSUME NEW g \in Flush, call'[g].phase # "idle"
        PROVE  call'[g] = call[g] /\ pending'[On[g]] = pending[On[g]]
    <3>1. g \notin mine /\ call'[g] = call[g]
      BY <1>2, <2>1 DEF NoCall
    <3> QED
      BY <1>2, <3>1, OnAssumption DEF TypeOK
  <2> QED
    BY <1>2, <2>1 DEF InFlight
<1>11. TableIsChain' /\ OrphansContinue'
  <2>1. OrphansContinue'
    BY <1>2, <1>5, ContinuesGrows DEF OrphansContinue
  <2> QED
    BY <1>2, <2>1 DEF TableIsChain
<1> QED
  BY <1>6, <1>7, <1>8, <1>9, <1>10, <1>11

\* Every step of the specification preserves the invariant.
LEMMA NextSerialInv ==
  ASSUME Overlap = FALSE
  PROVE  SerialInv /\ [Next]_vars => SerialInv'
<1> SUFFICES ASSUME SerialInv, [Next]_vars PROVE SerialInv'
  OBVIOUS
<1>1. CASE \E j \in Journal, b \in Body : AppendEntry(j, b)
  BY <1>1, AppendSerialInv
<1>2. CASE \E j \in Journal : Restart(j)
  BY <1>2, RestartSerialInv
<1>3. CASE \E f \in Flush : FlushCall(f) \/ DbSelect(f) \/ SendInsert(f)
  BY <1>3, CallStepSerialInv
<1>4. CASE \E f \in Flush : DbInsert(f)
  BY <1>4, DbInsertSerialInv
<1>5. CASE \E f \in Flush : Confirm(f)
  BY <1>5, ConfirmSerialInv
<1>6. CASE \E f \in Flush : HeadMoved(f) \/ LostRace(f) \/ Fail(f)
  BY <1>6, FailingSerialInv
<1>7. CASE \E batch \in orphans : DbInsertOrphan(batch)
  BY <1>7, OrphanSerialInv
<1>8. CASE UNCHANGED vars
  BY <1>8 DEF vars, SerialInv, TypeOK, TableIsChain, DurableIsStored,
     PendingIsTail, OneFlush, InFlight, OrphansContinue, Continues
<1> QED
  BY <1>1, <1>2, <1>3, <1>4, <1>5, <1>6, <1>7, <1>8 DEF Next

-----------------------------------------------------------------------------
(* The theorems. *)

\* The strengthening holds in every reachable state.
THEOREM SerialInvariant ==
  ASSUME Overlap = FALSE
  PROVE  Spec => []SerialInv
BY InitSerialInv, NextSerialInv, PTL DEF Spec

\* Every variable keeps its type.
THEOREM TypeCorrect ==
  ASSUME Overlap = FALSE
  PROVE  Spec => []TypeOK
<1>1. SerialInv => TypeOK
  BY DEF SerialInv
<1> QED
  BY <1>1, SerialInvariant, PTL

\* Whatever races, failed calls, late INSERTs and restarts happen, the table
\* is one unforked chain: every replay verifies.
THEOREM TableStaysChain ==
  ASSUME Overlap = FALSE
  PROVE  Spec => []TableIsChain
<1>1. SerialInv => TableIsChain
  BY DEF SerialInv
<1> QED
  BY <1>1, SerialInvariant, PTL

\* What an instance shows as durable is stored.
THEOREM DurableStaysStored ==
  ASSUME Overlap = FALSE
  PROVE  Spec => []DurableIsStored
<1>1. SerialInv => DurableIsStored
  BY DEF SerialInv
<1> QED
  BY <1>1, SerialInvariant, PTL

\* No two instances disagree about the durable history: both have it from
\* the table, where a place is taken once.
THEOREM InstancesAgree ==
  ASSUME Overlap = FALSE
  PROVE  Spec => []Agreement
<1>1. SerialInv => Agreement
  <2> SUFFICES ASSUME SerialInv, NEW i \in Journal, NEW j \in Journal,
                      NEW k \in 1 .. durable[i], k <= durable[j]
               PROVE  Prefix(list[i], k) = Prefix(list[j], k)
    BY DEF Agreement
  <2> USE DEF SerialInv, TypeOK
  <2>1. Prefix(list[i], k) \in rows /\ Prefix(list[j], k) \in rows
    BY DEF DurableIsStored
  <2>2. Len(Prefix(list[i], k)) = k /\ Len(Prefix(list[j], k)) = k
    <3>1. k \in 0 .. Len(list[i]) /\ k \in 0 .. Len(list[j])
      BY DEF DurableIsStored
    <3> QED
      BY <3>1, PrefixType
  <2> QED
    BY <2>1, <2>2 DEF TableIsChain
<1> QED
  BY <1>1, SerialInvariant, PTL

-----------------------------------------------------------------------------
(* The journals implement one shared log (SharedLog). *)

\* A set of entries has a longest one: no insertion, of a batch that has one,
\* takes that from the table, though nothing here says that it is finite.
HasLongest(R) == R = {} \/ \E h \in R : \A e \in R : Len(e) <= Len(h)
LongestInv == HasLongest(rows) /\ \A batch \in orphans : HasLongest(batch)

\* The table as a value, to be spoken of before and after a step.
Chained(R) ==
  /\ \A r \in R : \A k \in 1 .. Len(r) : Prefix(r, k) \in R
  /\ \A r, q \in R : Len(r) = Len(q) => r = q
HeadsOf(R) == {h \in R \cup {Genesis} : \A r \in R : Len(r) <= Len(h)}
LogOf(R) == CHOOSE h \in HeadsOf(R) : TRUE

\* Two sets of entries that have a longest one make one that has.
LEMMA LongestOfBoth ==
  ASSUME NEW R \in SUBSET Entry, NEW S \in SUBSET Entry, HasLongest(R), HasLongest(S)
  PROVE  HasLongest(R \cup S)
<1>1. \A e \in R \cup S : Len(e) \in Nat
  BY DEF Entry
<1>2. CASE R = {} \/ S = {}
  <2>1. R \cup S = R \/ R \cup S = S
    BY <1>2
  <2> QED
    BY <2>1
<1>3. CASE R # {} /\ S # {}
  <2>1. PICK h \in R : \A e \in R : Len(e) <= Len(h)
    BY <1>3 DEF HasLongest
  <2>2. PICK g \in S : \A e \in S : Len(e) <= Len(g)
    BY <1>3 DEF HasLongest
  <2>3. CASE Len(g) <= Len(h)
    <3>1. \A e \in R \cup S : Len(e) <= Len(h)
      BY <1>1, <2>1, <2>2, <2>3
    <3> QED
      BY <3>1 DEF HasLongest
  <2>4. CASE Len(h) <= Len(g)
    <3>1. \A e \in R \cup S : Len(e) <= Len(g)
      BY <1>1, <2>1, <2>2, <2>4
    <3> QED
      BY <3>1 DEF HasLongest
  <2> QED
    BY <1>1, <2>1, <2>2, <2>3, <2>4
<1> QED
  BY <1>2, <1>3

\* A queue ends in the whole chain of its instance.
LEMMA PendingHasLongest ==
  ASSUME SerialInv, NEW j \in Journal
  PROVE  HasLongest(pending[j])
<1>1. /\ list[j] \in Seq(Body) /\ durable[j] \in Nat /\ Len(list[j]) \in Nat
      /\ pending[j] = {Prefix(list[j], k) : k \in durable[j] + 1 .. Len(list[j])}
  BY DEF SerialInv, TypeOK, PendingIsTail
<1>2. \A k \in durable[j] + 1 .. Len(list[j]) :
        Len(Prefix(list[j], k)) = k /\ k <= Len(list[j])
  BY <1>1, PrefixType
<1>3. CASE durable[j] + 1 <= Len(list[j])
  <2>1. PICK h : h = Prefix(list[j], Len(list[j]))
    OBVIOUS
  <2>2. h \in pending[j] /\ Len(h) = Len(list[j])
    BY <1>1, <1>2, <1>3, <2>1
  <2>3. \A e \in pending[j] : Len(e) <= Len(h)
    BY <1>1, <1>2, <2>2
  <2> QED
    BY <2>2, <2>3 DEF HasLongest
<1>4. CASE ~ (durable[j] + 1 <= Len(list[j]))
  <2>1. pending[j] = {}
    BY <1>1, <1>4
  <2> QED
    BY <2>1 DEF HasLongest
<1> QED
  BY <1>3, <1>4

\* What a step may add to the table or to the requests nobody waits for.
LEMMA LongestKept ==
  ASSUME SerialInv, LongestInv, [Next]_vars
  PROVE  LongestInv'
<1>1. TypeOK /\ HasLongest(rows) /\ \A batch \in orphans : HasLongest(batch)
  BY DEF SerialInv, LongestInv
<1>2. \A f \in Flush : call[f].phase = "insert" => HasLongest(call[f].batch)
  <2> SUFFICES ASSUME NEW f \in Flush, call[f].phase = "insert"
               PROVE  HasLongest(call[f].batch)
    OBVIOUS
  <2>1. call[f].batch = pending[On[f]] /\ On[f] \in Journal
    BY OnAssumption DEF SerialInv, InFlight
  <2> QED
    BY <2>1, PendingHasLongest
<1>3. rows \in SUBSET Entry /\ \A f \in Flush : call[f].batch \in SUBSET Entry
  BY <1>1 DEF TypeOK, CallState
<1>4. \A batch \in orphans : batch \in SUBSET Entry
  BY <1>1 DEF TypeOK
<1>5. \/ rows' = rows
      \/ \E f \in Flush : call[f].phase = "insert" /\ rows' = rows \cup call[f].batch
      \/ \E batch \in orphans : rows' = rows \cup batch
  BY DEF Next, vars, AppendEntry, Restart, FlushCall, DbSelect, HeadMoved, SendInsert, DbInsert,
         Confirm, LostRace, Fail, DbInsertOrphan
<1>6. orphans' \subseteq orphans \cup Unanswered(Flush)
  <2>1. \A F \in SUBSET Flush : Unanswered(F) \subseteq Unanswered(Flush)
    BY DEF Unanswered
  <2>2. ASSUME NEW f \in Flush, Fail(f) PROVE orphans' = orphans \cup Unanswered({f})
    BY <2>2 DEF Fail
  <2>3. ASSUME NEW j \in Journal, Restart(j)
        PROVE  orphans' = orphans \cup Unanswered({f \in Flush : On[f] = j})
    BY <2>3 DEF Restart
  <2>4. \/ orphans' \subseteq orphans
        \/ \E f \in Flush : Fail(f)
        \/ \E j \in Journal : Restart(j)
    BY DEF Next, vars, AppendEntry, FlushCall, DbSelect, HeadMoved, SendInsert, DbInsert,
           Confirm, LostRace, DbInsertOrphan
  <2>5. CASE \E f \in Flush : Fail(f)
    <3>1. PICK f \in Flush : orphans' = orphans \cup Unanswered({f})
      BY <2>2, <2>5
    <3>2. Unanswered({f}) \subseteq Unanswered(Flush)
      BY <2>1, {f} \in SUBSET Flush
    <3> QED
      BY <3>1, <3>2
  <2>6. CASE \E j \in Journal : Restart(j)
    <3>1. PICK j \in Journal : orphans' = orphans \cup Unanswered({f \in Flush : On[f] = j})
      BY <2>3, <2>6
    <3>2. Unanswered({f \in Flush : On[f] = j}) \subseteq Unanswered(Flush)
      BY <2>1, {f \in Flush : On[f] = j} \in SUBSET Flush
    <3> QED
      BY <3>1, <3>2
  <2> QED
    BY <2>4, <2>5, <2>6
<1>7. HasLongest(rows')
  <2>1. CASE rows' = rows
    BY <1>1, <2>1
  <2>2. CASE \E f \in Flush : call[f].phase = "insert" /\ rows' = rows \cup call[f].batch
    <3>1. PICK f \in Flush : call[f].phase = "insert" /\ rows' = rows \cup call[f].batch
      BY <2>2
    <3>2. HasLongest(rows \cup call[f].batch)
      BY <1>1, <1>2, <1>3, <3>1, LongestOfBoth
    <3> QED
      BY <3>1, <3>2
  <2>3. CASE \E batch \in orphans : rows' = rows \cup batch
    <3>1. PICK batch \in orphans : rows' = rows \cup batch
      BY <2>3
    <3>2. HasLongest(rows \cup batch)
      BY <1>1, <1>3, <1>4, LongestOfBoth
    <3> QED
      BY <3>1, <3>2
  <2> QED
    BY <1>5, <2>1, <2>2, <2>3
<1>8. ASSUME NEW batch \in orphans' PROVE HasLongest(batch)
  BY <1>1, <1>2, <1>6 DEF Unanswered
<1> QED
  BY <1>7, <1>8 DEF LongestInv, HasLongest

-----------------------------------------------------------------------------
(* The log that a table holds. *)

\* A chained table has one head, and it is the log.
LEMMA OneHead ==
  ASSUME NEW R \in SUBSET Entry, Chained(R), HasLongest(R)
  PROVE  /\ LogOf(R) \in R \cup {Genesis} /\ LogOf(R) \in Seq(Body)
         /\ \A r \in R : Len(r) <= Len(LogOf(R))
         /\ \A h \in HeadsOf(R) : h = LogOf(R)
<1>1. /\ Genesis \in Seq(Body) /\ Len(Genesis) = 0
      /\ \A e \in R : e \in Seq(Body) /\ Len(e) \in Nat /\ Len(e) > 0
  BY DEF Entry, Genesis
<1>2. HeadsOf(R) # {}
  <2>1. CASE R = {}
    BY <2>1 DEF HeadsOf
  <2>2. CASE R # {}
    BY <2>2 DEF HasLongest, HeadsOf
  <2> QED
    BY <2>1, <2>2
<1>3. LogOf(R) \in HeadsOf(R)
  BY <1>2 DEF LogOf
<1>4. ASSUME NEW g \in HeadsOf(R), NEW h \in HeadsOf(R) PROVE g = h
  <2>1. CASE g \in R /\ h \in R
    <3>1. Len(g) <= Len(h) /\ Len(h) <= Len(g)
      BY <2>1 DEF HeadsOf
    <3>2. Len(g) = Len(h)
      BY <1>1, <2>1, <3>1
    <3> QED
      BY <2>1, <3>2 DEF Chained
  <2>2. CASE g \notin R \/ h \notin R
    BY <1>1, <2>2 DEF HeadsOf
  <2> QED
    BY <2>1, <2>2
<1> QED
  BY <1>1, <1>3, <1>4 DEF HeadsOf

\* What is stored is a prefix of it.
LEMMA StoredIsPrefix ==
  ASSUME NEW R \in SUBSET Entry, Chained(R), HasLongest(R),
         NEW s \in Seq(Body), s \in R \cup {Genesis}
  PROVE  Len(s) <= Len(LogOf(R)) /\ s = Prefix(LogOf(R), Len(s))
<1>1. PICK h \in Seq(Body) : h = LogOf(R) /\ h \in R \cup {Genesis} /\ \A r \in R : Len(r) <= Len(h)
  BY OneHead
<1>2. Len(s) \in Nat /\ Len(h) \in Nat
  OBVIOUS
<1>3. CASE s = Genesis
  <2>1. Len(s) = 0 /\ Prefix(h, 0) = <<>>
    BY <1>1, <1>3, SubSeqEmpty DEF Genesis, Prefix
  <2> QED
    BY <1>1, <1>2, <1>3, <2>1 DEF Genesis
<1>4. CASE s \in R
  <2>1. Len(s) <= Len(h) /\ Len(s) > 0
    BY <1>1, <1>4 DEF Entry
  <2>2. h \in R
    BY <1>1, <1>2, <2>1 DEF Genesis
  <2>3. Len(s) \in 1 .. Len(h) /\ Len(s) \in 0 .. Len(h)
    BY <1>2, <2>1
  <2>4. Prefix(h, Len(s)) \in R /\ Len(Prefix(h, Len(s))) = Len(s)
    BY <2>2, <2>3, PrefixType DEF Chained
  <2>5. s = Prefix(h, Len(s))
    BY <1>4, <2>4 DEF Chained
  <2> QED
    BY <1>1, <2>1, <2>5
<1> QED
  BY <1>3, <1>4

\* A table that grows, and is still a chain, has a longer log or the same.
LEMMA LogGrows ==
  ASSUME NEW R \in SUBSET Entry, Chained(R), HasLongest(R),
         NEW S \in SUBSET Entry, Chained(S), HasLongest(S), R \subseteq S
  PROVE  /\ LogOf(S) \in Seq(Body)
         /\ Len(LogOf(R)) <= Len(LogOf(S)) /\ LogOf(R) = Prefix(LogOf(S), Len(LogOf(R)))
         /\ Len(LogOf(R)) = Len(LogOf(S)) => LogOf(R) = LogOf(S)
<1>1. PICK g \in Seq(Body) : g = LogOf(R) /\ g \in S \cup {Genesis}
  BY OneHead
<1>2. PICK h \in Seq(Body) : h = LogOf(S)
  BY OneHead
<1>3. Len(g) <= Len(h) /\ g = Prefix(h, Len(g))
  BY <1>1, <1>2, StoredIsPrefix
<1>4. Len(g) = Len(h) => g = h
  BY <1>3, PrefixAll
<1> QED
  BY <1>1, <1>2, <1>3, <1>4

\* The table of a state.
LEMMA StoredLogIs ==
  ASSUME SerialInv, LongestInv
  PROVE  /\ rows \in SUBSET Entry /\ Chained(rows) /\ HasLongest(rows)
         /\ StoredLog = LogOf(rows) /\ DurableHeads = HeadsOf(rows)
<1>1. rows \in SUBSET Entry /\ Chained(rows) /\ HasLongest(rows)
  BY DEF SerialInv, TypeOK, TableIsChain, Chained, LongestInv
<1>2. DurableHeads = HeadsOf(rows)
  BY DEF DurableHeads, HeadsOf
<1> QED
  BY <1>1, <1>2 DEF StoredLog, LogOf

\* What an instance shows as durable is a prefix of the log.
LEMMA ViewIsPrefix ==
  ASSUME SerialInv, LongestInv, NEW j \in Journal
  PROVE  /\ DurableView[j] \in Seq(Body) /\ Len(DurableView[j]) = durable[j]
         /\ DurableView[j] \in rows \cup {Genesis}
         /\ Log!PrefixOf(DurableView[j], StoredLog)
<1>1. /\ list[j] \in Seq(Body) /\ durable[j] \in 0 .. Len(list[j])
      /\ \A k \in 1 .. durable[j] : Prefix(list[j], k) \in rows
  BY DEF SerialInv, TypeOK, DurableIsStored
<1>2. PICK s \in Seq(Body) : s = Prefix(list[j], durable[j]) /\ Len(s) = durable[j]
  BY <1>1, PrefixType
<1>3. s \in rows \cup {Genesis}
  <2>1. CASE durable[j] = 0
    BY <1>2, <2>1, EmptySeq DEF Genesis
  <2>2. CASE durable[j] # 0
    BY <1>1, <1>2, <2>2
  <2> QED
    BY <2>1, <2>2
<1>4. Len(s) <= Len(StoredLog) /\ s = Prefix(StoredLog, Len(s))
  BY <1>3, StoredIsPrefix, StoredLogIs
<1> QED
  BY <1>2, <1>3, <1>4 DEF DurableView, Log!PrefixOf, Log!Prefix, Prefix

-----------------------------------------------------------------------------
(* Every step is one of the shared log, or none. *)

\* An instance that learns more of the log.
LEMMA ViewMoves ==
  ASSUME SerialInv, LongestInv, rows' = rows, NEW j \in Journal,
         \A i \in Journal \ {j} : DurableView'[i] = DurableView[i],
         NEW w \in Seq(Body), DurableView'[j] = w, w \in rows \cup {Genesis},
         DurableView[j] = Prefix(w, Len(DurableView[j])), Len(DurableView[j]) <= Len(w)
  PROVE  Log!LogNext
<1>1. StoredLog' = StoredLog
  BY DEF StoredLog, DurableHeads
<1>2. DurableView' = [DurableView EXCEPT ![j] = DurableView'[j]]
  BY DEF DurableView
<1>3. Len(w) <= Len(StoredLog) /\ w = Prefix(StoredLog, Len(w))
  BY StoredIsPrefix, StoredLogIs
<1>4. Log!Observe(j)
  BY <1>1, <1>2, <1>3 DEF Log!Observe, Log!PrefixOf, Log!Prefix, Prefix
<1> QED
  BY <1>4 DEF Log!LogNext

\* A table that grows makes a longer log.
LEMMA TableGrowthExtends ==
  ASSUME SerialInv, LongestInv, SerialInv', LongestInv', rows \subseteq rows',
         UNCHANGED <<list, durable>>
  PROVE  Log!LogNext \/ UNCHANGED <<StoredLog, DurableView>>
<1>1. DurableView' = DurableView
  BY DEF DurableView
<1>2. PICK S : S = rows'
  OBVIOUS
<1>3. /\ S \in SUBSET Entry /\ Chained(S) /\ HasLongest(S)
      /\ StoredLog' = LogOf(S)
  <2>1. S \in SUBSET Entry /\ Chained(S) /\ HasLongest(S)
    BY <1>2 DEF SerialInv, TypeOK, TableIsChain, Chained, LongestInv, HasLongest
  <2>2. DurableHeads' = HeadsOf(S)
    BY <1>2 DEF DurableHeads, HeadsOf
  <2> QED
    BY <2>1, <2>2 DEF StoredLog, LogOf
<1>4. /\ LogOf(S) \in Seq(Body) /\ StoredLog \in Seq(Body)
      /\ Len(StoredLog) <= Len(LogOf(S)) /\ StoredLog = Prefix(LogOf(S), Len(StoredLog))
      /\ Len(StoredLog) = Len(LogOf(S)) => StoredLog = LogOf(S)
  BY <1>2, <1>3, StoredLogIs, LogGrows, OneHead
<1>5. CASE Len(StoredLog) = Len(LogOf(S))
  BY <1>1, <1>3, <1>4, <1>5
<1>6. CASE Len(StoredLog) < Len(LogOf(S))
  <2>1. Log!Extend
    BY <1>1, <1>3, <1>4, <1>6 DEF Log!Extend, Log!PrefixOf, Log!Prefix, Prefix
  <2> QED
    BY <2>1 DEF Log!LogNext
<1>7. Len(StoredLog) \in Nat /\ Len(LogOf(S)) \in Nat
  BY <1>4
<1> QED
  BY <1>4, <1>5, <1>6, <1>7

\* A confirmed flush shows the whole chain of its instance.
LEMMA ConfirmObserves ==
  ASSUME SerialInv, LongestInv, SerialInv', NEW f \in Flush, Confirm(f)
  PROVE  Log!LogNext
<1>1. PICK j \in Journal : j = On[f]
  BY OnAssumption
<1>2. /\ durable' = [durable EXCEPT ![j] = Len(list[j])] /\ list' = list /\ rows' = rows
      /\ durable \in [Journal -> Nat] /\ list[j] \in Seq(Body)
  BY <1>1 DEF Confirm, SerialInv, TypeOK
<1>3. PICK w \in Seq(Body) : w = list[j]
  BY <1>2
<1>4. /\ \A i \in Journal \ {j} : DurableView'[i] = DurableView[i]
      /\ DurableView'[j] = Prefix(w, Len(w))
  BY <1>2, <1>3 DEF DurableView
<1>5. DurableView'[j] = w
  BY <1>4, PrefixAll
<1>6. w \in rows \cup {Genesis}
  <2>1. \A k \in 1 .. Len(w) : Prefix(w, k) \in rows
    <3>1. durable'[j] = Len(w) /\ list'[j] = w
      BY <1>2, <1>3
    <3> QED
      BY <1>2, <3>1 DEF SerialInv, DurableIsStored
  <2>2. CASE Len(w) = 0
    BY <2>2, EmptySeq DEF Genesis
  <2>3. CASE Len(w) # 0
    <3>1. Len(w) \in 1 .. Len(w)
      BY <2>3
    <3> QED
      BY <2>1, <3>1, PrefixAll
  <2> QED
    BY <2>2, <2>3
<1>7. DurableView[j] = Prefix(w, Len(DurableView[j])) /\ Len(DurableView[j]) <= Len(w)
  BY <1>3, ViewIsPrefix DEF DurableView, SerialInv, DurableIsStored
<1> QED
  BY <1>2, <1>4, <1>5, <1>6, <1>7, ViewMoves

\* A new instance shows the log.
LEMMA RestartObserves ==
  ASSUME SerialInv, LongestInv, NEW j \in Journal, Restart(j)
  PROVE  Log!LogNext
<1>1. PICK h \in DurableHeads : /\ list' = [list EXCEPT ![j] = h]
                                /\ durable' = [durable EXCEPT ![j] = Len(h)]
                                /\ rows' = rows
  BY DEF Restart, ReplayedDurable
<1>2. h = StoredLog /\ h \in Seq(Body) /\ h \in rows \cup {Genesis}
  BY <1>1, OneHead, StoredLogIs
<1>3. durable \in [Journal -> Nat] /\ list \in [Journal -> Seq(Body)]
  BY DEF SerialInv, TypeOK
<1>4. /\ \A i \in Journal \ {j} : DurableView'[i] = DurableView[i]
      /\ DurableView'[j] = Prefix(h, Len(h))
  BY <1>1, <1>3 DEF DurableView
<1>5. DurableView'[j] = h
  BY <1>2, <1>4, PrefixAll
<1>6. DurableView[j] = Prefix(h, Len(DurableView[j])) /\ Len(DurableView[j]) <= Len(h)
  BY <1>2, ViewIsPrefix DEF Log!PrefixOf, Log!Prefix, Prefix
<1> QED
  BY <1>1, <1>2, <1>4, <1>5, <1>6, ViewMoves

\* A roll back leaves what is durable.
LEMMA RollbackShowsSame ==
  ASSUME SerialInv, NEW f \in Flush, Rollback(f), UNCHANGED <<rows, durable>>
  PROVE  UNCHANGED <<StoredLog, DurableView>>
<1>1. PICK j \in Journal : j = On[f]
  BY OnAssumption
<1>2. /\ list' = [list EXCEPT ![j] = Prefix(@, durable[j])]
      /\ list \in [Journal -> Seq(Body)] /\ durable[j] \in 0 .. Len(list[j])
  BY <1>1 DEF Rollback, SerialInv, TypeOK, DurableIsStored
<1>3. Prefix(Prefix(list[j], durable[j]), durable[j]) = Prefix(list[j], durable[j])
  BY <1>2, PrefixPrefix
<1>4. \A i \in Journal : Prefix(list'[i], durable'[i]) = Prefix(list[i], durable[i])
  BY <1>2, <1>3
<1> QED
  BY <1>4 DEF DurableView, StoredLog, DurableHeads

\* What is chained is not shown.
LEMMA AppendShowsSame ==
  ASSUME SerialInv, NEW j \in Journal, NEW b \in Body, AppendEntry(j, b)
  PROVE  UNCHANGED <<StoredLog, DurableView>>
<1>1. /\ list' = [list EXCEPT ![j] = Append(@, b)] /\ durable' = durable /\ rows' = rows
      /\ list \in [Journal -> Seq(Body)] /\ durable[j] \in 0 .. Len(list[j])
  BY DEF AppendEntry, SerialInv, TypeOK, DurableIsStored
<1>2. Prefix(Append(list[j], b), durable[j]) = Prefix(list[j], durable[j])
  BY <1>1, PrefixAppend
<1>3. \A i \in Journal : Prefix(list'[i], durable'[i]) = Prefix(list[i], durable[i])
  BY <1>1, <1>2
<1> QED
  BY <1>1, <1>3 DEF DurableView, StoredLog, DurableHeads

\* The steps of the journals are steps of the shared log.
LEMMA StepImplements ==
  ASSUME Overlap = FALSE
  PROVE  SerialInv /\ LongestInv /\ [Next]_vars /\ SerialInv' /\ LongestInv'
           => [Log!LogNext]_(Log!logVars)
<1> SUFFICES ASSUME SerialInv, LongestInv, [Next]_vars, SerialInv', LongestInv'
             PROVE  Log!LogNext \/ UNCHANGED <<StoredLog, DurableView>>
  BY DEF Log!logVars
<1>1. ASSUME NEW j \in Journal, NEW b \in Body, AppendEntry(j, b)
      PROVE  UNCHANGED <<StoredLog, DurableView>>
  BY <1>1, AppendShowsSame
<1>2. ASSUME NEW j \in Journal, Restart(j) PROVE Log!LogNext
  BY <1>2, RestartObserves
<1>3. ASSUME NEW f \in Flush, FlushCall(f) \/ DbSelect(f) \/ SendInsert(f)
      PROVE  UNCHANGED <<StoredLog, DurableView>>
  <2>1. rows' = rows /\ list' = list /\ durable' = durable
    BY <1>3 DEF FlushCall, DbSelect, SendInsert
  <2> QED
    BY <2>1 DEF DurableView, StoredLog, DurableHeads
<1>4. ASSUME NEW f \in Flush, HeadMoved(f) \/ LostRace(f) \/ Fail(f)
      PROVE  UNCHANGED <<StoredLog, DurableView>>
  BY <1>4, RollbackShowsSame DEF HeadMoved, LostRace, Fail
<1>5. ASSUME NEW f \in Flush, DbInsert(f)
      PROVE  Log!LogNext \/ UNCHANGED <<StoredLog, DurableView>>
  <2>1. rows \subseteq rows' /\ UNCHANGED <<list, durable>>
    BY <1>5 DEF DbInsert
  <2> QED
    BY <2>1, TableGrowthExtends
<1>6. ASSUME NEW batch \in orphans, DbInsertOrphan(batch)
      PROVE  Log!LogNext \/ UNCHANGED <<StoredLog, DurableView>>
  <2>1. rows \subseteq rows' /\ UNCHANGED <<list, durable>>
    BY <1>6 DEF DbInsertOrphan
  <2> QED
    BY <2>1, TableGrowthExtends
<1>7. ASSUME NEW f \in Flush, Confirm(f) PROVE Log!LogNext
  BY <1>7, ConfirmObserves
<1>8. CASE UNCHANGED vars
  BY <1>8 DEF vars, DurableView, StoredLog, DurableHeads
<1> QED
  BY <1>1, <1>2, <1>3, <1>4, <1>5, <1>6, <1>7, <1>8 DEF Next

\* It starts empty, and so does every view of it.
LEMMA InitImplements == Init => LongestInv /\ Log!LogInit
<1> SUFFICES ASSUME Init PROVE LongestInv /\ Log!LogInit
  OBVIOUS
<1>1. LongestInv
  BY DEF Init, LongestInv, HasLongest
<1>2. StoredLog = <<>>
  <2>1. DurableHeads = {<<>>}
    BY DEF Init, DurableHeads, Genesis
  <2> QED
    BY <2>1 DEF StoredLog
<1>3. Prefix(<<>>, 0) = <<>>
  BY SubSeqEmpty DEF Prefix
<1>4. DurableView = [r \in Journal |-> <<>>]
  BY <1>3 DEF Init, DurableView, Genesis
<1> QED
  BY <1>1, <1>2, <1>4 DEF Log!LogInit

\* F-07: with no coroutine sharing an instance, the journals, their races, lost
\* calls, late INSERTs and restarts are one log that only grows, of which every
\* instance shows a prefix that is never taken back.
THEOREM JournalsAreOneLog ==
  ASSUME Overlap = FALSE
  PROVE  Spec => ImplementsSharedLog
<1>1. SerialInv /\ LongestInv /\ [Next]_vars => SerialInv' /\ LongestInv'
  BY NextSerialInv, LongestKept
<1> QED
  BY <1>1, InitSerialInv, InitImplements, StepImplements, PTL
  DEF Spec, ImplementsSharedLog, Log!LogSpec
=============================================================================
