----------------------------- MODULE D1Journal -----------------------------
(***************************************************************************)
(* src/store.js: MemoryJournal and its write-behind backend D1Journal.     *)
(*                                                                         *)
(* Several journal instances (one per Worker isolate or process) share one *)
(* SQL table.  append() chains an entry in memory at once; flush() makes   *)
(* the pending entries durable in two awaited calls, a SELECT of the head  *)
(* and one multi-row INSERT, so other instances, and other coroutines on   *)
(* the same instance, run between them.                                    *)
(*                                                                         *)
(* Digests.  digest_i = sha256(digest_{i-1} + canonical({type, body})): a  *)
(* digest names a whole history.  It is modelled by that history, the      *)
(* sequence of bodies up to the entry, so equal digests are equal          *)
(* histories (no collisions).  An entry IS its digest: its seq is Len - 1, *)
(* its prev is the sequence without its last element.                      *)
(***************************************************************************)
EXTENDS Naturals, Sequences

CONSTANTS
  Journal,   \* journal instances sharing the table
  Flush,     \* the flush() calls that may be running, a slot each
  On,        \* On[f] is the instance that flush f runs on
  Body,      \* what an entry may carry (its type and body)
  MaxLen,    \* bound: no history grows beyond this many entries
  Overlap    \* may an instance be used by others while it awaits a flush?

ASSUME OnAssumption == On \in [Flush -> Journal]
ASSUME MaxLenAssumption == MaxLen \in Nat
ASSUME OverlapAssumption == Overlap \in BOOLEAN

VARIABLES
  rows,      \* the table: a set of entries
  list,      \* list[j]: the in-memory chain of j, durable and pending
  durable,   \* durable[j]: how many entries of list[j] are durable
  pending,   \* pending[j]: the entries of j waiting for a flush
  call,      \* call[f]: how far flush f has come
  orphans    \* INSERTs whose caller no longer waits for the answer

vars == <<rows, list, durable, pending, call, orphans>>

Entry == Seq(Body) \ {<<>>}
Genesis == <<>>
Prefix(s, k) == SubSeq(s, 1, k)
Prev(e) == Prefix(e, Len(e) - 1)

Phase == {"idle", "select", "read", "insert", "stored", "refused"}
CallState == [phase : Phase, prev : Seq(Body), seen : Seq(Body),
              batch : SUBSET Entry]
NoCall == [phase |-> "idle", prev |-> Genesis, seen |-> Genesis, batch |-> {}]

Init == /\ rows = {}
        /\ list = [j \in Journal |-> Genesis]
        /\ durable = [j \in Journal |-> 0]
        /\ pending = [j \in Journal |-> {}]
        /\ call = [f \in Flush |-> NoCall]
        /\ orphans = {}

-----------------------------------------------------------------------------
(* The table, as D1_SCHEMA_STATEMENTS declares it. *)

\* Mutant: the schema without its keys.
CollidesUnkeyed(batch) == FALSE

\* seq INTEGER PRIMARY KEY, digest UNIQUE: an INSERT with any taken seq fails.
Collides(batch) == \E e \in batch, r \in rows : Len(e) = Len(r)

\* What "ORDER BY seq DESC LIMIT 1" may answer; genesis when there is no row.
DurableHeads == {h \in rows \cup {Genesis} : \A r \in rows : Len(r) <= Len(h)}

\* verify(): in seq order, every row's prev is the row before it.
Verifies == \A r \in rows : Len(r) > 1 => Prev(r) \in rows

-----------------------------------------------------------------------------
(* The journal's own operations. *)

\* No flush is under way on j, or the instance is shared between coroutines.
MayRun(j) == Overlap \/ \A f \in Flush : On[f] = j => call[f].phase = "idle"

\* Mutant: the entry is queued before it is chained.
AppendQueuesHead(j, b) ==
  /\ MayRun(j)
  /\ Len(list[j]) < MaxLen
  /\ list' = [list EXCEPT ![j] = Append(@, b)]
  /\ pending' = [pending EXCEPT ![j] = @ \cup {list[j]}]
  /\ UNCHANGED <<rows, durable, call, orphans>>

\* append(): chained at once, durable only after a flush.
AppendEntry(j, b) ==
  /\ MayRun(j)
  /\ Len(list[j]) < MaxLen
  /\ list' = [list EXCEPT ![j] = Append(@, b)]
  /\ pending' = [pending EXCEPT ![j] = @ \cup {Append(list[j], b)}]
  /\ UNCHANGED <<rows, durable, call, orphans>>

\* Mutant: the entries that failed stay queued for the next flush.
RollbackKeepsPending(f) ==
  LET j == On[f] IN
  /\ list' = [list EXCEPT ![j] = Prefix(@, durable[j])]
  /\ call' = [call EXCEPT ![f] = NoCall]
  /\ UNCHANGED pending

\* rollback(), as a failing flush f runs it before it throws.
Rollback(f) ==
  LET j == On[f] IN
  /\ list' = [list EXCEPT ![j] = Prefix(@, durable[j])]
  /\ pending' = [pending EXCEPT ![j] = {}]
  /\ call' = [call EXCEPT ![f] = NoCall]

\* flush() up to the first await; with nothing pending it returns at once.
FlushCall(f) ==
  /\ call[f].phase = "idle"
  /\ MayRun(On[f])
  /\ \E first \in pending[On[f]] :
       /\ \A e \in pending[On[f]] : Len(first) <= Len(e)
       /\ call' = [call EXCEPT ![f] = [NoCall EXCEPT !.phase = "select",
                                                     !.prev = Prev(first)]]
  /\ UNCHANGED <<rows, list, durable, pending, orphans>>

\* The database answers the SELECT.
DbSelect(f) ==
  /\ call[f].phase = "select"
  /\ \E h \in DurableHeads :
       call' = [call EXCEPT ![f].phase = "read", ![f].seen = h]
  /\ UNCHANGED <<rows, list, durable, pending, orphans>>

\* The head moved, or a flush that overtook this one left nothing to insert
\* (the INSERT then has no VALUES and the engine refuses it).
HeadMoved(f) ==
  /\ call[f].phase = "read"
  /\ call[f].seen # call[f].prev \/ pending[On[f]] = {}
  /\ Rollback(f)
  /\ UNCHANGED <<rows, durable, orphans>>

\* The head is the one expected: send everything that is pending NOW.
SendInsert(f) ==
  /\ call[f].phase = "read"
  /\ call[f].seen = call[f].prev
  /\ pending[On[f]] # {}
  /\ call' = [call EXCEPT ![f].phase = "insert", ![f].batch = pending[On[f]]]
  /\ UNCHANGED <<rows, list, durable, pending, orphans>>

\* Mutant: INSERT OR IGNORE, a taken seq is skipped without an error.
DbInsertOrIgnore(f) ==
  /\ call[f].phase = "insert"
  /\ call' = [call EXCEPT ![f].phase = "stored"]
  /\ rows' = IF Collides(call[f].batch) THEN rows ELSE rows \cup call[f].batch
  /\ UNCHANGED <<list, durable, pending, orphans>>

\* The database runs the INSERT: all of the rows or none.
DbInsert(f) ==
  /\ call[f].phase = "insert"
  /\ IF Collides(call[f].batch)
       THEN /\ call' = [call EXCEPT ![f].phase = "refused"]
            /\ UNCHANGED rows
       ELSE /\ call' = [call EXCEPT ![f].phase = "stored"]
            /\ rows' = rows \cup call[f].batch
  /\ UNCHANGED <<list, durable, pending, orphans>>

\* The INSERT succeeded: dequeue, and everything in memory counts as durable.
Confirm(f) ==
  LET j == On[f] IN
  /\ call[f].phase = "stored"
  /\ pending' = [pending EXCEPT ![j] = {}]
  /\ durable' = [durable EXCEPT ![j] = Len(list[j])]
  /\ call' = [call EXCEPT ![f] = NoCall]
  /\ UNCHANGED <<rows, list, orphans>>

\* The constraint fired: the race is lost, roll back and tell the caller.
LostRace(f) ==
  /\ call[f].phase = "refused"
  /\ Rollback(f)
  /\ UNCHANGED <<rows, durable, orphans>>

\* The INSERTs of these flushes that the database has not run yet.
Unanswered(F) == {call[f].batch : f \in {g \in F : call[g].phase = "insert"}}

\* An awaited call rejects without the database's answer (timeout, network):
\* the request may already have run, may run later, or never.
Fail(f) ==
  /\ call[f].phase # "idle"
  /\ Rollback(f)
  /\ orphans' = orphans \cup Unanswered({f})
  /\ UNCHANGED <<rows, durable>>

\* A request nobody waits for reaches the database after all.
DbInsertOrphan(batch) ==
  /\ batch \in orphans
  /\ orphans' = orphans \ {batch}
  /\ rows' = IF Collides(batch) THEN rows ELSE rows \cup batch
  /\ UNCHANGED <<list, durable, pending, call>>

\* Mutant: the replaying constructor leaves durable at 0.
ReplayedPending(h) == 0

\* The constructor counts every replayed row as durable.
ReplayedDurable(h) == Len(h)

\* The process of j dies, and a new instance replays the table.  The
\* constructor refuses a table that does not verify.
Restart(j) ==
  LET mine == {f \in Flush : On[f] = j} IN
  /\ Verifies
  /\ \E h \in DurableHeads :
       /\ list' = [list EXCEPT ![j] = h]
       /\ durable' = [durable EXCEPT ![j] = ReplayedDurable(h)]
  /\ pending' = [pending EXCEPT ![j] = {}]
  /\ call' = [f \in Flush |-> IF f \in mine THEN NoCall ELSE call[f]]
  /\ orphans' = orphans \cup Unanswered(mine)
  /\ UNCHANGED rows

Next ==
  \/ \E j \in Journal, b \in Body : AppendEntry(j, b)
  \/ \E j \in Journal : Restart(j)
  \/ \E f \in Flush : \/ FlushCall(f)
                      \/ DbSelect(f)
                      \/ HeadMoved(f)
                      \/ SendInsert(f)
                      \/ DbInsert(f)
                      \/ Confirm(f)
                      \/ LostRace(f)
                      \/ Fail(f)
  \/ \E batch \in orphans : DbInsertOrphan(batch)

Spec == Init /\ [][Next]_vars

-----------------------------------------------------------------------------
(* Properties. *)

\* Every variable keeps its type.
TypeOK ==
  /\ rows \in SUBSET Entry
  /\ list \in [Journal -> Seq(Body)]
  /\ durable \in [Journal -> Nat]
  /\ pending \in [Journal -> SUBSET Entry]
  /\ call \in [Flush -> CallState]
  /\ orphans \in SUBSET SUBSET Entry

\* The table is one unbroken, unforked chain, so the next replay verifies:
\* every history that ends in a row is stored in full, and no two rows hold
\* the same place.
TableIsChain ==
  /\ \A r \in rows : \A k \in 1 .. Len(r) : Prefix(r, k) \in rows
  /\ \A r, q \in rows : Len(r) = Len(q) => r = q

\* F-07: an entry is durable for its instance (visible through entries())
\* only if it really is in the table, with everything before it.
DurableIsStored ==
  \A j \in Journal : /\ durable[j] <= Len(list[j])
                     /\ \A k \in 1 .. durable[j] : Prefix(list[j], k) \in rows

\* The queue of an instance is exactly the part of its chain that is not
\* durable: nothing is sent twice, and nothing is left behind.
PendingIsTail ==
  \A j \in Journal :
    pending[j] = {Prefix(list[j], k) : k \in durable[j] + 1 .. Len(list[j])}

\* Two instances never present as durable two histories that disagree.
Agreement ==
  \A i, j \in Journal : \A k \in 1 .. durable[i] :
    k <= durable[j] => Prefix(list[i], k) = Prefix(list[j], k)

\* The comment in the catch of flush(): once the head moved, "the next append
\* re-chains against the durable head", the one the SELECT has just returned.
RechainsOnHeadSeen ==
  [][\A f \in Flush : HeadMoved(f) => list'[On[f]] = call[f].seen]_vars

-----------------------------------------------------------------------------
(* The inductive invariant, for instances used by one coroutine at a time. *)

\* At most one flush runs on an instance.
OneFlush == \A f, g \in Flush :
  On[f] = On[g] /\ call[f].phase # "idle" /\ call[g].phase # "idle" => f = g

\* While an INSERT is out its instance queues nothing else, and once the
\* database has run it the whole queue is in the table.
InFlight == \A f \in Flush :
  /\ call[f].phase \in {"insert", "stored"} => call[f].batch = pending[On[f]]
  /\ call[f].phase = "stored" => pending[On[f]] \subseteq rows

\* A batch that continues the table: what precedes each of its entries is
\* in the table or in the batch, and no two of its entries hold one place.
Continues(batch) ==
  /\ \A e \in batch : \A k \in 1 .. Len(e) : Prefix(e, k) \in batch \cup rows
  /\ \A d, e \in batch : Len(d) = Len(e) => d = e

\* Requests whose callers have given up are still harmless.
OrphansContinue == \A batch \in orphans : Continues(batch)

\* Together these are preserved by every step when Overlap is FALSE.
SerialInv == /\ TypeOK
             /\ TableIsChain
             /\ DurableIsStored
             /\ PendingIsTail
             /\ OneFlush
             /\ InFlight
             /\ OrphansContinue

-----------------------------------------------------------------------------
(* Refinement. *)

\* The longest history in the table, and what each instance shows of it.
StoredLog == CHOOSE h \in DurableHeads : TRUE
DurableView == [j \in Journal |-> Prefix(list[j], durable[j])]

\* The journals implement one shared append-only log: the table only ever
\* grows at its end, and no instance's durable view is ever taken back,
\* by races, by failed or unanswered calls, or by a restart.
Log == INSTANCE SharedLog WITH Reader <- Journal, log <- StoredLog, view <- DurableView
ImplementsSharedLog == Log!LogSpec
=============================================================================
