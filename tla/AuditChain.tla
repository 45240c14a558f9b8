----------------------------- MODULE AuditChain -----------------------------
(***************************************************************************)
(* platform/api: how a request to the API is answered, decided, applied,   *)
(* receipted and entered in the tenant's audit chain (src/lib/audit.js,    *)
(* decide() of src/handlers.js and the gateway of src/index.js).  Every    *)
(* SQL statement is awaited, so requests of one tenant interleave between  *)
(* any two of them.                                                        *)
(*                                                                         *)
(* eventHash = sha256(previousHash + canonical(event)) names a whole       *)
(* history.  A row of audit_events is modelled by that history, as the     *)
(* entries of D1Journal are: the sequence of the requests whose events it  *)
(* covers.  Its seq is Len - 1, its previousHash the rest of the sequence. *)
(***************************************************************************)
EXTENDS Naturals, Sequences

CONSTANTS
  Request,    \* the requests the clients send, retries included
  Kind,       \* Kind[r]: "write", "control" or "read", see Start
  Denied,     \* the requests a policy refuses
  Key,        \* Key[r]: its Idempotency-Key, NoKey if it sends none
  Body,       \* Body[r]: method, path and body, what requestHash covers
  NoKey,
  Faults      \* may an await reject although the database did not refuse?

ASSUME RequestAssumption ==
  /\ Kind \in [Request -> {"write", "control", "read"}]
  /\ Denied \subseteq {r \in Request : Kind[r] # "write"}
  /\ \A r \in Request : Kind[r] = "read" => Key[r] = NoKey
  /\ Faults \in BOOLEAN

VARIABLES
  rows,       \* audit_events, a set of histories
  stored,     \* rows of the other tables, and who wrote them
  phase,      \* phase[r]: the await at which r stands, or its answer
  anchor,     \* anchor[r]: auditHead of the receipt of r
  seen,       \* seen[r]: the head that appendAudit of r has read last
  tries,      \* tries[r]: the attempts appendAudit of r has begun
  late        \* writes that nobody awaits and that may still be run

vars == <<rows, stored, phase, anchor, seen, tries, late>>

Genesis == <<>>
Prefix(s, k) == SubSeq(s, 1, k)
Entry == Seq(Request) \ {Genesis}

Awaiting == {"new", "decide", "effect", "anchor", "receipt", "head", "insert",
             "done"}
Answer == {"ok", "refused", "error", "replayed", "conflict"}
Table == {"decisions", "effects", "receipts", "responses", "audit_events"}
Write == [table : Table, by : Request, row : Seq(Request)]
Row(table, r) == [table |-> table, by |-> r, row |-> Genesis]
EventRow(r) == [table |-> "audit_events", by |-> r, row |-> Append(seen[r], r)]

Init == /\ rows = {}
        /\ stored = {}
        /\ phase = [r \in Request |-> "new"]
        /\ anchor = [r \in Request |-> Genesis]
        /\ seen = [r \in Request |-> Genesis]
        /\ tries = [r \in Request |-> 0]
        /\ late = {}

\* The handler of r goes on at p.
Goes(r, p) == phase' = [phase EXCEPT ![r] = p]

-----------------------------------------------------------------------------
(* The tables. *)

\* What "ORDER BY seq DESC LIMIT 1" may answer; genesis when there is no row.
Heads == {h \in rows \cup {Genesis} : \A e \in rows : Len(e) <= Len(h)}

\* Mutant: no PRIMARY KEY (tenant_id, seq).
TakenUnkeyed(e) == FALSE

\* PRIMARY KEY (tenant_id, seq).
Taken(e) == \E f \in rows : Len(e) = Len(f)

\* The requests whose response is stored under key k: at most one, the table
\* has the key as its primary key.
Responses(k) == {r \in Request : Key[r] = k /\ Row("responses", r) \in stored}

\* Mutant: INSERT OR REPLACE, the event of another request goes.
StoreReplacing(w) ==
  IF w.table = "audit_events"
    THEN /\ rows' = {e \in rows : Len(e) # Len(w.row)} \cup {w.row}
         /\ UNCHANGED stored
    ELSE /\ stored' = stored \cup {w}
         /\ UNCHANGED rows

\* The database runs a write: a taken seq is refused, a second response to
\* one key is ignored.
Store(w) ==
  IF w.table = "audit_events"
    THEN /\ rows' = IF Taken(w.row) THEN rows ELSE rows \cup {w.row}
         /\ UNCHANGED stored
    ELSE /\ stored' = IF w.table = "responses" /\ Responses(Key[w.by]) # {}
                        THEN stored ELSE stored \cup {w}
         /\ UNCHANGED rows

-----------------------------------------------------------------------------
(* The gateway. *)

\* A change of the record, a change that is decided and receipted first
\* (subject controls), and a read that is (projection, export).
Start(r) == IF Kind[r] = "write" THEN "effect" ELSE "decide"

\* No response is stored under the key of r: its handler runs.
Begin(r) ==
  /\ phase[r] = "new"
  /\ Key[r] = NoKey \/ Responses(Key[r]) = {}
  /\ Goes(r, Start(r))
  /\ UNCHANGED <<rows, stored, anchor, seen, tries, late>>

\* The stored response answers r.
Replay(r) ==
  /\ phase[r] = "new" /\ Key[r] # NoKey
  /\ \E q \in Responses(Key[r]) : Body[q] = Body[r]
  /\ Goes(r, "replayed")
  /\ UNCHANGED <<rows, stored, anchor, seen, tries, late>>

\* The key was used for something else.
Conflict(r) ==
  /\ phase[r] = "new" /\ Key[r] # NoKey
  /\ \E q \in Responses(Key[r]) : Body[q] # Body[r]
  /\ Goes(r, "conflict")
  /\ UNCHANGED <<rows, stored, anchor, seen, tries, late>>

-----------------------------------------------------------------------------
(* The handler. *)

\* decide(): evaluate, and store the decision.
StoreDecision(r) ==
  /\ phase[r] = "decide"
  /\ Store(Row("decisions", r))
  /\ Goes(r, IF r \in Denied \/ Kind[r] = "read" THEN "anchor" ELSE "effect")
  /\ UNCHANGED <<anchor, seen, tries, late>>

\* Mutant: the change waits for no audit event.
StoreEffectUnchained(r) ==
  /\ phase[r] = "effect"
  /\ Store(Row("effects", r))
  /\ Goes(r, IF Kind[r] = "write" THEN "done" ELSE "anchor")
  /\ UNCHANGED <<anchor, seen, tries, late>>

\* The change itself.
StoreEffect(r) ==
  /\ phase[r] = "effect"
  /\ Store(Row("effects", r))
  /\ Goes(r, IF Kind[r] = "write" THEN "head" ELSE "anchor")
  /\ UNCHANGED <<anchor, seen, tries, late>>

\* Mutant: the receipt names the event that is about to be appended.
ReadAnchorAhead(r) ==
  /\ phase[r] = "anchor"
  /\ \E h \in Heads : anchor' = [anchor EXCEPT ![r] = Append(h, r)]
  /\ Goes(r, "receipt")
  /\ UNCHANGED <<rows, stored, seen, tries, late>>

\* issueReceipt(): read the head of the chain,
ReadAnchor(r) ==
  /\ phase[r] = "anchor"
  /\ \E h \in Heads : anchor' = [anchor EXCEPT ![r] = h]
  /\ Goes(r, "receipt")
  /\ UNCHANGED <<rows, stored, seen, tries, late>>

\* Mutant: a refusal is answered before it is in the chain.
StoreReceiptAndRefuse(r) ==
  /\ phase[r] = "receipt"
  /\ Store(Row("receipts", r))
  /\ Goes(r, IF r \in Denied THEN "done" ELSE "head")
  /\ UNCHANGED <<anchor, seen, tries, late>>

\* sign it into the receipt and store that.
StoreReceipt(r) ==
  /\ phase[r] = "receipt"
  /\ Store(Row("receipts", r))
  /\ Goes(r, "head")
  /\ UNCHANGED <<anchor, seen, tries, late>>

\* An attempt of appendAudit(): read the head,
ReadHead(r) ==
  /\ phase[r] = "head"
  /\ \E h \in Heads : seen' = [seen EXCEPT ![r] = h]
  /\ tries' = [tries EXCEPT ![r] = @ + 1]
  /\ Goes(r, "insert")
  /\ UNCHANGED <<rows, stored, anchor, late>>

\* Mutant: one attempt too many.
LostRaceAgain(r) == IF tries[r] = 4 THEN "error" ELSE "head"

\* Another request took the seq: again, three attempts in all.
LostRace(r) == IF tries[r] = 3 THEN "error" ELSE "head"

\* and insert the event behind it.
InsertEvent(r) ==
  /\ phase[r] = "insert"
  /\ Store(EventRow(r))
  /\ Goes(r, IF Taken(EventRow(r).row) THEN LostRace(r) ELSE "done")
  /\ UNCHANGED <<anchor, seen, tries, late>>

\* Only what the handler returned is kept for the key, not what it threw.
Keeps(r) == Key[r] # NoKey /\ r \notin Denied

\* The answer leaves; waitUntil() stores it for the key some time later.
Respond(r) ==
  /\ phase[r] = "done"
  /\ Goes(r, IF r \in Denied THEN "refused" ELSE "ok")
  /\ late' = IF Keeps(r) THEN late \cup {Row("responses", r)} ELSE late
  /\ UNCHANGED <<rows, stored, anchor, seen, tries>>

-----------------------------------------------------------------------------
(* Failures. *)

\* The write that r awaits.
UnderWay(r) == CASE phase[r] = "decide"  -> {Row("decisions", r)}
                 [] phase[r] = "effect"  -> {Row("effects", r)}
                 [] phase[r] = "receipt" -> {Row("receipts", r)}
                 [] phase[r] = "insert"  -> {EventRow(r)}
                 [] OTHER -> {}

\* Mutant: every error of the INSERT is taken for a lost race.
FailRetries(r) ==
  /\ Faults /\ phase[r] \in Awaiting
  /\ Goes(r, IF phase[r] = "insert" THEN LostRace(r) ELSE "error")
  /\ late' = late \cup UnderWay(r)
  /\ UNCHANGED <<rows, stored, anchor, seen, tries>>

\* An await of r rejects without the database's answer, or the isolate dies:
\* the client gets a 500 or nothing.  The write may still be run.
Fail(r) ==
  /\ Faults /\ phase[r] \in Awaiting
  /\ Goes(r, "error")
  /\ late' = late \cup UnderWay(r)
  /\ UNCHANGED <<rows, stored, anchor, seen, tries>>

\* The database runs a write that nobody awaits.
LateWrite(w) ==
  /\ w \in late
  /\ Store(w)
  /\ late' = late \ {w}
  /\ UNCHANGED <<phase, anchor, seen, tries>>

Next ==
  \/ \E r \in Request : \/ Begin(r)
                        \/ Replay(r)
                        \/ Conflict(r)
                        \/ StoreDecision(r)
                        \/ StoreEffect(r)
                        \/ ReadAnchor(r)
                        \/ StoreReceipt(r)
                        \/ ReadHead(r)
                        \/ InsertEvent(r)
                        \/ Respond(r)
                        \/ Fail(r)
  \/ \E w \in late : LateWrite(w)

Spec == Init /\ [][Next]_vars

-----------------------------------------------------------------------------
(* Properties. *)

\* Every variable keeps its type, and appendAudit() its three attempts.
TypeOK ==
  /\ rows \in SUBSET Entry
  /\ stored \in SUBSET Write
  /\ phase \in [Request -> Awaiting \cup Answer]
  /\ anchor \in [Request -> Seq(Request)]
  /\ seen \in [Request -> Seq(Request)]
  /\ tries \in [Request -> 0 .. 3]
  /\ late \in SUBSET Write

\* The rows of audit_events form one chain: every event's predecessors are
\* there, and no two events hold one seq.
TableIsChain ==
  /\ \A e \in rows : \A k \in 1 .. Len(e) : Prefix(e, k) \in rows
  /\ \A e, f \in rows : Len(e) = Len(f) => e = f

\* "A later chain that does not reproduce that hash at that sequence was
\* reconstructed": every receipt, also one whose request failed or whose
\* INSERT came late, names a head that is on the chain for good.
ReceiptsAreAnchored ==
  \A r \in Request : Row("receipts", r) \in stored =>
    anchor[r] \in rows \cup {Genesis}

\* The event of a request.
Event(r) == {e \in rows : e[Len(e)] = r}

\* Whatever was retried, refused or answered late, a request has at most one
\* event in the chain.
OneEventEach == \A r \in Request : \A d, e \in Event(r) : d = e

\* "There is no refusal without a durable, verifiable trace": a request that
\* was answered 403 has a stored decision, a stored receipt, and an event
\* behind the head that the receipt names.
RefusalsAreTraced ==
  \A r \in Request : phase[r] = "refused" =>
    /\ {Row("decisions", r), Row("receipts", r)} \subseteq stored
    /\ \E e \in Event(r) : /\ Len(anchor[r]) < Len(e)
                           /\ anchor[r] = Prefix(e, Len(anchor[r]))

\* A request that was answered with success, or by replaying the answer of
\* another, has changed what it says and its event is in the chain.
SuccessIsTraced ==
  \A r \in Request : phase[r] \in {"ok", "replayed"} =>
    \E q \in {r} \cup {p \in Request : Key[p] = Key[r] /\ Body[p] = Body[r]} :
      /\ phase[q] = "ok" /\ Event(q) # {}
      /\ Kind[q] # "read" => Row("effects", q) \in stored

\* README of the API: every mutation appends an event.  A change whose
\* request is over, and none of whose writes is still under way, has one.
ChangesAreChained ==
  \A r \in Request :
    Row("effects", r) \in stored /\ phase[r] \in Answer /\ late = {}
      => Event(r) # {}

\* Comment of the gateway: "same key + same body replays the stored
\* response".  Once a client has its answer, a repetition of the request is
\* not executed again.
RepeatIsReplayed ==
  [][\A r, q \in Request :
       /\ Key[r] = Key[q] /\ Key[r] # NoKey /\ Body[r] = Body[q]
       /\ phase[q] = "ok" /\ phase[r] = "new"
         => phase'[r] \in {"new", "replayed", "error"}]_vars

-----------------------------------------------------------------------------
(* The inductive invariant. *)

\* Heads once read, and the predecessors of late events, are on the chain.
HeadsAreRows ==
  /\ \A r \in Request : {anchor[r], seen[r]} \subseteq rows \cup {Genesis}
  /\ \A w \in late : w.table = "audit_events" =>
       \E h \in rows \cup {Genesis} : w.row = Append(h, w.by)

\* Before its INSERT has run or has failed, no event of r is anywhere.
Unwritten ==
  \A r \in Request : phase[r] \in Awaiting \ {"done"} =>
    /\ Event(r) = {}
    /\ \A w \in late : w.by = r => w.table # "audit_events"

\* A late event is the only one of its request.
LateIsOnly ==
  \A w \in late : w.table = "audit_events" =>
    /\ Event(w.by) = {}
    /\ \A v \in late : v.table = "audit_events" /\ v.by = w.by => v = w

\* An attempt of appendAudit() is left whenever the head is about to be read.
AttemptIsLeft ==
  \A r \in Request : phase[r] \in Awaiting \ {"insert", "done"} => tries[r] < 3

\* What a request has stored by the time it stands at phase[r].
Progress ==
  \A r \in Request :
    /\ Kind[r] = "write" => phase[r] \notin {"decide", "anchor", "receipt"}
    /\ Kind[r] # "write" /\ phase[r] \in Awaiting \ {"new", "decide"}
         => Row("decisions", r) \in stored
    /\ Kind[r] # "write" /\ phase[r] \in {"head", "insert", "done"}
         => Row("receipts", r) \in stored
    /\ Kind[r] # "write" /\ phase[r] = "insert"
         => /\ Len(anchor[r]) <= Len(seen[r])
            /\ anchor[r] = Prefix(seen[r], Len(anchor[r]))
    /\ Kind[r] # "read" /\ r \notin Denied /\ phase[r] \in {"head", "insert", "done", "ok"}
         => Row("effects", r) \in stored
    /\ Kind[r] = "control" /\ r \notin Denied /\ phase[r] \in {"anchor", "receipt"}
         => Row("effects", r) \in stored
    /\ phase[r] = "ok" => r \notin Denied
    /\ phase[r] \in {"done", "ok"} => Event(r) # {}
    /\ phase[r] = "done" /\ r \in Denied
         => \E e \in Event(r) : /\ Len(anchor[r]) < Len(e)
                                /\ anchor[r] = Prefix(e, Len(anchor[r]))

\* Stored responses, and those about to be, are those of successful requests.
ResponsesAreAnswers ==
  \A w \in stored \cup late : w.table = "responses" =>
    w = Row("responses", w.by) /\ phase[w.by] = "ok"

\* Whoever was given another's answer was given a successful one.
ReplaysAreAnswers ==
  \A r \in Request : phase[r] = "replayed" =>
    \E q \in Request : Key[q] = Key[r] /\ Body[q] = Body[r] /\ phase[q] = "ok"

\* Together these are preserved by every step.
AuditInv == /\ TypeOK
            /\ TableIsChain
            /\ HeadsAreRows
            /\ Unwritten
            /\ LateIsOnly
            /\ AttemptIsLeft
            /\ OneEventEach
            /\ Progress
            /\ RefusalsAreTraced
            /\ ResponsesAreAnswers
            /\ ReplaysAreAnswers

-----------------------------------------------------------------------------
(* Refinement. *)

\* The audit chain is a shared log; its readers are the holders of receipts,
\* for each of whom the chain up to the receipt's head is fixed.
ChainLog == CHOOSE h \in Heads : TRUE
ReceiptView == [r \in Request |->
                  IF Row("receipts", r) \in stored THEN anchor[r] ELSE Genesis]
Log == INSTANCE SharedLog WITH Body <- Request, Reader <- Request,
                               log <- ChainLog, view <- ReceiptView
ImplementsSharedLog == Log!LogSpec
=============================================================================
