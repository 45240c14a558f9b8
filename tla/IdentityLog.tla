---------------------------- MODULE IdentityLog ----------------------------
(***************************************************************************)
(* src/graph.js: the identity graph of one actor as a fold over its events *)
(* in the order of their time stamps, and the key status that receipts are *)
(* verified against (src/sign.js).                                         *)
(*                                                                         *)
(* Time stamps are inputs: an event may carry any, whenever it is          *)
(* appended.  An authority event that its grantor's registered key does    *)
(* not verify throws and changes nothing; the events here are the others.  *)
(* What a rollback of the journal takes back is in StatementCommit.        *)
(***************************************************************************)
EXTENDS Naturals, Sequences, FiniteSets, SequencesExt

CONSTANTS
  Value,        \* values of one dimension
  Parent,       \* Parent[v]: the broader value, or TopValue
  TopValue,
  PromoteAfter, \* anchored observations a candidate for promotion needs
  MaxAt,        \* bound: time stamps
  MaxEvents     \* bound: length of the log

ASSUME LogAssumption ==
  /\ TopValue \notin Value /\ Parent \in [Value -> Value \cup {TopValue}]
  /\ PromoteAfter \in Nat /\ MaxAt \in Nat /\ MaxEvents \in Nat

VARIABLES
  events,   \* GraphRuntime.events
  cache     \* GraphRuntime._cache: a projection, or none

logVars == <<events, cache>>

At == 0 .. MaxAt
Now == MaxAt + 1             \* no asOf: every event counts
NoCache == [none |-> TRUE]

\* grant(), revoke(), observe() with a class, bindKey() and revokeKey(), for
\* one role and one key of the actor.
GrantEvent == [kind : {"grant", "revoke"}, at : At, value : Value, role : BOOLEAN]
ObserveEvent == [kind : {"observe"}, at : At, value : Value, anchored : BOOLEAN]
KeyEvent ==
  [kind : {"key", "rotated"}, at : At] \cup [kind : {"compromised"}, at : At, from : At]
Event == GrantEvent \cup ObserveEvent \cup KeyEvent

LogInit == events = <<>> /\ cache = NoCache

-----------------------------------------------------------------------------
(* The projection. *)

InsertionOrder(log, i, j) == i < j   \* Mutant: the time stamps are not looked at.
\* By time stamp, then by place in the log.
Before(log, i, j) == log[i].at < log[j].at \/ (log[i].at = log[j].at /\ i < j)
Latest(log, places) ==
  CHOOSE i \in places : \A j \in places \ {i} : Before(log, j, i)
\* The events at some places, one after the other in that order.
FoldInTime(step(_, _), first, log, places) ==
  LET after[i \in places] ==
        LET earlier == {j \in places : Before(log, j, i)}
        IN step(IF earlier = {} THEN first ELSE after[Latest(log, earlier)], log[i])
  IN IF places = {} THEN first ELSE after[Latest(log, places)]

Blank == [granted |-> {}, role |-> FALSE, keyed |-> FALSE,
          ai |-> [v \in Value |-> 0], anchored |-> [v \in Value |-> 0]]
Fold(state, ev) ==
  CASE ev.kind = "grant" ->
         [state EXCEPT !.granted = @ \cup {ev.value}, !.role = @ \/ ev.role]
    [] ev.kind = "revoke" ->
         [state EXCEPT !.granted = @ \ {ev.value}, !.role = @ /\ ~ev.role]
    [] ev.kind = "observe" ->
         IF ev.anchored THEN [state EXCEPT !.anchored[ev.value] = @ + 1]
         ELSE [state EXCEPT !.ai[ev.value] = @ + 1]
    [] ev.kind = "key" -> [state EXCEPT !.keyed = TRUE]
    [] OTHER -> [state EXCEPT !.keyed = FALSE]
Heard(log, limit) == {i \in DOMAIN log : log[i].at <= limit}
ProjectAt(log, limit) == FoldInTime(Fold, Blank, log, Heard(log, limit))

\* covers(): the value or any of its ancestors.
AncestorsOf(v) ==
  LET up[n \in 0 .. Cardinality(Value)] ==
        IF n = 0 THEN {v} ELSE up[n - 1] \cup ({Parent[w] : w \in up[n - 1]} \ {TopValue})
  IN up[Cardinality(Value)]
Covers(granted, v) == AncestorsOf(v) \cap granted # {}

\* authorize() of a boundary with one value, resolve() with the role, and the
\* candidates that promotions() calls eligible.
Authorize(state, v) == Covers(state.granted, v)
Resolve(state) == state.role
Eligible(state) ==
  {v \in Value : /\ ~Covers(state.granted, v)
                 /\ state.anchored[v] > 0 /\ state.anchored[v] >= PromoteAfter}

OfKey(log) == {i \in DOMAIN log : log[i].kind \in {"key", "rotated", "compromised"}}
KeyStatusAsOf(log, t) ==   \* Mutant: the projection as of t, which has not heard of a later report.
  LET keys == OfKey(log) \cap Heard(log, t)
      last == IF keys = {} THEN "none" ELSE log[Latest(log, keys)].kind
  IN [active |-> last = "key", compromised |-> last = "compromised"]
NoStatus == [active |-> FALSE, compromised |-> FALSE]
KeyStep(status, ev, t) ==
  CASE ev.kind = "key" /\ ev.at <= t -> [status EXCEPT !.active = TRUE]
    [] ev.kind = "rotated" /\ ev.at <= t -> [status EXCEPT !.active = FALSE]
    [] ev.kind = "compromised" /\ ev.from <= t -> [status EXCEPT !.compromised = TRUE]
    [] OTHER -> status
\* keyStatus(): the whole log, whatever the time it is asked about.
KeyStatus(log, t) ==
  LET end == FoldInTime(LAMBDA status, ev : KeyStep(status, ev, t), NoStatus, log, OfKey(log))
  IN [end EXCEPT !.active = end.active /\ ~end.compromised]
\* verifyTraceReceipt() against the graph, for a trace finished at t.
ReceiptVerifies(log, t) == KeyStatus(log, t).active

-----------------------------------------------------------------------------
AppendEvent ==
  /\ Len(events) < MaxEvents
  /\ \E ev \in Event : events' = Append(events, ev)
  /\ cache' = NoCache
\* A caller asks for the current state.
ProjectNow ==
  /\ cache = NoCache
  /\ cache' = ProjectAt(events, Now)
  /\ UNCHANGED events
\* A new GraphRuntime over the same journal.
Reopen == cache' = NoCache /\ UNCHANGED events
LogNext == AppendEvent \/ ProjectNow \/ Reopen

LogSpec == LogInit /\ [][LogNext]_logVars

-----------------------------------------------------------------------------
(* Properties. *)

\* The kind of the event that has the last word among those at some places.
LastWord(log, places) ==
  IF places = {} THEN "none"
  ELSE log[CHOOSE i \in places : \A j \in places :
             log[j].at < log[i].at \/ (log[j].at = log[i].at /\ j <= i)].kind
Authorities(log, places) == {i \in places : log[i].kind \in {"grant", "revoke"}}
OfValue(log, places, v) == {i \in Authorities(log, places) : log[i].value = v}
OfRole(log, places) == {i \in Authorities(log, places) : log[i].role}
AnchoredOf(log, places, v) ==
  {i \in places : log[i].kind = "observe" /\ log[i].value = v /\ log[i].anchored}

\* A value is authorised at a time exactly if, for it or one of its ancestors,
\* the last grant or revocation by then is a grant, however events were ordered
\* when they were appended; likewise the role.  Observations, of any number and
\* class, change none of that, and those of the ai class make nothing eligible.
ProjectionIsLastWord ==
  \A t \in At \cup {Now} :
    LET state == ProjectAt(events, t)
        heard == Heard(events, t)
    IN
    /\ \A v \in Value : Authorize(state, v) <=>
         \E w \in AncestorsOf(v) : LastWord(events, OfValue(events, heard, w)) = "grant"
    /\ Resolve(state) <=> LastWord(events, OfRole(events, heard)) = "grant"
    /\ \A v \in Eligible(state) :
         /\ ~Authorize(state, v)
         /\ PromoteAfter <= Cardinality(AnchoredOf(events, heard, v))

\* What callers are served is the fold of the log as it is, never an earlier one.
CacheIsFresh == cache # NoCache => cache = ProjectAt(events, Now)

LogInv == ProjectionIsLastWord /\ CacheIsFresh

\* An event changes nothing about the times before its own, but for a
\* compromise, which reaches back to where it says it began and is never
\* undone.  So a receipt that verified fails later only for a compromise, or a
\* rotation dated back; and one that failed verifies later only for a binding
\* dated back, which no rotation or compromise after it forbids.
PastIsStable ==
  [][Len(events') > Len(events) =>
      LET ev == Last(events') IN
      \A t \in At :
        /\ ev.at > t => ProjectAt(events', t) = ProjectAt(events, t)
        /\ KeyStatus(events, t).compromised => KeyStatus(events', t).compromised
        /\ ReceiptVerifies(events, t) /\ ~ReceiptVerifies(events', t) =>
             \/ ev.kind = "compromised" /\ ev.from <= t
             \/ ev.kind = "rotated" /\ ev.at <= t
        /\ ~ReceiptVerifies(events, t) /\ ReceiptVerifies(events', t) =>
             /\ ev.kind = "key" /\ ev.at <= t
             /\ ~ \E i \in DOMAIN events :
                    \/ events[i].kind = "rotated" /\ events[i].at \in ev.at + 1 .. t
                    \/ events[i].kind = "compromised" /\ events[i].from <= t]_logVars

=============================================================================
