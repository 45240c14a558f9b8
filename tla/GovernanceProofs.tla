--------------------------- MODULE GovernanceProofs ---------------------------
(***************************************************************************)
(* Calls of tools are traced before they are answered, for any number of   *)
(* calls, processes and flaws; what a model answers is taken only where it *)
(* is governed, for any vocabulary, tokenizer and number of extractions;   *)
(* and statements inherit within the cap, with every inheritance counted,  *)
(* for any programs that run side by side.  The identity graph and the     *)
(* status of a key say what their last events say, for logs of any length. *)
(*                                                                         *)
(* CallsInv is not inductive: that an answered call can be read from the   *)
(* table depends on how far a flush is, on its being the only one, and on  *)
(* the queue being the rest of the list.  Unshared says so; it is claimed  *)
(* only while no two appends have shared a process.                        *)
(*                                                                         *)
(* DecodeInv is not inductive: a value that is taken later was asked for   *)
(* under what is admissible now, so every open extraction keeps what it    *)
(* was asked for, and a seal stands for the trace it was computed from.    *)
(*                                                                         *)
(* DerivationInv is not inductive: a chain is as long as the depths its    *)
(* traces carry, so a trace's depth is that of what it read, and what a    *)
(* program has read and looked for before it computes still stands when it *)
(* writes.  That the depths are the lengths of chains is an induction over *)
(* the journal, which has no step in the run: HopsAreDepths does it with   *)
(* the least counterexample (NatMin).                                      *)
(*                                                                         *)
(* LogInv is about folds over the order of time stamps, so LogInd is only  *)
(* that the cache is a projection of the log; the rest is about every log. *)
(* A fold is one function over its places, which exists (FoldExists) and   *)
(* whose last value every event before it can be read from (FoldTells).    *)
(***************************************************************************)
EXTENDS GovernedCalls, GovernedDecode, Derivation, IdentityLog, FiniteSetTheorems,
        SequenceTheorems, WellFoundedInduction, TLAPS

(* Calls of tools (GovernedCalls).                                         *)

Known == effects \cup {c \in ToolCall : tc[c].at = "refused"}
CallAt == {"idle", "refused", "tool", "answered", "failed", "gone"} \cup Flushing
CallState == [at : CallAt, prev : Seq(ToolCall), batch : SUBSET Seq(ToolCall)]

CallShapes ==
  /\ list \in Seq(ToolCall) /\ durable \in 0 .. Len(list)
  /\ table \subseteq Seq(ToolCall) /\ queue \subseteq Seq(ToolCall)
  /\ staged \subseteq effects /\ visible \subseteq effects /\ effects \subseteq ToolCall
  /\ tc \in [ToolCall -> CallState]
  /\ shared \in BOOLEAN /\ flaws \in Nat

\* A call has run its tool unless it waits or was refused, and only calls that
\* ran or were refused are in an entry, wherever the entry is held.
OnlyKnown ==
  /\ \A c \in ToolCall : c \in effects <=> tc[c].at \notin {"idle", "refused"}
  /\ Range(list) \subseteq Known
  /\ \A r \in table : Range(r) \subseteq Known
  /\ \A r \in queue : Range(r) \subseteq Known
  /\ \A c \in ToolCall : \A r \in tc[c].batch : Range(r) \subseteq Known

\* The table is closed under prefixes and holds the durable part of the list;
\* the queue is the rest of the list, and what is staged is on the list.
TableHoldsList ==
  /\ \A r \in table : \A n \in 1 .. Len(r) : SubSeq(r, 1, n) \in table
  /\ \A n \in 1 .. durable : SubSeq(list, 1, n) \in table
  /\ queue = {SubSeq(list, 1, n) : n \in durable + 1 .. Len(list)}
  /\ staged \subseteq Range(list)

\* One flush is under way, of what is queued now.
FlushIsAlone ==
  /\ \A c, o \in ToolCall : tc[c].at \in Flushing /\ tc[o].at \in Flushing => c = o
  /\ \A c \in ToolCall : tc[c].at \in Flushing =>
       /\ c \in Range(list) /\ durable < Len(list)
       /\ tc[c].at = "select" => tc[c].prev = SubSeq(list, 1, durable)
       /\ tc[c].at = "insert" => /\ tc[c].batch = queue
                                 /\ \A r \in table : Len(r) <= durable
       /\ tc[c].at = "stored" => queue \subseteq table

AnsweredIsStored ==
  /\ visible \subseteq InTable
  /\ \A c \in ToolCall : tc[c].at = "answered" => c \in InTable

\* Without a fault nothing is lost, and only a flush about to answer has rows
\* in the table that memory does not count as durable.
FaultlessKeeps ==
  flaws = 0 =>
    /\ \A c \in ToolCall : tc[c].at = "refused" => c \in Range(list)
    /\ \A r \in table : Len(r) <= Len(list)
    /\ \A r \in table : Len(r) <= durable \/ \E c \in ToolCall : tc[c].at = "stored"

Unshared == TableHoldsList /\ FlushIsAlone /\ AnsweredIsStored /\ FaultlessKeeps
CallsInd == CallShapes /\ OnlyKnown /\ (~shared => Unshared)

-----------------------------------------------------------------------------
(* Beginnings of a sequence. *)

\* A beginning is a sequence of the length asked for.
LEMMA PartType ==
  ASSUME NEW S, NEW s \in Seq(S), NEW k \in 0 .. Len(s)
  PROVE  /\ SubSeq(s, 1, k) \in Seq(S)
         /\ Len(SubSeq(s, 1, k)) = k
         /\ \A i \in 1 .. k : SubSeq(s, 1, k)[i] = s[i]
<1>1. Len(s) \in Nat /\ \A i \in 1 .. k : s[i] \in S
  BY LenProperties
<1>2. k \in Int /\ 1 \in Int /\ k - 1 + 1 = k /\ (1 <= k \/ k = 0)
  BY <1>1
<1>3. \A i \in 1 .. k : 1 + i - 1 = i
  OBVIOUS
<1> QED
  BY <1>1, <1>2, <1>3, SubSeqProperties

\* A beginning of a beginning is a beginning.
LEMMA PartOfPart ==
  ASSUME NEW S, NEW s \in Seq(S), NEW n \in 0 .. Len(s), NEW k \in 0 .. n
  PROVE  SubSeq(SubSeq(s, 1, n), 1, k) = SubSeq(s, 1, k)
<1> Len(s) \in Nat
  BY LenProperties
<1>1. CASE k = 0
  BY <1>1, SubSeqEmpty
<1>2. CASE k # 0
  BY <1>2, SubSeqOfSubSeq, 1 \in 1 .. Len(s), n \in 1 .. Len(s),
     1 \in 1 .. n - 1 + 1, k \in 1 .. n - 1 + 1
<1> QED
  BY <1>1, <1>2

\* Appending leaves every beginning alone.
LEMMA PartOfAppend ==
  ASSUME NEW S, NEW s \in Seq(S), NEW e \in S, NEW k \in 0 .. Len(s)
  PROVE  SubSeq(Append(s, e), 1, k) = SubSeq(s, 1, k)
<1> Len(s) \in Nat
  BY LenProperties
<1>1. Append(s, e) = s \o <<e>> /\ <<e>> \in Seq(S)
  BY AppendIsConcat
<1>2. CASE k = 0
  BY <1>2, SubSeqEmpty
<1>3. CASE k # 0
  BY <1>1, <1>3, SubSeqOfConcat1, 1 \in 1 .. Len(s), k \in 1 .. Len(s)
<1> QED
  BY <1>2, <1>3

\* What is in a beginning is in the whole; appending adds one element.
LEMMA PartRange ==
  ASSUME NEW S, NEW s \in Seq(S), NEW k \in 0 .. Len(s)
  PROVE  Range(SubSeq(s, 1, k)) \subseteq Range(s)
<1>1. Range(SubSeq(s, 1, k)) = {SubSeq(s, 1, k)[i] : i \in 1 .. k}
  <2>1. SubSeq(s, 1, k) \in Seq(S) /\ Len(SubSeq(s, 1, k)) = k
    BY PartType
  <2> QED
    BY <2>1, RangeEquality
<1>2. Range(s) = {s[i] : i \in 1 .. Len(s)}
  BY RangeEquality
<1>3. 1 .. k \subseteq 1 .. Len(s)
  BY LenProperties
<1> QED
  BY <1>1, <1>2, <1>3, PartType

\* An appended sequence has one more element.
LEMMA AppendRange ==
  ASSUME NEW S, NEW s \in Seq(S), NEW e \in S
  PROVE  Range(Append(s, e)) = Range(s) \cup {e}
<1>1. /\ Append(s, e) \in Seq(S) /\ Len(Append(s, e)) = Len(s) + 1
      /\ \A i \in 1 .. Len(s) : Append(s, e)[i] = s[i]
      /\ Append(s, e)[Len(s) + 1] = e
  BY AppendProperties
<1>2. Range(Append(s, e)) = {Append(s, e)[i] : i \in 1 .. Len(s) + 1}
  BY <1>1, RangeEquality
<1>3. Range(s) = {s[i] : i \in 1 .. Len(s)}
  BY RangeEquality
<1>4. 1 .. Len(s) + 1 = (1 .. Len(s)) \cup {Len(s) + 1}
  BY LenProperties
<1> QED
  BY <1>1, <1>2, <1>3, <1>4

\* Without its last element, a beginning is the beginning one shorter.
LEMMA FrontOfPart ==
  ASSUME NEW S, NEW s \in Seq(S), NEW k \in 0 .. Len(s) - 1
  PROVE  Front(SubSeq(s, 1, k + 1)) = SubSeq(s, 1, k)
<1>1. Len(s) \in Nat /\ k + 1 \in 0 .. Len(s) /\ k \in 0 .. k + 1
  BY LenProperties
<1>2. Len(SubSeq(s, 1, k + 1)) - 1 = k
  BY <1>1, PartType
<1>3. SubSeq(SubSeq(s, 1, k + 1), 1, k) = SubSeq(s, 1, k)
  BY <1>1, PartOfPart
<1> QED
  BY <1>2, <1>3 DEF Front

\* Every set of numbers has a least one.
Below == {ss \in Nat \X Nat : ss[1] < ss[2]}

\* A set of naturals that is not empty has a least one.
LEMMA LeastNumber ==
  ASSUME NEW T \in SUBSET Nat, T # {}
  PROVE  \E x \in T : \A y \in T : x <= y
<1>1. IsWellFoundedOn(Below, Nat)
  BY NatLessThanWellFounded, Zenon DEF OpToRel, Below
<1>2. PICK x \in T : \A y \in T : ~ (<<y, x>> \in Below)
  BY <1>1, WFMin
<1>3. ASSUME NEW y \in T PROVE x <= y
  <2>1. x \in Nat /\ y \in Nat /\ <<y, x>> \in Nat \X Nat /\ ~ (<<y, x>> \in Below)
    BY <1>2
  <2>2. ~ (y < x)
    BY <2>1 DEF Below
  <2> QED
    BY <2>1, <2>2
<1> QED
  BY <1>3

\* Some sequence of a set is the shortest.
LEMMA SomeIsShortest ==
  ASSUME NEW S, NEW Q \in SUBSET Seq(S), Q # {}
  PROVE  \E e \in Q : \A o \in Q : Len(e) <= Len(o)
<1> DEFINE T == {Len(e) : e \in Q}
<1>1. T \in SUBSET Nat /\ T # {}
  BY LenProperties
<1>2. \E x \in T : \A y \in T : x <= y
  <2> HIDE DEF T
  <2> QED
    BY <1>1, LeastNumber
<1> QED
  BY <1>2

-----------------------------------------------------------------------------
(* The steps, one part of the invariant at a time. *)

\* What an append does to the list and the queue.
LEMMA AppendBodyFacts ==
  ASSUME CallShapes, NEW c \in ToolCall, AppendBody(c)
  PROVE  /\ list' \in Seq(ToolCall) /\ Len(list') = Len(list) + 1
         /\ Range(list') = Range(list) \cup {c}
         /\ queue' = queue \cup {list'}
         /\ shared' \in BOOLEAN
         /\ ~shared' => ~shared /\ \A o \in ToolCall : tc[o].at \notin Flushing
<1>1. list' = Append(list, c) /\ list \in Seq(ToolCall)
  BY DEF AppendBody, CallShapes
<1>2. /\ list' \in Seq(ToolCall) /\ Len(list') = Len(list) + 1
      /\ Range(list') = Range(list) \cup {c}
  BY <1>1, AppendProperties, AppendRange
<1> QED
  BY <1>2 DEF AppendBody, CallShapes

\* The queue stays the rest of the list.
LEMMA AppendBodyQueue ==
  ASSUME CallShapes, TableHoldsList, NEW c \in ToolCall, AppendBody(c), UNCHANGED durable
  PROVE  /\ \A n \in 0 .. Len(list) : SubSeq(list', 1, n) = SubSeq(list, 1, n)
         /\ queue' = {SubSeq(list', 1, n) : n \in durable + 1 .. Len(list')}
<1>1. list' = Append(list, c) /\ list' \in Seq(ToolCall) /\ Len(list') = Len(list) + 1
  BY AppendBodyFacts DEF AppendBody
<1>2. list \in Seq(ToolCall) /\ durable \in 0 .. Len(list) /\ Len(list) \in Nat
  BY LenProperties DEF CallShapes
<1>3. \A n \in 0 .. Len(list) : SubSeq(list', 1, n) = SubSeq(list, 1, n)
  BY <1>1, <1>2, PartOfAppend
<1>4. SubSeq(list', 1, Len(list')) = list'
  BY <1>1, SubSeqFull
<1>5. queue = {SubSeq(list', 1, n) : n \in durable + 1 .. Len(list)}
  <2>1. \A n \in durable + 1 .. Len(list) : SubSeq(list', 1, n) = SubSeq(list, 1, n)
    BY <1>2, <1>3
  <2> QED
    BY <2>1 DEF TableHoldsList
<1>6. durable + 1 .. Len(list') = (durable + 1 .. Len(list)) \cup {Len(list')}
  BY <1>1, <1>2
<1>7. queue' = queue \cup {list'}
  BY DEF AppendBody
<1> QED
  BY <1>3, <1>4, <1>5, <1>6, <1>7

\* A flush that throws leaves the durable part of the list.
LEMMA FlushThrowsFacts ==
  ASSUME CallShapes, NEW c \in ToolCall, FlushThrows(c)
  PROVE  /\ list' = SubSeq(list, 1, durable) /\ list' \in Seq(ToolCall) /\ Len(list') = durable
         /\ Range(list') \subseteq Range(list)
         /\ queue' = {} /\ staged' = {} /\ durable' = durable
         /\ tc' = [tc EXCEPT ![c].at = "failed"]
BY PartType, PartRange DEF FlushThrows, CallShapes

\* The head the flush expects is a sequence.
LEMMA FirstQueuedType ==
  ASSUME NEW Q \in SUBSET Seq(ToolCall), Q # {},
         NEW e, e = CHOOSE x \in Q : \A o \in Q : Len(x) <= Len(o)
  PROVE  e \in Q /\ \A o \in Q : Len(e) <= Len(o)
BY SomeIsShortest

\* What is before the last entry is a sequence of calls too.
LEMMA FrontType ==
  ASSUME NEW S, NEW s \in Seq(S)
  PROVE  Front(s) \in Seq(S)
<1>1. Len(s) \in Nat /\ \A i \in 1 .. Len(s) - 1 : s[i] \in S
  BY LenProperties
<1> QED
  BY <1>1, SubSeqProperties DEF Front

\* Before the first call nothing is stored or under way.
LEMMA CallsInitInd == CallsInit => CallsInd
<1> SUFFICES ASSUME CallsInit PROVE CallsInd
  OBVIOUS
<1>1. <<>> \in Seq(ToolCall) /\ Len(<<>>) = 0
  BY EmptySeq
<1>2. CallShapes
  <2>1. NoToolCall \in CallState
    BY <1>1 DEF NoToolCall, CallState, CallAt
  <2>2. tc \in [ToolCall -> CallState] /\ durable \in 0 .. Len(list)
    BY <1>1, <2>1 DEF CallsInit
  <2> QED
    BY <1>1, <2>2 DEF CallShapes, CallsInit
<1>3. Range(<<>>) = {}
  BY DEF Range
<1>4. OnlyKnown
  BY <1>3 DEF OnlyKnown, CallsInit, NoToolCall
<1>5. TableHoldsList
  BY <1>1, <1>3 DEF TableHoldsList, CallsInit
<1>6. FlushIsAlone
  BY DEF FlushIsAlone, CallsInit, NoToolCall, Flushing
<1>7. AnsweredIsStored /\ FaultlessKeeps
  BY DEF AnsweredIsStored, FaultlessKeeps, CallsInit, NoToolCall
<1> QED
  BY <1>2, <1>4, <1>5, <1>6, <1>7 DEF CallsInd, Unshared

\* A call that moves is still a call.
LEMMA CallMoves ==
  ASSUME tc \in [ToolCall -> CallState], NEW c \in ToolCall, NEW at \in CallAt
  PROVE  [tc EXCEPT ![c].at = at] \in [ToolCall -> CallState]
BY DEF CallState

\* The same, with the head the call has read.
LEMMA CallMovesPrev ==
  ASSUME tc \in [ToolCall -> CallState], NEW c \in ToolCall, NEW at \in CallAt,
         NEW prev \in Seq(ToolCall)
  PROVE  [tc EXCEPT ![c].at = at, ![c].prev = prev] \in [ToolCall -> CallState]
BY DEF CallState

\* The same, with the batch the call sends.
LEMMA CallMovesBatch ==
  ASSUME tc \in [ToolCall -> CallState], NEW c \in ToolCall, NEW at \in CallAt,
         NEW batch \in SUBSET Seq(ToolCall)
  PROVE  [tc EXCEPT ![c].at = at, ![c].batch = batch] \in [ToolCall -> CallState]
BY DEF CallState

\* A flush that goes on throws, sends what is queued, or has stored what it sent.
FlushStops(c) ==
  /\ tc[c].at \in Flushing
  /\ FlushThrows(c)
  /\ UNCHANGED table
  /\ flaws' = flaws => \/ tc[c].at = "select" /\ (queue = {} \/ tc[c].prev \notin TableHeads)
                       \/ tc[c].at = "insert" /\ \E e \in tc[c].batch, r \in table : Len(e) = Len(r)
  /\ flaws' \in {flaws, flaws + 1}
SendBatch(c) ==
  /\ tc[c].at = "select" /\ tc[c].prev \in TableHeads
  /\ tc' = [tc EXCEPT ![c].at = "insert", ![c].batch = queue]
  /\ UNCHANGED <<table, list, durable, queue, staged, visible, effects, shared, flaws>>
StoreBatch(c) ==
  /\ tc[c].at = "insert"
  /\ ~ \E e \in tc[c].batch, r \in table : Len(e) = Len(r)
  /\ table' = table \cup tc[c].batch
  /\ tc' = [tc EXCEPT ![c].at = "stored"]
  /\ UNCHANGED <<list, durable, queue, staged, visible, effects, shared, flaws>>

\* The steps of flush() are these three.
LEMMA FlushSteps ==
  ASSUME CallShapes, NEW c \in ToolCall, SelectHead(c) \/ InsertBatch(c) \/ CallFails(c)
  PROVE  FlushStops(c) \/ SendBatch(c) \/ StoreBatch(c)
<1>1. CASE SelectHead(c)
  BY <1>1 DEF SelectHead, FlushStops, SendBatch, Flushing
<1>2. CASE InsertBatch(c)
  BY <1>2 DEF InsertBatch, FlushStops, StoreBatch, Flushing
<1>3. CASE CallFails(c)
  <2>1. flaws' = flaws + 1 /\ flaws' # flaws
    BY <1>3 DEF CallFails, CallShapes
  <2> QED
    BY <1>3, <2>1 DEF CallFails, FlushStops
<1> QED
  BY <1>1, <1>2, <1>3

\* Every step keeps the types.
LEMMA CallsNextShapes ==
  ASSUME CallShapes, OnlyKnown, CallsNext
  PROVE  CallShapes'
<1>0. /\ list \in Seq(ToolCall) /\ Len(list) \in Nat /\ <<>> \in Seq(ToolCall)
      /\ tc \in [ToolCall -> CallState] /\ durable \in 0 .. Len(list)
      /\ queue \in SUBSET Seq(ToolCall)
  BY LenProperties, EmptySeq DEF CallShapes
<1>1. ASSUME NEW c \in ToolCall, RefuseCall(c)
      PROVE  CallShapes'
  <2>1. tc' \in [ToolCall -> CallState]
    BY <1>0, <1>1, CallMoves DEF RefuseCall, CallAt
  <2>2. AppendBody(c)
    BY <1>1 DEF RefuseCall
  <2>3. /\ list' \in Seq(ToolCall) /\ Len(list') = Len(list) + 1
        /\ queue' = queue \cup {list'} /\ shared' \in BOOLEAN
    BY <2>2, AppendBodyFacts
  <2> QED
    BY <1>0, <1>1, <2>1, <2>3 DEF RefuseCall, CallShapes
<1>2. ASSUME NEW c \in ToolCall, Forward(c)
      PROVE  CallShapes'
  <2>1. tc' \in [ToolCall -> CallState]
    BY <1>0, <1>2, CallMoves DEF Forward, CallAt
  <2> QED
    BY <1>2, <2>1 DEF Forward, CallShapes
<1>3. ASSUME NEW c \in ToolCall, TraceCall(c)
      PROVE  CallShapes'
  <2>1. AppendBody(c) /\ c \in effects
    BY <1>3 DEF TraceCall, OnlyKnown
  <2>2. /\ list' \in Seq(ToolCall) /\ Len(list') = Len(list) + 1
        /\ queue' = queue \cup {list'} /\ shared' \in BOOLEAN
    BY <2>1, AppendBodyFacts
  <2>3. FirstQueued' \in Seq(ToolCall)
    <3>1. queue' \in SUBSET Seq(ToolCall) /\ queue' # {}
      BY <1>0, <2>2
    <3>2. FirstQueued' = CHOOSE x \in queue' : \A o \in queue' : Len(x) <= Len(o)
      BY DEF FirstQueued
    <3> QED
      BY <3>1, <3>2, FirstQueuedType
  <2>4. Front(FirstQueued') \in Seq(ToolCall)
    BY <2>3, FrontType
  <2>5. tc' \in [ToolCall -> CallState]
    BY <1>0, <1>3, <2>4, CallMovesPrev DEF TraceCall, CallAt, Flushing
  <2> QED
    BY <1>0, <1>3, <2>1, <2>2, <2>5 DEF TraceCall, CallShapes
<1>4. ASSUME NEW c \in ToolCall, FlushStops(c)
      PROVE  CallShapes'
  <2>1. FlushThrows(c) /\ UNCHANGED table /\ flaws' \in Nat
    BY <1>4 DEF FlushStops, CallShapes
  <2>2. tc' \in [ToolCall -> CallState]
    BY <1>0, <2>1, CallMoves DEF FlushThrows, CallAt
  <2>3. list' \in Seq(ToolCall) /\ Len(list') = durable /\ queue' = {} /\ staged' = {}
    BY <2>1, FlushThrowsFacts DEF CallShapes
  <2> QED
    BY <1>0, <2>1, <2>2, <2>3 DEF FlushThrows, CallShapes
<1>5. ASSUME NEW c \in ToolCall, SendBatch(c)
      PROVE  CallShapes'
  <2>1. tc' \in [ToolCall -> CallState]
    BY <1>0, <1>5, CallMovesBatch DEF SendBatch, CallAt, Flushing
  <2> QED
    BY <1>5, <2>1 DEF SendBatch, CallShapes
<1>6. ASSUME NEW c \in ToolCall, StoreBatch(c)
      PROVE  CallShapes'
  <2>1. tc' \in [ToolCall -> CallState]
    BY <1>0, <1>6, CallMoves DEF StoreBatch, CallAt, Flushing
  <2>2. tc[c].batch \subseteq Seq(ToolCall)
    BY <1>0 DEF CallState
  <2> QED
    BY <1>6, <2>1, <2>2 DEF StoreBatch, CallShapes
<1>7. ASSUME NEW c \in ToolCall, AnswerCall(c)
      PROVE  CallShapes'
  <2>1. tc' \in [ToolCall -> CallState]
    BY <1>0, <1>7, CallMoves DEF AnswerCall, CallAt
  <2> QED
    BY <1>0, <1>7, <2>1 DEF AnswerCall, CallShapes
<1>8. ASSUME ProcessDies
      PROVE  CallShapes'
  <2>1. tc' \in [ToolCall -> CallState]
    BY <1>0, <1>8 DEF ProcessDies, CallAt, CallState
  <2>2. list' \in Seq(ToolCall) /\ Len(list') \in Nat
    <3>1. list' \in Seq(ToolCall)
      BY <1>0, <1>8 DEF ProcessDies, TableHeads, CallShapes
    <3> QED
      BY <3>1, LenProperties
  <2> QED
    BY <1>0, <1>8, <2>1, <2>2 DEF ProcessDies, CallShapes
<1> QED
  BY <1>1, <1>2, <1>3, <1>4, <1>5, <1>6, <1>7, <1>8, FlushSteps DEF CallsNext

\* A death stops the calls that are under way, and moves no other.
LEMMA DeathMoves ==
  ASSUME tc \in [ToolCall -> CallState], ProcessDies, NEW o \in ToolCall
  PROVE  /\ \/ tc'[o].at = tc[o].at /\ tc[o].at \notin Flushing \cup {"tool"}
            \/ tc'[o].at = "gone" /\ tc[o].at \in Flushing \cup {"tool"}
         /\ tc'[o].batch = tc[o].batch
<1>1. tc'[o] = IF tc[o].at \in Flushing \cup {"tool"} THEN [tc[o] EXCEPT !.at = "gone"] ELSE tc[o]
  BY DEF ProcessDies
<1>2. tc[o] \in CallState
  OBVIOUS
<1> QED
  BY <1>1, <1>2 DEF CallState

\* Whoever has run or was refused stays so; only those are written down.
LEMMA CallsNextKnown ==
  ASSUME CallShapes, OnlyKnown, CallsNext
  PROVE  OnlyKnown'
<1>0. tc \in [ToolCall -> CallState] /\ effects \subseteq ToolCall
  BY DEF CallShapes
<1> USE DEF Known
<1>1. ASSUME NEW c \in ToolCall, RefuseCall(c)
      PROVE  OnlyKnown'
  <2>1. AppendBody(c)
    BY <1>1 DEF RefuseCall
  <2>2. Range(list') = Range(list) \cup {c} /\ queue' = queue \cup {list'}
    BY <2>1, AppendBodyFacts
  <2>3. /\ tc'[c].at = "refused"
        /\ \A o \in ToolCall \ {c} : tc'[o] = tc[o]
        /\ \A o \in ToolCall : tc'[o].batch = tc[o].batch
    BY <1>0, <1>1 DEF RefuseCall, CallState
  <2>4. Known \subseteq Known' /\ c \in Known'
    BY <1>1, <2>3 DEF RefuseCall
  <2>5. \A o \in ToolCall : o \in effects' <=> tc'[o].at \notin {"idle", "refused"}
    BY <1>1, <2>3 DEF RefuseCall, OnlyKnown
  <2> HIDE DEF Known
  <2> QED
    BY <1>1, <2>2, <2>3, <2>4, <2>5 DEF RefuseCall, OnlyKnown
<1>2. ASSUME NEW c \in ToolCall, TraceCall(c)
      PROVE  OnlyKnown'
  <2>1. AppendBody(c)
    BY <1>2 DEF TraceCall
  <2>2. Range(list') = Range(list) \cup {c} /\ queue' = queue \cup {list'}
    BY <2>1, AppendBodyFacts
  <2>3. /\ tc'[c].at = "select"
        /\ \A o \in ToolCall \ {c} : tc'[o] = tc[o]
        /\ \A o \in ToolCall : tc'[o].batch = tc[o].batch
    BY <1>0, <1>2 DEF TraceCall, CallState
  <2>4. Known \subseteq Known' /\ c \in Known'
    BY <1>2, <2>3 DEF TraceCall, OnlyKnown
  <2>5. \A o \in ToolCall : o \in effects' <=> tc'[o].at \notin {"idle", "refused"}
    BY <1>2, <2>3 DEF TraceCall, OnlyKnown
  <2> HIDE DEF Known
  <2> QED
    BY <1>2, <2>2, <2>3, <2>4, <2>5 DEF TraceCall, OnlyKnown
<1>3. ASSUME NEW c \in ToolCall, Forward(c)
      PROVE  OnlyKnown'
  <2>1. /\ tc'[c].at = "tool"
        /\ \A o \in ToolCall \ {c} : tc'[o] = tc[o]
        /\ \A o \in ToolCall : tc'[o].batch = tc[o].batch
    BY <1>0, <1>3 DEF Forward, CallState
  <2>2. Known \subseteq Known'
    BY <1>3, <2>1 DEF Forward
  <2>3. \A o \in ToolCall : o \in effects' <=> tc'[o].at \notin {"idle", "refused"}
    BY <1>3, <2>1 DEF Forward, OnlyKnown
  <2> HIDE DEF Known
  <2> QED
    BY <1>3, <2>1, <2>2, <2>3 DEF Forward, OnlyKnown
<1>4. ASSUME NEW c \in ToolCall, FlushStops(c)
      PROVE  OnlyKnown'
  <2>1. FlushThrows(c) /\ UNCHANGED table
    BY <1>4 DEF FlushStops
  <2>2. Range(list') \subseteq Range(list) /\ queue' = {}
    BY <2>1, FlushThrowsFacts
  <2>3. /\ tc'[c].at = "failed" /\ tc[c].at \in Flushing
        /\ \A o \in ToolCall \ {c} : tc'[o] = tc[o]
        /\ \A o \in ToolCall : tc'[o].batch = tc[o].batch
    BY <1>0, <1>4, <2>1 DEF FlushThrows, FlushStops, CallState
  <2>4. Known \subseteq Known'
    BY <2>1, <2>3 DEF FlushThrows, Flushing
  <2>5. \A o \in ToolCall : o \in effects' <=> tc'[o].at \notin {"idle", "refused"}
    BY <2>1, <2>3 DEF FlushThrows, OnlyKnown, Flushing
  <2> HIDE DEF Known
  <2> QED
    BY <2>1, <2>2, <2>3, <2>4, <2>5 DEF OnlyKnown
<1>5. ASSUME NEW c \in ToolCall, SendBatch(c)
      PROVE  OnlyKnown'
  <2>1. /\ tc'[c].at = "insert" /\ tc'[c].batch = queue
        /\ \A o \in ToolCall \ {c} : tc'[o] = tc[o]
    BY <1>0, <1>5 DEF SendBatch, CallState
  <2>2. Known \subseteq Known'
    BY <1>5, <2>1 DEF SendBatch
  <2>3. \A o \in ToolCall : o \in effects' <=> tc'[o].at \notin {"idle", "refused"}
    BY <1>5, <2>1 DEF SendBatch, OnlyKnown
  <2> HIDE DEF Known
  <2> QED
    BY <1>5, <2>1, <2>2, <2>3 DEF SendBatch, OnlyKnown
<1>6. ASSUME NEW c \in ToolCall, StoreBatch(c)
      PROVE  OnlyKnown'
  <2>1. /\ tc'[c].at = "stored"
        /\ \A o \in ToolCall \ {c} : tc'[o] = tc[o]
        /\ \A o \in ToolCall : tc'[o].batch = tc[o].batch
    BY <1>0, <1>6 DEF StoreBatch, CallState
  <2>2. Known \subseteq Known'
    BY <1>6, <2>1 DEF StoreBatch
  <2>3. \A o \in ToolCall : o \in effects' <=> tc'[o].at \notin {"idle", "refused"}
    BY <1>6, <2>1 DEF StoreBatch, OnlyKnown
  <2> HIDE DEF Known
  <2> QED
    BY <1>6, <2>1, <2>2, <2>3 DEF StoreBatch, OnlyKnown
<1>7. ASSUME NEW c \in ToolCall, AnswerCall(c)
      PROVE  OnlyKnown'
  <2>1. /\ tc'[c].at = "answered"
        /\ \A o \in ToolCall \ {c} : tc'[o] = tc[o]
        /\ \A o \in ToolCall : tc'[o].batch = tc[o].batch
    BY <1>0, <1>7 DEF AnswerCall, CallState
  <2>2. Known \subseteq Known'
    BY <1>7, <2>1 DEF AnswerCall
  <2>3. \A o \in ToolCall : o \in effects' <=> tc'[o].at \notin {"idle", "refused"}
    BY <1>7, <2>1 DEF AnswerCall, OnlyKnown
  <2> HIDE DEF Known
  <2> QED
    BY <1>7, <2>1, <2>2, <2>3 DEF AnswerCall, OnlyKnown
<1>8. ASSUME ProcessDies
      PROVE  OnlyKnown'
  <2>1. ASSUME NEW o \in ToolCall
        PROVE  /\ \/ tc'[o].at = tc[o].at /\ tc[o].at \notin Flushing \cup {"tool"}
                  \/ tc'[o].at = "gone" /\ tc[o].at \in Flushing \cup {"tool"}
               /\ tc'[o].batch = tc[o].batch
    BY <1>0, <1>8, DeathMoves
  <2>2. Known \subseteq Known'
    BY <1>8, <2>1 DEF ProcessDies, Flushing
  <2>3. \A o \in ToolCall : o \in effects' <=> tc'[o].at \notin {"idle", "refused"}
    BY <1>8, <2>1 DEF ProcessDies, OnlyKnown, Flushing
  <2>4. Range(list') \subseteq Known /\ queue' = {} /\ UNCHANGED table
    BY <1>8 DEF ProcessDies, TableHeads, OnlyKnown, Range
  <2> HIDE DEF Known
  <2> QED
    BY <2>1, <2>2, <2>3, <2>4 DEF OnlyKnown
<1> QED
  BY <1>1, <1>2, <1>3, <1>4, <1>5, <1>6, <1>7, <1>8, FlushSteps DEF CallsNext

\* A row of a table closed under beginnings counts in full, and a table that
\* grows keeps what counts.
LEMMA RowCounts ==
  ASSUME CallShapes, \A r \in table : \A n \in 1 .. Len(r) : SubSeq(r, 1, n) \in table,
         NEW r \in table
  PROVE  Range(r) \subseteq InTable
BY DEF InTable

\* What can be read from the table stays there.
LEMMA InTableGrows ==
  ASSUME table \subseteq table'
  PROVE  InTable \subseteq InTable'
<1>1. InTable' = UNION {Range(r) : r \in {r \in table' :
                                       \A n \in 1 .. Len(r) : SubSeq(r, 1, n) \in table'}}
  BY DEF InTable
<1> QED
  BY <1>1 DEF InTable

\* Steps of a call that append: nobody else flushes, or it is shared.
LEMMA RefuseUnshared ==
  ASSUME CallShapes, OnlyKnown, Unshared, NEW c \in ToolCall, RefuseCall(c), ~shared'
  PROVE  Unshared'
<1>0. /\ tc \in [ToolCall -> CallState] /\ durable \in 0 .. Len(list)
      /\ Len(list) \in Nat /\ list \in Seq(ToolCall)
  BY LenProperties DEF CallShapes
<1>1. AppendBody(c) /\ UNCHANGED <<table, durable, staged, visible, effects, flaws>>
  BY DEF RefuseCall
<1>2. /\ Len(list') = Len(list) + 1 /\ Range(list') = Range(list) \cup {c}
      /\ \A o \in ToolCall : tc[o].at \notin Flushing
  BY <1>1, AppendBodyFacts
<1>3. /\ \A n \in 0 .. Len(list) : SubSeq(list', 1, n) = SubSeq(list, 1, n)
      /\ queue' = {SubSeq(list', 1, n) : n \in durable + 1 .. Len(list')}
  BY <1>1, AppendBodyQueue DEF Unshared
<1>4. tc'[c].at = "refused" /\ \A o \in ToolCall \ {c} : tc'[o] = tc[o]
  BY <1>0 DEF RefuseCall, CallState
<1>5. TableHoldsList'
  <2>1. \A n \in 1 .. durable : SubSeq(list', 1, n) = SubSeq(list, 1, n)
    BY <1>0, <1>3
  <2>2. TableHoldsList
    BY DEF Unshared
  <2> QED
    BY <1>1, <1>2, <1>3, <2>1, <2>2 DEF TableHoldsList
<1>6. FlushIsAlone'
  BY <1>2, <1>4 DEF FlushIsAlone, Flushing
<1>7. AnsweredIsStored'
  <2>1. InTable' = InTable
    BY <1>1 DEF InTable
  <2> QED
    BY <1>1, <1>4, <2>1 DEF Unshared, AnsweredIsStored
<1>8. FaultlessKeeps'
  BY <1>0, <1>1, <1>2, <1>4 DEF Unshared, FaultlessKeeps, Flushing, CallShapes
<1> QED
  BY <1>5, <1>6, <1>7, <1>8 DEF Unshared

\* A call that appends its entry, while there is no other flush, keeps the journal whole.
LEMMA TraceUnshared ==
  ASSUME CallShapes, OnlyKnown, Unshared, NEW c \in ToolCall, TraceCall(c), ~shared'
  PROVE  Unshared'
<1>0. /\ tc \in [ToolCall -> CallState] /\ durable \in 0 .. Len(list)
      /\ Len(list) \in Nat /\ list \in Seq(ToolCall)
  BY LenProperties DEF CallShapes
<1>1. /\ AppendBody(c) /\ UNCHANGED <<table, durable, visible, effects, flaws>>
      /\ staged' = staged \cup {c}
  BY DEF TraceCall
<1>2. /\ Len(list') = Len(list) + 1 /\ list' \in Seq(ToolCall)
      /\ Range(list') = Range(list) \cup {c}
      /\ \A o \in ToolCall : tc[o].at \notin Flushing
  BY <1>1, AppendBodyFacts
<1>3. /\ \A n \in 0 .. Len(list) : SubSeq(list', 1, n) = SubSeq(list, 1, n)
      /\ queue' = {SubSeq(list', 1, n) : n \in durable + 1 .. Len(list')}
  BY <1>1, AppendBodyQueue DEF Unshared
<1>4. /\ tc'[c].at = "select" /\ tc'[c].prev = Front(FirstQueued')
      /\ \A o \in ToolCall \ {c} : tc'[o] = tc[o]
  BY <1>0 DEF TraceCall, CallState
<1>5. TableHoldsList'
  <2>1. \A n \in 1 .. durable : SubSeq(list', 1, n) = SubSeq(list, 1, n)
    BY <1>0, <1>3
  <2>2. TableHoldsList
    BY DEF Unshared
  <2> QED
    BY <1>1, <1>2, <1>3, <2>1, <2>2 DEF TableHoldsList
<1>6. Front(FirstQueued') = SubSeq(list', 1, durable)
  <2>1. /\ durable + 1 \in durable + 1 .. Len(list') /\ durable \in 0 .. Len(list') - 1
        /\ \A n \in durable + 1 .. Len(list') : n \in 0 .. Len(list') /\ durable + 1 <= n
    BY <1>0, <1>2
  <2>2. SubSeq(list', 1, durable + 1) \in queue'
    BY <1>3, <2>1
  <2>3. \A n \in durable + 1 .. Len(list') : Len(SubSeq(list', 1, n)) = n
    BY <1>2, <2>1, PartType
  <2>4. queue' \in SUBSET Seq(ToolCall)
    BY <1>2, <1>3, <2>1, PartType
  <2>5. FirstQueued' \in queue' /\ \A o \in queue' : Len(FirstQueued') <= Len(o)
    <3>1. FirstQueued' = CHOOSE x \in queue' : \A o \in queue' : Len(x) <= Len(o)
      BY DEF FirstQueued
    <3> QED
      BY <2>2, <2>4, <3>1, FirstQueuedType
  <2>6. PICK n \in durable + 1 .. Len(list') : FirstQueued' = SubSeq(list', 1, n)
    BY <1>3, <2>5
  <2>7. n <= durable + 1
    BY <2>1, <2>2, <2>3, <2>5, <2>6
  <2>8. n = durable + 1
    BY <1>0, <1>2, <2>1, <2>7
  <2> QED
    BY <1>2, <2>1, <2>6, <2>8, FrontOfPart
<1>7. FlushIsAlone'
  <2>1. c \in Range(list') /\ durable' < Len(list') /\ tc'[c].prev = SubSeq(list', 1, durable')
    BY <1>0, <1>1, <1>2, <1>4, <1>6
  <2> QED
    BY <1>2, <1>4, <2>1 DEF FlushIsAlone
<1>8. AnsweredIsStored'
  <2>1. InTable' = InTable
    BY <1>1 DEF InTable
  <2> QED
    BY <1>1, <1>4, <2>1 DEF Unshared, AnsweredIsStored
<1>9. FaultlessKeeps'
  BY <1>0, <1>1, <1>2, <1>4 DEF Unshared, FaultlessKeeps, Flushing, CallShapes
<1> QED
  BY <1>5, <1>7, <1>8, <1>9 DEF Unshared

\* A flush that fails without a fault does not happen.
LEMMA NoFaultNoStop ==
  ASSUME CallShapes, Unshared, NEW c \in ToolCall, FlushStops(c)
  PROVE  flaws' # 0
<1> SUFFICES ASSUME flaws' = 0 PROVE FALSE
  OBVIOUS
<1>0. /\ tc \in [ToolCall -> CallState] /\ durable \in 0 .. Len(list) /\ Len(list) \in Nat
      /\ list \in Seq(ToolCall) /\ table \subseteq Seq(ToolCall)
      /\ \A r \in table : Len(r) \in Nat
  BY LenProperties DEF CallShapes
<1>1. flaws = 0 /\ flaws' = flaws
  BY DEF FlushStops, CallShapes
<1>2. tc[c].at \in Flushing /\ durable < Len(list)
  BY DEF FlushStops, Unshared, FlushIsAlone
<1>3. CASE tc[c].at = "select" /\ (queue = {} \/ tc[c].prev \notin TableHeads)
  <2>1. queue # {}
    BY <1>0, <1>2, durable + 1 \in durable + 1 .. Len(list) DEF Unshared, TableHoldsList
  <2>2. \A o \in ToolCall : tc[o].at # "stored"
    BY <1>2, <1>3 DEF Unshared, FlushIsAlone, Flushing
  <2>3. \A r \in table : Len(r) <= durable
    BY <1>1, <2>2 DEF Unshared, FaultlessKeeps
  <2>4. tc[c].prev = SubSeq(list, 1, durable) /\ Len(SubSeq(list, 1, durable)) = durable
    BY <1>0, <1>2, <1>3, PartType DEF Unshared, FlushIsAlone
  <2>5. SubSeq(list, 1, durable) \in table \cup {<<>>}
    <3>1. CASE durable = 0
      BY <3>1, SubSeqEmpty
    <3>2. CASE durable # 0
      BY <1>0, <3>2, durable \in 1 .. durable DEF Unshared, TableHoldsList
    <3> QED
      BY <3>1, <3>2
  <2> QED
    BY <1>3, <2>1, <2>3, <2>4, <2>5 DEF TableHeads
<1>4. CASE tc[c].at = "insert" /\ \E e \in tc[c].batch, r \in table : Len(e) = Len(r)
  <2>1. PICK e \in tc[c].batch, r \in table : Len(e) = Len(r)
    BY <1>4
  <2>2. e \in queue /\ Len(r) <= durable
    BY <1>2, <1>4, <2>1 DEF Unshared, FlushIsAlone
  <2>3. PICK n \in durable + 1 .. Len(list) : e = SubSeq(list, 1, n)
    BY <2>2 DEF Unshared, TableHoldsList
  <2>4. Len(e) = n
    BY <1>0, <2>3, n \in 0 .. Len(list), PartType
  <2> QED
    BY <1>0, <2>1, <2>2, <2>3, <2>4
<1> QED
  BY <1>1, <1>3, <1>4 DEF FlushStops

\* So does a flush that throws, which takes back what it had not stored.
LEMMA StopUnshared ==
  ASSUME CallShapes, OnlyKnown, Unshared, NEW c \in ToolCall, FlushStops(c)
  PROVE  Unshared'
<1>0. /\ tc \in [ToolCall -> CallState] /\ durable \in 0 .. Len(list)
      /\ Len(list) \in Nat /\ list \in Seq(ToolCall)
  BY LenProperties DEF CallShapes
<1>1. /\ FlushThrows(c) /\ UNCHANGED <<table, durable, visible, effects>>
      /\ tc[c].at \in Flushing
  BY DEF FlushStops, FlushThrows
<1>2. /\ list' = SubSeq(list, 1, durable) /\ Len(list') = durable /\ queue' = {} /\ staged' = {}
      /\ tc' = [tc EXCEPT ![c].at = "failed"]
  BY <1>1, FlushThrowsFacts
<1>3. tc'[c].at = "failed" /\ \A o \in ToolCall \ {c} : tc'[o] = tc[o]
  BY <1>0, <1>2 DEF CallState
<1>4. TableHoldsList'
  <2>1. \A n \in 1 .. durable : SubSeq(list', 1, n) = SubSeq(list, 1, n)
    BY <1>0, <1>2, PartOfPart
  <2>2. durable + 1 .. Len(list') = {}
    BY <1>0, <1>2
  <2>3. TableHoldsList
    BY DEF Unshared
  <2> QED
    BY <1>1, <1>2, <2>1, <2>2, <2>3 DEF TableHoldsList
<1>5. FlushIsAlone'
  <2>1. \A o \in ToolCall : tc'[o].at \notin Flushing
    BY <1>1, <1>3 DEF Unshared, FlushIsAlone, Flushing
  <2> QED
    BY <2>1 DEF FlushIsAlone
<1>6. AnsweredIsStored'
  <2>1. InTable' = InTable
    BY <1>1 DEF InTable
  <2> QED
    BY <1>1, <1>3, <2>1 DEF Unshared, AnsweredIsStored
<1>7. FaultlessKeeps'
  BY NoFaultNoStop DEF FaultlessKeeps
<1> QED
  BY <1>4, <1>5, <1>6, <1>7 DEF Unshared

\* So does a flush that has read the head it expected.
LEMMA SendUnshared ==
  ASSUME CallShapes, OnlyKnown, Unshared, NEW c \in ToolCall, SendBatch(c)
  PROVE  Unshared'
<1>0. /\ tc \in [ToolCall -> CallState] /\ durable \in 0 .. Len(list) /\ Len(list) \in Nat
      /\ list \in Seq(ToolCall) /\ table \subseteq Seq(ToolCall)
  BY LenProperties DEF CallShapes
<1>1. /\ UNCHANGED <<table, list, durable, queue, staged, visible, effects, shared, flaws>>
      /\ tc[c].at = "select" /\ tc[c].prev \in TableHeads
  BY DEF SendBatch
<1>2. /\ tc'[c].at = "insert" /\ tc'[c].batch = queue
      /\ \A o \in ToolCall \ {c} : tc'[o] = tc[o]
  BY <1>0 DEF SendBatch, CallState
<1>3. TableHoldsList'
  BY <1>1 DEF Unshared, TableHoldsList
<1>4. FlushIsAlone'
  <2>1. /\ c \in Range(list) /\ durable < Len(list)
        /\ tc[c].prev = SubSeq(list, 1, durable)
        /\ \A o \in ToolCall \ {c} : tc[o].at \notin Flushing
    BY <1>1 DEF Unshared, FlushIsAlone, Flushing
  <2>2. Len(tc[c].prev) = durable
    BY <1>0, <2>1, PartType
  <2>3. \A r \in table : Len(r) <= durable
    BY <1>1, <2>2 DEF TableHeads
  <2> QED
    BY <1>1, <1>2, <2>1, <2>3 DEF FlushIsAlone
<1>5. AnsweredIsStored'
  <2>1. InTable' = InTable
    BY <1>1 DEF InTable
  <2> QED
    BY <1>1, <1>2, <2>1 DEF Unshared, AnsweredIsStored
<1>6. FaultlessKeeps'
  BY <1>1, <1>2 DEF Unshared, FaultlessKeeps
<1> QED
  BY <1>3, <1>4, <1>5, <1>6 DEF Unshared

\* So does the INSERT of a batch.
LEMMA StoreUnshared ==
  ASSUME CallShapes, OnlyKnown, Unshared, NEW c \in ToolCall, StoreBatch(c)
  PROVE  Unshared'
<1>0. /\ tc \in [ToolCall -> CallState] /\ durable \in 0 .. Len(list) /\ Len(list) \in Nat
      /\ list \in Seq(ToolCall) /\ table \subseteq Seq(ToolCall)
  BY LenProperties DEF CallShapes
<1>1. /\ UNCHANGED <<list, durable, queue, staged, visible, effects, shared, flaws>>
      /\ tc[c].at = "insert"
  BY DEF StoreBatch
<1>2. tc'[c].at = "stored" /\ \A o \in ToolCall \ {c} : tc'[o] = tc[o]
  BY <1>0 DEF StoreBatch, CallState
<1>3. /\ c \in Range(list) /\ durable < Len(list) /\ tc[c].batch = queue
      /\ \A o \in ToolCall \ {c} : tc[o].at \notin Flushing
      /\ \A r \in table : Len(r) <= durable
  BY <1>1 DEF Unshared, FlushIsAlone, Flushing
<1>4. table' = table \cup queue
  BY <1>3 DEF StoreBatch
<1>5. ASSUME NEW n \in durable + 1 .. Len(list)
      PROVE  /\ SubSeq(list, 1, n) \in queue /\ Len(SubSeq(list, 1, n)) = n
             /\ \A k \in 1 .. n : SubSeq(SubSeq(list, 1, n), 1, k) \in table'
  <2>1. SubSeq(list, 1, n) \in queue
    BY DEF Unshared, TableHoldsList
  <2>2. n \in 0 .. Len(list)
    BY <1>0
  <2>3. ASSUME NEW k \in 1 .. n
        PROVE  SubSeq(SubSeq(list, 1, n), 1, k) \in table'
    <3>1. SubSeq(SubSeq(list, 1, n), 1, k) = SubSeq(list, 1, k)
      BY <1>0, <2>2, PartOfPart
    <3>2. k \in 1 .. durable \/ k \in durable + 1 .. Len(list)
      BY <1>0
    <3> QED
      BY <1>4, <3>1, <3>2 DEF Unshared, TableHoldsList
  <2> QED
    BY <1>0, <2>1, <2>2, <2>3, PartType
<1>6. TableHoldsList'
  <2>1. ASSUME NEW r \in table', NEW n \in 1 .. Len(r)
        PROVE  SubSeq(r, 1, n) \in table'
    <3>1. CASE r \in table
      BY <1>4, <3>1 DEF Unshared, TableHoldsList
    <3>2. CASE r \in queue
      <4>1. PICK k \in durable + 1 .. Len(list) : r = SubSeq(list, 1, k)
        BY <3>2 DEF Unshared, TableHoldsList
      <4> QED
        BY <1>5, <4>1
    <3> QED
      BY <1>4, <3>1, <3>2
  <2> QED
    BY <1>1, <1>4, <2>1 DEF Unshared, TableHoldsList
<1>7. FlushIsAlone'
  <2>1. queue' \subseteq table'
    BY <1>1, <1>4
  <2> QED
    BY <1>1, <1>2, <1>3, <2>1 DEF FlushIsAlone
<1>8. AnsweredIsStored'
  <2>1. InTable \subseteq InTable'
    BY <1>4, InTableGrows
  <2> QED
    BY <1>1, <1>2, <2>1 DEF Unshared, AnsweredIsStored
<1>9. FaultlessKeeps'
  <2>1. ASSUME NEW r \in table' PROVE Len(r) <= Len(list)
    <3>1. CASE r \in table
      BY <1>0, <1>3, <3>1, LenProperties
    <3>2. CASE r \in queue
      <4>1. PICK k \in durable + 1 .. Len(list) : r = SubSeq(list, 1, k)
        BY <3>2 DEF Unshared, TableHoldsList
      <4> QED
        BY <1>0, <1>5, <4>1
    <3> QED
      BY <1>4, <3>1, <3>2
  <2> QED
    BY <1>1, <1>2, <2>1 DEF Unshared, FaultlessKeeps
<1> QED
  BY <1>6, <1>7, <1>8, <1>9 DEF Unshared

\* So does the answer to a call whose batch is stored.
LEMMA AnswerUnshared ==
  ASSUME CallShapes, OnlyKnown, Unshared, NEW c \in ToolCall, AnswerCall(c)
  PROVE  Unshared'
<1>0. /\ tc \in [ToolCall -> CallState] /\ durable \in 0 .. Len(list) /\ Len(list) \in Nat
      /\ list \in Seq(ToolCall) /\ table \subseteq Seq(ToolCall)
  BY LenProperties DEF CallShapes
<1>1. /\ UNCHANGED <<table, list, effects, shared, flaws>>
      /\ tc[c].at = "stored" /\ queue' = {} /\ durable' = Len(list)
      /\ visible' = visible \cup staged /\ staged' = {}
  BY DEF AnswerCall
<1>2. tc'[c].at = "answered" /\ \A o \in ToolCall \ {c} : tc'[o] = tc[o]
  BY <1>0 DEF AnswerCall, CallState
<1>3. /\ c \in Range(list) /\ durable < Len(list) /\ queue \subseteq table
      /\ \A o \in ToolCall \ {c} : tc[o].at \notin Flushing
  BY <1>1 DEF Unshared, FlushIsAlone, Flushing
<1>4. \A n \in 1 .. Len(list) : SubSeq(list, 1, n) \in table
  <2>1. ASSUME NEW n \in 1 .. Len(list) PROVE n \in 1 .. durable \/ n \in durable + 1 .. Len(list)
    BY <1>0
  <2> QED
    BY <1>3, <2>1 DEF Unshared, TableHoldsList
<1>5. TableHoldsList'
  <2>1. durable' + 1 .. Len(list') = {}
    BY <1>0, <1>1
  <2> QED
    BY <1>1, <1>4, <2>1 DEF Unshared, TableHoldsList
<1>6. FlushIsAlone'
  BY <1>2, <1>3 DEF FlushIsAlone, Flushing
<1>7. AnsweredIsStored'
  <2>1. list \in table
    BY <1>0, <1>3, <1>4, SubSeqFull, Len(list) \in 1 .. Len(list)
  <2>2. Range(list) \subseteq InTable
    BY <2>1, RowCounts DEF Unshared, TableHoldsList
  <2>3. InTable' = InTable
    BY <1>1 DEF InTable
  <2> QED
    BY <1>1, <1>2, <1>3, <2>2, <2>3 DEF Unshared, TableHoldsList, AnsweredIsStored
<1>8. FaultlessKeeps'
  BY <1>1, <1>2 DEF Unshared, FaultlessKeeps
<1> QED
  BY <1>5, <1>6, <1>7, <1>8 DEF Unshared

\* So does a process that ends.
LEMMA DeathUnshared ==
  ASSUME CallShapes, OnlyKnown, Unshared, ProcessDies
  PROVE  Unshared'
<1>0. /\ tc \in [ToolCall -> CallState] /\ table \subseteq Seq(ToolCall)
      /\ <<>> \in Seq(ToolCall) /\ Len(<<>>) = 0
  BY EmptySeq DEF CallShapes
<1>1. /\ list' \in table \cup {<<>>} /\ durable' = Len(list') /\ queue' = {} /\ staged' = {}
      /\ visible' \subseteq Range(list') /\ UNCHANGED table /\ flaws' # 0
  BY DEF ProcessDies, TableHeads, CallShapes
<1>2. list' \in Seq(ToolCall) /\ Len(list') \in Nat
  <2>1. list' \in Seq(ToolCall)
    BY <1>0, <1>1
  <2> QED
    BY <2>1, LenProperties
<1>3. TableHoldsList'
  <2>1. durable' + 1 .. Len(list') = {}
    BY <1>1, <1>2
  <2>2. \A n \in 1 .. durable' : SubSeq(list', 1, n) \in table
    BY <1>0, <1>1, <1>2 DEF Unshared, TableHoldsList
  <2> QED
    BY <1>1, <2>1, <2>2 DEF Unshared, TableHoldsList
<1>4. ASSUME NEW o \in ToolCall
      PROVE  tc'[o].at \notin Flushing /\ (tc'[o].at = "answered" => tc[o].at = "answered")
  BY <1>0, DeathMoves DEF Flushing
<1>5. FlushIsAlone'
  BY <1>4 DEF FlushIsAlone
<1>6. AnsweredIsStored'
  <2>1. InTable' = InTable
    BY <1>1 DEF InTable
  <2>2. Range(list') \subseteq InTable
    <3>1. CASE list' = <<>>
      BY <3>1 DEF Range
    <3>2. CASE list' \in table
      BY <3>2, RowCounts DEF Unshared, TableHoldsList
    <3> QED
      BY <1>1, <3>1, <3>2
  <2> QED
    BY <1>1, <1>4, <2>1, <2>2 DEF Unshared, AnsweredIsStored
<1>7. FaultlessKeeps'
  BY <1>1 DEF FaultlessKeeps
<1> QED
  BY <1>3, <1>5, <1>6, <1>7 DEF Unshared

\* Every step keeps the inductive invariant.
LEMMA CallsNextInd ==
  ASSUME CallsInd, CallsNext
  PROVE  CallsInd'
<1>1. CallShapes' /\ OnlyKnown'
  BY CallsNextShapes, CallsNextKnown DEF CallsInd
<1>2. ASSUME ~shared' PROVE Unshared'
  <2>1. ~shared
    <3>1. ASSUME NEW c \in ToolCall, AppendBody(c) PROVE ~shared
      BY <1>2, <3>1 DEF AppendBody
    <3>2. ASSUME NEW c \in ToolCall, Forward(c) \/ AnswerCall(c) PROVE ~shared
      BY <1>2, <3>2 DEF Forward, AnswerCall
    <3>3. ASSUME NEW c \in ToolCall, FlushStops(c) \/ SendBatch(c) \/ StoreBatch(c) PROVE ~shared
      BY <1>2, <3>3 DEF FlushStops, FlushThrows, SendBatch, StoreBatch
    <3>4. ASSUME ProcessDies PROVE ~shared
      BY <1>2, <3>4 DEF ProcessDies
    <3> QED
      BY <3>1, <3>2, <3>3, <3>4, FlushSteps DEF CallsInd, CallsNext, RefuseCall, TraceCall
  <2>2. CallShapes /\ OnlyKnown /\ Unshared
    BY <2>1 DEF CallsInd
  <2>3. ASSUME NEW c \in ToolCall, Forward(c) PROVE Unshared'
    <3>1. /\ UNCHANGED <<table, list, durable, queue, staged, visible, shared, flaws>>
          /\ tc[c].at = "idle" /\ tc'[c].at = "tool" /\ \A o \in ToolCall \ {c} : tc'[o] = tc[o]
      BY <2>2, <2>3 DEF Forward, CallShapes, CallState
    <3>2. InTable' = InTable
      BY <3>1 DEF InTable
    <3>3. TableHoldsList'
      BY <2>2, <3>1 DEF Unshared, TableHoldsList
    <3>4. FlushIsAlone'
      BY <2>2, <3>1 DEF Unshared, FlushIsAlone, Flushing
    <3>5. AnsweredIsStored'
      BY <2>2, <3>1, <3>2 DEF Unshared, AnsweredIsStored
    <3>6. FaultlessKeeps'
      BY <2>2, <3>1 DEF Unshared, FaultlessKeeps
    <3> QED
      BY <3>3, <3>4, <3>5, <3>6 DEF Unshared
  <2> QED
    BY <1>2, <2>2, <2>3, FlushSteps, RefuseUnshared, TraceUnshared, StopUnshared, SendUnshared,
       StoreUnshared, AnswerUnshared, DeathUnshared DEF CallsNext
<1> QED
  BY <1>1, <1>2 DEF CallsInd

\* What is claimed of calls follows from it.
LEMMA CallsIndInv == CallsInd => CallsInv
<1> SUFFICES ASSUME CallsInd PROVE CallsInv
  OBVIOUS
<1>1. OnlyWhatRanIsTraced
  <2>1. \A c \in effects : tc[c].at # "refused"
    BY DEF CallsInd, CallShapes, OnlyKnown
  <2>2. \A r \in table : \A c \in Range(r) : c \in effects \/ tc[c].at = "refused"
    BY DEF CallsInd, OnlyKnown, Known
  <2> QED
    BY <2>1, <2>2 DEF CallsInd, CallShapes, OnlyWhatRanIsTraced
<1>2. ASSUME ~shared
      PROVE  /\ {c \in ToolCall : tc[c].at = "answered"} \cup visible \subseteq InTable
             /\ \A c \in effects :
                  c \in InTable \/ tc[c].at \in Flushing \cup {"tool", "failed", "gone"}
             /\ \A c \in ToolCall : tc[c].at = "refused" /\ flaws = 0 => c \in Range(list)
             /\ SubSeq(list, 1, durable) \in table \cup {<<>>}
  <2> USE <1>2 DEF CallsInd, Unshared
  <2>1. {c \in ToolCall : tc[c].at = "answered"} \cup visible \subseteq InTable
    BY DEF AnsweredIsStored
  <2>2. ASSUME NEW c \in effects
        PROVE  c \in InTable \/ tc[c].at \in Flushing \cup {"tool", "failed", "gone"}
    <3>1. c \in ToolCall /\ tc[c].at \in CallAt
      BY DEF CallShapes, CallState
    <3>2. tc[c].at \notin {"idle", "refused"}
      BY <3>1 DEF OnlyKnown
    <3> QED
      BY <2>1, <3>1, <3>2 DEF CallAt
  <2>3. \A c \in ToolCall : tc[c].at = "refused" /\ flaws = 0 => c \in Range(list)
    BY DEF FaultlessKeeps
  <2>4. SubSeq(list, 1, durable) \in table \cup {<<>>}
    <3>1. CASE durable = 0
      BY <3>1, SubSeqEmpty
    <3>2. CASE durable # 0
      <4>1. durable \in 1 .. durable
        BY <3>2, LenProperties DEF CallShapes
      <4> QED
        BY <4>1 DEF TableHoldsList
    <3> QED
      BY <3>1, <3>2
  <2> QED
    BY <2>1, <2>2, <2>3, <2>4
<1> QED
  BY <1>1, <1>2 DEF CallsInv, CallsAreTraced

\* Every tool call that is answered has its trace in the table, what later calls
\* see as a trace is one, a refusal is lost only by a fault, and no trace is of a
\* tool that has not run: for every set of calls, and faults and deaths at every
\* step.  It is the promise of governedCall() in mcp.js, and it is made only for
\* calls that do not append while another's flush is under way.
THEOREM CallsStayTraced == CallsSpec => []CallsInv
<1>1. CallsInd /\ [CallsNext]_callVars => CallsInd'
  <2> SUFFICES ASSUME CallsInd, [CallsNext]_callVars PROVE CallsInd'
    OBVIOUS
  <2>1. CASE CallsNext
    BY <2>1, CallsNextInd
  <2>2. CASE UNCHANGED callVars
    BY <2>2 DEF callVars, CallsInd, CallShapes, OnlyKnown, Known, Unshared, TableHoldsList,
       FlushIsAlone, AnsweredIsStored, InTable, FaultlessKeeps
  <2> QED
    BY <2>1, <2>2
<1> QED
  BY CallsInitInd, <1>1, CallsIndInv, PTL DEF CallsSpec

-----------------------------------------------------------------------------
(* Governed decoding (GovernedDecode).                                     *)

Text == Word \cup {Abstain, Fragment}

\* A text outside the vocabulary has no broader term.
LEMMA FragmentHasNoAncestors == Ancestors(Fragment) = {}
<1> DEFINE N == Cardinality(Word)
           Good(up) == up = [n \in 0 .. N |->
              IF n = 0 THEN {}
              ELSE up[n - 1] \cup
                     {Broader[v] : v \in (up[n - 1] \cup {Fragment}) \cap DOMAIN Broader}]
           it == CHOOSE up : Good(up)
<1>1. N \in Nat /\ Fragment \notin DOMAIN Broader
  BY DecodeAssumption, FS_CardinalityType
<1>2. Good([n \in 0 .. N |-> {}])
  BY <1>1
<1>3. Good(it)
  BY <1>2
<1>4. \A n \in 0 .. N : it[n] = {}
  <2> DEFINE T == {n \in 0 .. N : it[n] # {}}
  <2> HIDE DEF it
  <2> SUFFICES ASSUME T # {} PROVE FALSE
    OBVIOUS
  <2>1. T \in SUBSET Nat
    BY <1>1
  <2>2. PICK x \in T : \A y \in T : x <= y
    <3> HIDE DEF T
    <3> QED
      BY <2>1, LeastNumber
  <2>3. x # 0
    BY <1>1, <1>3
  <2>4. x - 1 \in 0 .. N /\ ~ (x <= x - 1)
    BY <1>1, <2>3
  <2>5. it[x - 1] = {}
    BY <2>2, <2>4
  <2>6. it[x] = it[x - 1] \cup {Broader[v] : v \in (it[x - 1] \cup {Fragment}) \cap DOMAIN Broader}
    BY <1>1, <1>3, <2>3
  <2> QED
    BY <1>1, <2>5, <2>6
<1>5. Ancestors(Fragment) = it[N]
  BY DEF Ancestors
<1> QED
  BY <1>1, <1>4, <1>5

\* What alpha may answer.
Hows(strict) == CASE strict = "exact" -> {"exact"}
                  [] strict = "lattice" -> {"exact", "specialised"}
                  [] strict = "fuzzy" -> {"exact", "specialised", "respelled"}

\* project() yields what the slot admits, or nothing.
LEMMA ProjectGoverned ==
  ASSUME NEW text \in Text, NEW kind, NEW admissible \in SUBSET Word, NEW strict \in Strictness,
         NEW r, r = Project(text, kind, admissible, strict), "value" \in DOMAIN r
  PROVE  /\ r.value \in Under(admissible) /\ r.how \in Hows(strict)
         /\ kind = "code" /\ r.how = "respelled" => Norm[r.candidate] = Norm[r.value]
<1> DEFINE spelled == Spelled(text, kind, admissible)
<1>0. \A how : "value" \notin DOMAIN Rejected(how)
  BY DEF Rejected
<1>1. CASE text \in admissible /\ text # Abstain
  <2>1. r = Taken(text, "exact", text)
    BY <1>1 DEF Project
  <2>2. text \in Under(admissible)
    BY <1>1 DEF Under
  <2> QED
    BY <2>1, <2>2 DEF Taken, Hows, Strictness
<1>2. CASE text = Abstain
  <2>1. r = Rejected("abstain")
    BY <1>2, DecodeAssumption DEF Project
  <2> QED
    BY <1>0, <2>1
<1>3. CASE text \notin admissible /\ text # Abstain
  <2>1. strict # "exact"
    BY <1>0, <1>3 DEF Project
  <2>2. CASE Ancestors(text) \cap admissible # {}
    <3>1. r = Taken(text, "specialised", text)
      BY <1>3, <2>1, <2>2 DEF Project
    <3>2. text \in Under(admissible)
      BY <1>3, <2>2, FragmentHasNoAncestors DEF Under, Text
    <3> QED
      BY <2>1, <3>1, <3>2 DEF Taken, Hows, Strictness
  <2>3. CASE Ancestors(text) \cap admissible = {}
    <3>1. ~ \E a \in admissible : text \in Ancestors(a)
      BY <1>0, <1>3, <2>1, <2>3 DEF Project
    <3>2. /\ strict = "fuzzy" /\ Cardinality(spelled) = 1
          /\ r = Taken(CHOOSE a \in spelled : TRUE, "respelled", text)
      BY <1>0, <1>3, <2>1, <2>3, <3>1 DEF Project
    <3>3. PICK a : a \in spelled /\ a = CHOOSE x \in spelled : TRUE
      BY <3>2, FS_EmptySet
    <3>4. a \in admissible /\ (kind = "code" => Norm[text] = Norm[a])
      BY <3>3 DEF Spelled
    <3>5. r = Taken(a, "respelled", text) /\ a \in Under(admissible)
      BY <3>2, <3>3, <3>4 DEF Under
    <3> QED
      BY <3>2, <3>4, <3>5 DEF Taken, Hows
  <2> QED
    BY <2>2, <2>3
<1> QED
  BY <1>1, <1>2, <1>3

\* The tokenizer gives a word back from its tokens.
LEMMA DecodedWord ==
  ASSUME NEW w \in Word \cup {Abstain}
  PROVE  Decoded(Encode[w]) = w
<1>1. DOMAIN Encode = Word \cup {Abstain} /\ Encode[w] \in Range(Encode)
  BY DecodeAssumption DEF Range
<1>2. Decoded(Encode[w]) =
        CHOOSE v \in Word \cup {Abstain} : Encode[w] \in Range(Encode) => Encode[v] = Encode[w]
  BY <1>1 DEF Decoded, Inverse
<1> QED
  BY <1>1, <1>2, DecodeAssumption DEF IsInjective

\* Nothing emitted yet is a prefix of something.
LEMMA EmptyInLanguage ==
  ASSUME NEW admissible
  PROVE  InLanguage(admissible, <<>>)
<1>1. Encode[Abstain] \in Seq(Token) /\ Encode[Abstain] \in Language(admissible)
  BY DecodeAssumption DEF Language
<1>2. Len(Encode[Abstain]) \in Nat /\ Len(<<>>) = 0
  BY <1>1, LenProperties, EmptySeq
<1>3. SubSeq(<<>>, 1, 0) = <<>> /\ SubSeq(Encode[Abstain], 1, 0) = <<>>
  BY SubSeqEmpty
<1> QED
  BY <1>1, <1>2, <1>3 DEF InLanguage, IsPrefix

-----------------------------------------------------------------------------
(* The inductive invariant. *)

Kind == {"none", "code", "enum", "span"}
Outcome == {"none", "COMPLIANT", "SOFT_VIOLATION", "HARD_VIOLATION"}
Place == {"unusable", "held", "unstated", "proposed", "admissible"}
\* All that alpha may give.
Lifting ==
  {Unlifted} \cup {Located(place, doc) : place \in Place, doc \in Nat}
    \cup {Project(text, kind, admissible, strict) :
            text \in Text, kind \in Kind, admissible \in SUBSET Word, strict \in Strictness}
ExState ==
  [at : {"idle", "asked", "failed", "lifted"}, kind : Kind, admissible : SUBSET Word,
   under : Strictness \cup {"none"}, ids : Seq(Token), outcome : Outcome, lifted : Lifting]
Step == [mass : SUBSET Token, outcome : Outcome]
DecodeShapes ==
  /\ strictness \in Strictness /\ version \in Nat /\ crossed \subseteq Extraction
  /\ ex \in [Extraction -> ExState]
  /\ decode.trace \in Seq(Step)
  /\ decode = [trace |-> decode.trace, tokens |-> decode.tokens, outcome |-> decode.outcome,
               over |-> decode.over]

\* What is open is under the strictness of the bridge, unless it was crossed.
OpenAsStated ==
  \A x \in Extraction \ crossed : ex[x].at = "asked" => ex[x].under = strictness

\* A trace has no mass on what is blocked; only its last step may be hard.
TraceStands ==
  LET t == decode.trace IN
  /\ \A k \in 1 .. Len(t) : t[k].mass \cap Blocked = {}
  /\ \A k \in 1 .. Len(t) : t[k].outcome = "HARD_VIOLATION" =>
       k = Len(t) /\ decode.outcome = "HARD_VIOLATION"
  /\ decode.outcome = "HARD_VIOLATION" => decode.over
  /\ decode.tokens \in Seq(Token)
  /\ Len(decode.tokens) = IF decode.outcome = "HARD_VIOLATION" THEN Len(t) - 1 ELSE Len(t)
  /\ \A k \in 1 .. Len(decode.tokens) : decode.tokens[k] \in t[k].mass \ Blocked

IdleSpelled == \A x \in Extraction : ex[x].at = "idle" => ex[x].ids = <<>>

DecodeInd ==
  /\ DecodeShapes /\ OpenAsStated /\ IdleSpelled /\ TraceStands
  /\ ValuesAreGoverned /\ StrictAsStated /\ SpansAreOfTheManifest /\ DecodesSpellValues

\* The seal of a trace that has no blocked mass tells any other from it.
LEMMA TraceStandsSeals ==
  ASSUME DecodeShapes, TraceStands
  PROVE  SealsVerify
<1> DEFINE t == decode.trace
           n == Len(t)
           Swapped(i, j) == [k \in 1 .. n |-> IF k = i THEN t[j] ELSE IF k = j THEN t[i] ELSE t[k]]
<1>1. t \in Seq(Step) /\ n \in Nat /\ DOMAIN t = 1 .. n /\ decode.tokens \in Seq(Token)
      /\ DOMAIN decode.tokens = 1 .. Len(decode.tokens)
  BY LenProperties DEF DecodeShapes, TraceStands
<1>2. VerifyDecode(t, DecodeDigest(t))
  BY <1>1 DEF VerifyDecode, TraceStands
<1>3. ASSUME NEW u, DecodeDigest(u) = DecodeDigest(t)
      PROVE  DOMAIN u = 1 .. n /\ \A k \in 1 .. n : u[k].mass = t[k].mass
  BY <1>1, <1>3 DEF DecodeDigest
<1>4. n > 0 => ~VerifyDecode(Front(t), DecodeDigest(t))
  <2> SUFFICES ASSUME n > 0 PROVE DOMAIN Front(t) # 1 .. n
    BY <1>3 DEF VerifyDecode
  <2>1. DOMAIN Front(t) = 1 .. n - 1
    <3>1. Front(t) \in Seq(Step) /\ Len(Front(t)) = n - 1
      BY <1>1, SubSeqProperties DEF Front
    <3> QED
      BY <3>1, LenProperties
  <2> QED
    BY <1>1, <2>1, n \in 1 .. n, n \notin 1 .. n - 1
<1>5. ASSUME NEW i \in 1 .. n, NEW j \in 1 .. n, t[i].mass # t[j].mass
      PROVE  ~VerifyDecode(Swapped(i, j), DecodeDigest(t))
  <2>1. Swapped(i, j)[i].mass = t[j].mass
    OBVIOUS
  <2> QED
    BY <1>3, <1>5, <2>1 DEF VerifyDecode
<1>6. ASSUME NEW i \in 1 .. n, NEW m \in SUBSET Token, m # t[i].mass
      PROVE  ~VerifyDecode([t EXCEPT ![i].mass = m], DecodeDigest(t))
  <2>1. t[i] \in Step
    BY <1>1, ElementOfSeq
  <2>2. [t EXCEPT ![i].mass = m][i].mass = m
    BY <1>1, <2>1 DEF Step
  <2> QED
    BY <1>3, <1>6, <2>2 DEF VerifyDecode
<1> QED
  BY <1>1, <1>2, <1>4, <1>5, <1>6 DEF SealsVerify, TraceStands

\* Before the first extraction nothing is open, asked or traced.
LEMMA DecodeInitInd == DecodeInit => DecodeInd
<1> SUFFICES ASSUME DecodeInit PROVE DecodeInd
  OBVIOUS
<1> USE DEF DecodeInit
<1>1. NoExtraction \in ExState
  <2>1. Unlifted \in Lifting /\ <<>> \in Seq(Token)
    BY EmptySeq DEF Lifting
  <2> QED
    BY <2>1 DEF NoExtraction, ExState, Outcome, Kind
<1>2. DecodeShapes
  BY <1>1, EmptySeq DEF DecodeShapes, Strictness, NoDecode
<1>3. OpenAsStated /\ IdleSpelled
  BY DEF OpenAsStated, IdleSpelled, NoExtraction
<1>4. TraceStands
  BY EmptySeq DEF TraceStands, NoDecode
<1>5. LiftedOnes = {}
  BY DEF LiftedOnes, NoExtraction
<1>6. DecodesSpellValues
  BY EmptyInLanguage DEF DecodesSpellValues, NoExtraction
<1> QED
  BY <1>2, <1>3, <1>4, <1>5, <1>6
  DEF DecodeInd, ValuesAreGoverned, StrictAsStated, SpansAreOfTheManifest

\* A word that is admissible, or ABSTAIN, is taken or left as it is.
LEMMA ProjectExact ==
  ASSUME NEW admissible \in SUBSET Word, NEW w \in admissible \cup {Abstain}, NEW kind, NEW strict
  PROVE  Project(w, kind, admissible, strict).how \in {"exact", "abstain"}
<1>1. CASE w = Abstain
  BY <1>1, DecodeAssumption DEF Project, Rejected
<1>2. CASE w # Abstain
  BY <1>2 DEF Project, Taken
<1> QED
  BY <1>1, <1>2

\* Lifting an answer through the admissible set.
LEMMA LiftKeepsInd ==
  ASSUME DecodeInd, NEW x \in Extraction, NEW text \in Text, NEW outcome \in Outcome,
         ex[x].at = "asked", ex[x].kind # "span", Lift(x, text, outcome),
         UNCHANGED <<strictness, crossed, version, decode>>,
         ex[x].ids # <<>> /\ outcome = "COMPLIANT" /\ Len(ex[x].ids) < MaxSteps =>
           text \in ex[x].admissible \cup {Abstain}
  PROVE  DecodeInd'
<1> DEFINE r == Project(text, ex[x].kind, ex[x].admissible, strictness)
<1>0. ex \in [Extraction -> ExState] /\ ex[x] \in ExState /\ strictness \in Strictness
  BY DEF DecodeInd, DecodeShapes
<1>1. ex[x].kind \in Kind /\ ex[x].admissible \in SUBSET Word /\ ex[x].ids \in Seq(Token)
  BY <1>0 DEF ExState
<1>2. r \in Lifting
  BY <1>0, <1>1 DEF Lifting
<1> HIDE DEF r
<1>3. ex' = [ex EXCEPT ![x].at = "lifted", ![x].outcome = outcome, ![x].lifted = r]
  BY DEF Lift, r
<1>4. /\ ex'[x].at = "lifted" /\ ex'[x].outcome = outcome /\ ex'[x].lifted = r
      /\ ex'[x].kind = ex[x].kind /\ ex'[x].admissible = ex[x].admissible
      /\ ex'[x].under = ex[x].under /\ ex'[x].ids = ex[x].ids
      /\ \A y \in Extraction \ {x} : ex'[y] = ex[y]
  BY <1>0, <1>3 DEF ExState
<1>5. DecodeShapes'
  <2>1. ex' \in [Extraction -> ExState]
    BY <1>0, <1>2, <1>3 DEF ExState
  <2> QED
    BY <2>1 DEF DecodeInd, DecodeShapes
<1>6. OpenAsStated' /\ IdleSpelled'
  BY <1>4 DEF DecodeInd, OpenAsStated, IdleSpelled
<1>7. TraceStands'
  BY DEF DecodeInd, TraceStands, Blocked
<1>8. "value" \in DOMAIN r =>
        /\ r.value \in Under(ex[x].admissible) /\ r.how \in Hows(strictness)
        /\ ex[x].kind = "code" /\ r.how = "respelled" => Norm[r.candidate] = Norm[r.value]
  BY <1>0, <1>1, ProjectGoverned DEF r
<1>9. \A y \in LiftedOnes' : y \in Extraction /\ (y = x => "value" \in DOMAIN r)
                             /\ (y # x => y \in LiftedOnes /\ ex'[y] = ex[y])
  BY <1>4 DEF LiftedOnes
<1>10. ValuesAreGoverned'
  BY <1>4, <1>8, <1>9 DEF DecodeInd, ValuesAreGoverned
<1>11. StrictAsStated'
  <2>1. ASSUME NEW y \in LiftedOnes' \ crossed', ex'[y].kind # "span"
        PROVE  ex'[y].lifted.how \in Hows(ex'[y].under)
    <3>1. CASE y = x
      <4>1. ex[x].under = strictness
        BY <2>1, <3>1 DEF DecodeInd, OpenAsStated
      <4> QED
        BY <1>4, <1>8, <1>9, <2>1, <3>1, <4>1
    <3>2. CASE y # x
      BY <1>9, <2>1, <3>2 DEF DecodeInd, StrictAsStated, Hows
    <3> QED
      BY <3>1, <3>2
  <2> QED
    BY <2>1 DEF StrictAsStated, Hows
<1>12. SpansAreOfTheManifest'
  BY <1>4, <1>9 DEF DecodeInd, SpansAreOfTheManifest
<1>13. DecodesSpellValues'
  <2>1. ASSUME text \in ex[x].admissible \cup {Abstain} PROVE r.how \in {"exact", "abstain"}
    BY <1>1, <2>1, ProjectExact DEF r
  <2> QED
    BY <1>4, <2>1 DEF DecodeInd, DecodesSpellValues, InLanguage, Language
<1> QED
  BY <1>5, <1>6, <1>7, <1>10, <1>11, <1>12, <1>13 DEF DecodeInd

\* An extraction asks for a slot.
LEMMA AskKeepsInd ==
  ASSUME DecodeInd, NEW x \in Extraction, Ask(x)
  PROVE  DecodeInd'
<1>0. ex \in [Extraction -> ExState] /\ ex[x] \in ExState /\ strictness \in Strictness
  BY DEF DecodeInd, DecodeShapes
<1>1. PICK slot \in SlotAsk, asked \in Strictness \cup {"unasked"} :
       /\ strictness' = IF asked = "unasked" THEN strictness ELSE asked
       /\ crossed' = crossed \cup
            (IF strictness' = strictness THEN {} ELSE {y \in Extraction : ex[y].at = "asked"})
       /\ ex' = [ex EXCEPT ![x] =
            IF slot.kind \in {"code", "enum"} /\ slot.admissible = {}
            THEN [@ EXCEPT !.at = "failed"]
            ELSE [@ EXCEPT !.at = "asked", !.kind = slot.kind, !.admissible = slot.admissible,
                           !.under = strictness', !.outcome = "COMPLIANT"]]
  BY DEF Ask
<1>2. ex[x].at = "idle" /\ UNCHANGED <<version, decode>>
  BY DEF Ask
<1>3. strictness' \in Strictness /\ slot.kind \in Kind /\ slot.admissible \in SUBSET Word
  BY <1>0, <1>1, DecodeAssumption DEF Kind
<1>4. /\ ex'[x].at \in {"failed", "asked"} /\ ex'[x].ids = ex[x].ids
      /\ ex'[x].at = "asked" => ex'[x].under = strictness'
      /\ \A y \in Extraction \ {x} : ex'[y] = ex[y]
      /\ ex' \in [Extraction -> ExState]
  BY <1>0, <1>1, <1>2, <1>3 DEF ExState, Outcome
<1>5. DecodeShapes'
  BY <1>1, <1>2, <1>3, <1>4 DEF DecodeInd, DecodeShapes
<1>6. OpenAsStated' /\ IdleSpelled'
  <2>1. ASSUME NEW y \in Extraction, y \notin crossed', ex'[y].at = "asked"
        PROVE  ex'[y].under = strictness'
    <3>1. CASE y = x
      BY <1>4, <2>1, <3>1
    <3>2. CASE y # x
      BY <1>1, <1>4, <2>1, <3>2 DEF DecodeInd, OpenAsStated
    <3> QED
      BY <3>1, <3>2
  <2> QED
    BY <1>4, <2>1 DEF DecodeInd, OpenAsStated, IdleSpelled
<1>7. TraceStands'
  BY <1>2 DEF DecodeInd, TraceStands, Blocked
<1>8. \A y \in LiftedOnes' : y \in LiftedOnes /\ ex'[y] = ex[y]
  BY <1>4 DEF LiftedOnes
<1>9. crossed \subseteq crossed'
  BY <1>1
<1>10. ValuesAreGoverned'
  BY <1>8 DEF DecodeInd, ValuesAreGoverned
<1>11. StrictAsStated' /\ SpansAreOfTheManifest'
  BY <1>8, <1>9 DEF DecodeInd, StrictAsStated, SpansAreOfTheManifest
<1>12. DecodesSpellValues'
  <2>1. ex[x].ids = <<>>
    BY <1>2 DEF DecodeInd, IdleSpelled
  <2>2. ex'[x].ids = <<>> /\ ex'[x].at # "lifted"
    BY <1>4, <2>1
  <2>3. InLanguage(ex'[x].admissible, <<>>)
    BY EmptyInLanguage
  <2>4. ASSUME NEW y \in Extraction, y # x
        PROVE  /\ InLanguage(ex'[y].admissible, ex'[y].ids)
               /\ ex'[y].at = "lifted" /\ ex'[y].ids # <<>> /\ ex'[y].outcome = "COMPLIANT"
                    /\ Len(ex'[y].ids) < MaxSteps => ex'[y].lifted.how \in {"exact", "abstain"}
    <3>1. ex'[y] = ex[y]
      BY <1>4, <2>4
    <3> QED
      BY <2>4, <3>1 DEF DecodeInd, DecodesSpellValues
  <2> QED
    BY <2>2, <2>3, <2>4 DEF DecodesSpellValues, InLanguage, Language
<1> QED
  BY <1>5, <1>6, <1>7, <1>10, <1>11, <1>12 DEF DecodeInd

\* A vendor answers, with whatever text.
LEMMA VendorKeepsInd ==
  ASSUME DecodeInd, NEW x \in Extraction, VendorAnswers(x)
  PROVE  DecodeInd'
<1>0. /\ ex \in [Extraction -> ExState] /\ ex[x] \in ExState /\ version \in Nat
      /\ ex[x].at = "asked" /\ ex[x].ids = <<>>
      /\ UNCHANGED <<strictness, crossed, version, decode>>
  BY DEF DecodeInd, DecodeShapes, VendorAnswers
<1>1. CASE ex[x].kind # "span"
  <2>1. PICK w \in Text : Lift(x, w, "COMPLIANT")
    BY <1>1 DEF VendorAnswers, Text
  <2> QED
    BY <1>0, <1>1, <2>1, LiftKeepsInd DEF Outcome
<1>2. CASE ex[x].kind = "span"
  <2>1. PICK place \in Place :
          ex' = [ex EXCEPT ![x].at = "lifted", ![x].lifted = Located(place, version)]
    BY <1>2 DEF VendorAnswers, Place
  <2> DEFINE r == Located(place, version)
  <2>2. r \in Lifting
    BY <1>0 DEF Lifting
  <2>3. "value" \in DOMAIN r => r.value = 0
    BY DEF Located, Rejected
  <2> HIDE DEF r
  <2>4. ex' = [ex EXCEPT ![x].at = "lifted", ![x].lifted = r]
    BY <2>1 DEF r
  <2>5. /\ ex'[x].at = "lifted" /\ ex'[x].lifted = r /\ ex'[x].kind = "span"
        /\ ex'[x].admissible = ex[x].admissible /\ ex'[x].ids = <<>>
        /\ \A y \in Extraction \ {x} : ex'[y] = ex[y]
    BY <1>0, <1>2, <2>4 DEF ExState
  <2>6. DecodeShapes'
    <3>1. ex' \in [Extraction -> ExState]
      BY <1>0, <2>2, <2>4 DEF ExState
    <3> QED
      BY <1>0, <3>1 DEF DecodeInd, DecodeShapes
  <2>7. OpenAsStated' /\ IdleSpelled' /\ TraceStands'
    BY <1>0, <2>5 DEF DecodeInd, OpenAsStated, IdleSpelled, TraceStands, Blocked
  <2>8. \A y \in LiftedOnes' : y \in Extraction /\ (y = x => "value" \in DOMAIN r)
                               /\ (y # x => y \in LiftedOnes /\ ex'[y] = ex[y])
    BY <2>5 DEF LiftedOnes
  <2>9. ValuesAreGoverned' /\ StrictAsStated'
    <3>1. \A y \in LiftedOnes' : ex'[y].kind # "span" => y \in LiftedOnes /\ ex'[y] = ex[y]
      BY <2>5, <2>8
    <3>2. ValuesAreGoverned'
      BY <3>1 DEF DecodeInd, ValuesAreGoverned
    <3>3. StrictAsStated'
      BY <1>0, <3>1 DEF DecodeInd, StrictAsStated
    <3> QED
      BY <3>2, <3>3
  <2>10. SpansAreOfTheManifest'
    BY <2>3, <2>5, <2>8 DEF DecodeInd, SpansAreOfTheManifest
  <2>11. DecodesSpellValues'
    BY <2>5, EmptyInLanguage DEF DecodeInd, DecodesSpellValues, InLanguage, Language
  <2> QED
    BY <2>6, <2>7, <2>9, <2>10, <2>11 DEF DecodeInd
<1> QED
  BY <1>1, <1>2

\* What the tokenizer gives back is a text.
LEMMA DecodedType ==
  ASSUME NEW ids \in Seq(Token)
  PROVE  Decoded(ids) \in Text
<1>1. CASE ids \in Range(Encode)
  <2>1. PICK w \in Word \cup {Abstain} : ids = Encode[w]
    BY <1>1, DecodeAssumption DEF Range
  <2> QED
    BY <2>1, DecodedWord DEF Text
<1>2. CASE ids \notin Range(Encode)
  BY <1>2 DEF Decoded, Text
<1> QED
  BY <1>1, <1>2

\* The local model emits a token the mask allows, or ends.
LEMMA EmitKeepsInd ==
  ASSUME DecodeInd, NEW x \in Extraction, Emit(x)
  PROVE  DecodeInd'
<1>0. /\ ex \in [Extraction -> ExState] /\ ex[x] \in ExState /\ ex[x].ids \in Seq(Token)
      /\ ex[x].at = "asked" /\ ex[x].kind # "span"
      /\ UNCHANGED <<strictness, crossed, version, decode>>
  BY DEF DecodeInd, DecodeShapes, Emit, Decoding, ExState
<1>1. CASE Lift(x, Decoded(ex[x].ids), "HARD_VIOLATION")
  BY <1>0, <1>1, LiftKeepsInd, DecodedType DEF Outcome
<1>2. CASE \E t \in MaskNext(ex[x].admissible, ex[x].ids) :
             ex' = [ex EXCEPT ![x].ids = Append(@, t)]
  <2>1. PICK t \in MaskNext(ex[x].admissible, ex[x].ids) : ex' = [ex EXCEPT ![x].ids = Append(@, t)]
    BY <1>2
  <2>2. /\ t \in Token /\ Append(ex[x].ids, t) \in Seq(Token)
        /\ InLanguage(ex[x].admissible, Append(ex[x].ids, t))
    BY <1>0, <2>1, AppendProperties DEF MaskNext, InLanguage
  <2>3. /\ ex'[x].ids = Append(ex[x].ids, t) /\ ex'[x].at = "asked"
        /\ ex'[x].admissible = ex[x].admissible /\ ex'[x].under = ex[x].under
        /\ \A y \in Extraction \ {x} : ex'[y] = ex[y]
    BY <1>0, <2>1 DEF ExState
  <2>4. DecodeShapes'
    <3>1. ex' \in [Extraction -> ExState]
      BY <1>0, <2>1, <2>2 DEF ExState
    <3> QED
      BY <1>0, <3>1 DEF DecodeInd, DecodeShapes
  <2>5. OpenAsStated' /\ IdleSpelled' /\ TraceStands'
    BY <1>0, <2>3 DEF DecodeInd, OpenAsStated, IdleSpelled, TraceStands, Blocked
  <2>6. \A y \in LiftedOnes' : y \in LiftedOnes /\ ex'[y] = ex[y]
    BY <2>3 DEF LiftedOnes
  <2>7. ValuesAreGoverned' /\ StrictAsStated' /\ SpansAreOfTheManifest'
    BY <1>0, <2>6 DEF DecodeInd, ValuesAreGoverned, StrictAsStated, SpansAreOfTheManifest
  <2>8. DecodesSpellValues'
    BY <2>2, <2>3 DEF DecodeInd, DecodesSpellValues, InLanguage, Language
  <2> QED
    BY <2>4, <2>5, <2>7, <2>8 DEF DecodeInd
<1> QED
  BY <1>1, <1>2 DEF Emit

\* The tokens are decoded into a value.
LEMMA FinishKeepsInd ==
  ASSUME DecodeInd, NEW x \in Extraction, Finish(x)
  PROVE  DecodeInd'
<1> DEFINE out == IF Len(ex[x].ids) < MaxSteps /\ ~InLanguage(ex[x].admissible, ex[x].ids)
                  THEN "HARD_VIOLATION" ELSE "COMPLIANT"
<1>0. /\ ex \in [Extraction -> ExState] /\ ex[x] \in ExState /\ ex[x].ids \in Seq(Token)
      /\ ex[x].at = "asked" /\ ex[x].kind # "span"
      /\ UNCHANGED <<strictness, crossed, version, decode>>
  BY DEF DecodeInd, DecodeShapes, Finish, Decoding, ExState
<1>1. Lift(x, Decoded(ex[x].ids), out) /\ out \in Outcome
  BY DEF Finish, Outcome
<1>2. ASSUME out = "COMPLIANT", Len(ex[x].ids) < MaxSteps
      PROVE  Decoded(ex[x].ids) \in ex[x].admissible \cup {Abstain}
  <2>1. Accepting(ex[x].admissible, ex[x].ids)
    <3>1. Len(ex[x].ids) # MaxSteps
      BY <1>0, <1>2, LenProperties, DecodeAssumption
    <3> QED
      BY <1>2, <3>1 DEF Finish
  <2>2. PICK w \in ex[x].admissible \cup {Abstain} : ex[x].ids = Encode[w]
    BY <2>1 DEF Accepting, Language
  <2>3. w \in Word \cup {Abstain}
    BY <1>0 DEF ExState
  <2> QED
    BY <2>2, <2>3, DecodedWord
<1> HIDE DEF out
<1>3. Decoded(ex[x].ids) \in Text
  BY <1>0, DecodedType
<1> QED
  BY <1>0, <1>1, <1>2, <1>3, LiftKeepsInd

\* Every step keeps the inductive invariant.
LEMMA DecodeStepKeepsInd ==
  ASSUME DecodeInd, DecodeStep
  PROVE  DecodeInd'
<1> DEFINE t == decode.trace
           n == Len(t)
<1>1. PICK raw \in SUBSET Token, over \in BOOLEAN, strict \in BOOLEAN :
        LET r == StepRecord(raw, over, strict)
            hard == r.outcome = "HARD_VIOLATION" IN
        \E tok \in IF hard THEN {Abstain} ELSE r.mass :
          decode' = [trace |-> Append(decode.trace, r),
                     tokens |-> IF hard THEN decode.tokens ELSE Append(decode.tokens, tok),
                     outcome |-> IF hard THEN "HARD_VIOLATION" ELSE decode.outcome,
                     over |-> hard \/ Len(decode.trace) + 1 = MaxSteps]
  BY DEF DecodeStep
<1> DEFINE r == StepRecord(raw, over, strict)
           hard == r.outcome = "HARD_VIOLATION"
<1>2. r \in Step /\ r.mass \cap Blocked = {} /\ r.mass \subseteq Token
  BY DEF StepRecord, Step, Outcome
<1> HIDE DEF r
<1>3. PICK tok \in IF hard THEN {Abstain} ELSE r.mass :
        decode' = [trace |-> Append(t, r),
                   tokens |-> IF hard THEN decode.tokens ELSE Append(decode.tokens, tok),
                   outcome |-> IF hard THEN "HARD_VIOLATION" ELSE decode.outcome,
                   over |-> hard \/ n + 1 = MaxSteps]
  BY <1>1 DEF r
<1>4. /\ t \in Seq(Step) /\ n \in Nat /\ decode.tokens \in Seq(Token)
      /\ decode.outcome # "HARD_VIOLATION" /\ Len(decode.tokens) = n
      /\ \A k \in 1 .. n : t[k].outcome # "HARD_VIOLATION" /\ t[k].mass \cap Blocked = {}
      /\ \A k \in 1 .. n : decode.tokens[k] \in t[k].mass \ Blocked
      /\ UNCHANGED <<strictness, ex, crossed, version>>
  BY LenProperties DEF DecodeInd, DecodeShapes, TraceStands, DecodeStep
<1>5. /\ decode'.trace = Append(t, r) /\ decode'.trace \in Seq(Step) /\ Len(decode'.trace) = n + 1
      /\ \A k \in 1 .. n : decode'.trace[k] = t[k]
      /\ decode'.trace[n + 1] = r
  BY <1>2, <1>3, <1>4, AppendProperties
<1>6. DecodeShapes'
  BY <1>3, <1>4, <1>5 DEF DecodeInd, DecodeShapes
<1>7. \A k \in 1 .. n + 1 : k \in 1 .. n \/ k = n + 1
  BY <1>4
<1>8. TraceStands'
  <2>1. CASE hard
    <3>1. decode'.tokens = decode.tokens /\ decode'.outcome = "HARD_VIOLATION" /\ decode'.over
      BY <1>3, <2>1
    <3>2. \A k \in 1 .. n + 1 : decode'.trace[k].mass \cap Blocked = {}
      BY <1>2, <1>4, <1>5, <1>7
    <3>3. \A k \in 1 .. n + 1 : decode'.trace[k].outcome = "HARD_VIOLATION" => k = n + 1
      BY <1>4, <1>5, <1>7
    <3> QED
      BY <1>4, <1>5, <3>1, <3>2, <3>3 DEF TraceStands, Blocked
  <2>2. CASE ~hard
    <3>1. /\ tok \in Token \ Blocked /\ tok \in r.mass
          /\ decode'.tokens = Append(decode.tokens, tok) /\ decode'.outcome = decode.outcome
      BY <1>2, <1>3, <2>2
    <3>2. /\ decode'.tokens \in Seq(Token) /\ Len(decode'.tokens) = n + 1
          /\ \A k \in 1 .. n : decode'.tokens[k] = decode.tokens[k]
          /\ decode'.tokens[n + 1] = tok
      BY <1>4, <3>1, AppendProperties
    <3>3. \A k \in 1 .. n + 1 : decode'.trace[k].mass \cap Blocked = {}
      BY <1>2, <1>4, <1>5, <1>7
    <3>4. \A k \in 1 .. n + 1 : decode'.trace[k].outcome # "HARD_VIOLATION"
      BY <1>4, <1>5, <1>7, <2>2
    <3>5. \A k \in 1 .. n + 1 : decode'.tokens[k] \in decode'.trace[k].mass \ Blocked
      BY <1>4, <1>5, <1>7, <3>1, <3>2
    <3> QED
      BY <1>4, <1>5, <3>1, <3>2, <3>3, <3>4, <3>5 DEF TraceStands, Blocked
  <2> QED
    BY <2>1, <2>2
<1>9. LiftedOnes' = LiftedOnes
  BY <1>4 DEF LiftedOnes
<1> QED
  BY <1>4, <1>6, <1>8, <1>9 DEF DecodeInd, OpenAsStated, IdleSpelled, ValuesAreGoverned,
     StrictAsStated, SpansAreOfTheManifest, DecodesSpellValues, InLanguage, Language

\* Whatever a model answers, what is taken is governed: for every vocabulary,
\* tokenizer and set of extractions, over a bridge whose strictness they share.
\* Decodes spell admissible values and their seals tell a trace from any that
\* lacks a step, swaps two, or moves mass.
THEOREM DecodesStayGoverned == DecodeSpec => []DecodeInv
<1>1. DecodeInd /\ [DecodeNext]_decodeVars => DecodeInd'
  <2> SUFFICES ASSUME DecodeInd, [DecodeNext]_decodeVars PROVE DecodeInd'
    OBVIOUS
  <2>1. CASE DocumentChanges
    <3>1. version' \in Nat /\ UNCHANGED <<strictness, ex, crossed, decode>>
      BY <2>1 DEF DocumentChanges, DecodeInd, DecodeShapes
    <3>2. LiftedOnes' = LiftedOnes
      BY <3>1 DEF LiftedOnes
    <3> QED
      BY <3>1, <3>2 DEF DecodeInd, DecodeShapes, OpenAsStated, IdleSpelled, TraceStands, Blocked,
         ValuesAreGoverned, StrictAsStated, SpansAreOfTheManifest, DecodesSpellValues
  <2>2. CASE UNCHANGED decodeVars
    <3>1. LiftedOnes' = LiftedOnes
      BY <2>2 DEF LiftedOnes, decodeVars
    <3> QED
      BY <2>2, <3>1 DEF decodeVars, DecodeInd, DecodeShapes, OpenAsStated, IdleSpelled, TraceStands,
         Blocked, ValuesAreGoverned, StrictAsStated, SpansAreOfTheManifest, DecodesSpellValues
  <2> QED
    BY <2>1, <2>2, AskKeepsInd, VendorKeepsInd, EmitKeepsInd, FinishKeepsInd, DecodeStepKeepsInd
       DEF DecodeNext, ExtractNext
<1>2. DecodeInd => DecodeInv
  BY TraceStandsSeals DEF DecodeInd, DecodeInv
<1> QED
  BY DecodeInitInd, <1>1, <1>2, PTL DEF DecodeSpec

-----------------------------------------------------------------------------
(* What a statement inherits (Derivation).                                 *)

Trace == [id : 1 .. MaxTraces, stmt : Statement, ctx : SUBSET Nat, since : Nat,
          class : {"service", "human", "ai", "deterministic"}, depth : 0 .. MaxDepth]
IdleRun == [phase : {"idle"}, seq : Nat]
ComputingRun == [phase : {"compute"}, seq : Nat, stmt : Statement, ctx : SUBSET Nat,
                 since : Nat]
FlushingRun == [phase : {"flush"}, seq : Nat, reused : SUBSET Nat]

\* The depths below a trace that has read c, and the traces that have read n.
DepthsIn(j, c) == {0} \cup {j[m].depth : m \in {k \in c : j[k].class = "ai"}}
HeirsIn(j, n) == {m \in 1 .. Len(j) : n \in j[m].ctx}

\* The depth a trace carries is that of what it read, and what it was filed
\* beside was filed after its program had looked.
TraceFits(j, n) ==
  /\ j[n].since < n /\ j[n].ctx \subseteq 1 .. j[n].since
  /\ j[n].class = "ai" => j[n].depth = 1 + Max(DepthsIn(j, j[n].ctx))
  /\ \A m \in 1 .. n - 1 : j[m].stmt = j[n].stmt => m > j[n].since

\* A program has looked at the journal up to since, and found nothing there
\* that answers for its statement.
RunFits(j, r) ==
  /\ r.seq <= Len(j)
  /\ r.phase = "compute" =>
       /\ r.since <= Len(j) /\ r.ctx \subseteq 1 .. r.since
       /\ \A m \in 1 .. r.since : j[m].stmt # r.stmt
  /\ r.phase = "flush" => r.reused \subseteq 1 .. Len(j)

WaitingIn(run, n) ==
  {p \in Program : n \in IF run[p].phase = "flush" THEN run[p].reused ELSE {}}
Counted(j, u, run, d, n) ==
  j[n].class = "ai" =>
    Cardinality(HeirsIn(j, n)) <= u[j[n].id] + Cardinality(WaitingIn(run, n))
                                    + d * Cardinality(Program)

AllCounted(j, u, run, d) == \A n \in 1 .. Len(j) : Counted(j, u, run, d, n)
AllFit(j) == \A n \in 1 .. Len(j) : TraceFits(j, n)
OnlyMoves(run, p, next) == \A q \in Program \ {p} : next[q] = run[q]
Marked(j, u, ns) ==
  [id \in 1 .. MaxTraces |-> u[id] + Cardinality({m \in ns : j[m].id = id})]
AiIn(j, c) == {m \in c : j[m].class = "ai"}

DerivationShapes ==
  /\ journal \in Seq(Trace) /\ Len(journal) <= MaxTraces
  /\ reuse \in [1 .. MaxTraces -> Nat]
  /\ approved \subseteq Statement
  /\ running \in [Program -> IdleRun \cup ComputingRun \cup FlushingRun]
  /\ deaths \in Nat

DerivationInd ==
  /\ DerivationShapes
  /\ AllFit(journal)
  /\ \A n \in 1 .. Len(journal) : journal[n].class = "human" => journal[n].stmt \in approved
  /\ \A p \in Program : RunFits(journal, running[p])
  /\ AllCounted(journal, reuse, running, deaths)

\* A set of numbers that is not empty has a least member.
LEMMA NatMin ==
  ASSUME NEW T \in SUBSET Nat, T # {}
  PROVE  \E x \in T : \A y \in T : x <= y
<1>1. IsWellFoundedOn(OpToRel(<, Nat), Nat)
  BY NatLessThanWellFounded
<1>2. PICK R : R = OpToRel(<, Nat)
  OBVIOUS
<1>3. \A m, n \in Nat : m < n => <<m, n>> \in R
  BY <1>2 DEF OpToRel
<1>4. PICK x \in T : \A y \in T : <<y, x>> \notin R
  BY <1>1, <1>2, WFMin
<1>5. ASSUME NEW y \in T PROVE x <= y
  <2>1. x \in Nat /\ y \in Nat /\ ~ (y < x)
    BY <1>3, <1>4
  <2> QED
    BY <2>1
<1> QED
  BY <1>5

\* A set of numbers up to a bound has the maximum the code takes of it.
LEMMA MaxIsThere ==
  ASSUME NEW b \in Nat, NEW S \in SUBSET (0 .. b), S # {}
  PROVE  Max(S) \in S /\ \A y \in S : y <= Max(S)
<1> DEFINE T == {b - s : s \in S}
<1>1. T \in SUBSET Nat /\ T # {}
  <2>1. \A s \in S : b - s \in Nat
    OBVIOUS
  <2> QED
    BY <2>1
<1>2. PICK x \in T : \A y \in T : x <= y
  BY <1>1, NatMin
<1>3. PICK s \in S : x = b - s
  OBVIOUS
<1>4. \A y \in S : s >= y
  <2> TAKE y \in S
  <2>1. b - s <= b - y
    BY <1>2, <1>3
  <2> QED
    BY <2>1
<1>5. \E m \in S : \A y \in S : m >= y
  BY <1>4
<1>6. Max(S) \in S /\ \A y \in S : Max(S) >= y
  BY <1>5 DEF Max
<1>7. \A y \in S : y \in Int
  OBVIOUS
<1> QED
  BY <1>6, <1>7

\* The depths of what was read, and the deepest of them, are within the cap.
LEMMA DepthsAreSmall ==
  ASSUME DerivationBounds, NEW j \in Seq(Trace), NEW c \in SUBSET (1 .. Len(j))
  PROVE  /\ DepthsIn(j, c) \subseteq 0 .. MaxDepth
         /\ Max(DepthsIn(j, c)) \in 0 .. MaxDepth
<1>1. \A m \in 1 .. Len(j) : j[m].depth \in 0 .. MaxDepth
  <2> TAKE m \in 1 .. Len(j)
  <2>1. j[m] \in Trace
    BY ElementOfSeq
  <2> QED
    BY <2>1 DEF Trace
<1>2. MaxDepth \in Nat
  BY DEF DerivationBounds
<1>3. DepthsIn(j, c) \in SUBSET (0 .. MaxDepth) /\ DepthsIn(j, c) # {}
  BY <1>1, <1>2 DEF DepthsIn
<1> QED
  BY <1>2, <1>3, MaxIsThere

\* The inferences stacked below a trace are as many as its depth says.
LEMMA HopsAreDepths ==
  ASSUME DerivationBounds, journal \in Seq(Trace),
         AllFit(journal)
  PROVE  \A n \in Position :
           Hops[n] = IF journal[n].class = "ai" THEN journal[n].depth ELSE 0
<1>1. PICK j \in Seq(Trace) : j = journal
  OBVIOUS
<1> DEFINE F == [n \in 1 .. Len(j) |-> IF j[n].class = "ai" THEN j[n].depth ELSE 0]
           Fits(f) == f = [n \in 1 .. Len(j) |->
                             IF j[n].class = "ai"
                               THEN 1 + Max({0} \cup {f[m] : m \in j[n].ctx}) ELSE 0]
<1>2. ASSUME NEW n \in 1 .. Len(j)
      PROVE  /\ j[n].since < n /\ j[n].since \in Nat /\ n \in Nat
             /\ j[n].ctx \subseteq 1 .. j[n].since /\ j[n].ctx \subseteq 1 .. Len(j)
             /\ \A m \in j[n].ctx : m \in 1 .. Len(j) /\ m < n
             /\ j[n].class = "ai" => j[n].depth = 1 + Max(DepthsIn(j, j[n].ctx))
  <2>1. TraceFits(j, n)
    BY <1>1 DEF AllFit
  <2>2. j[n] \in Trace
    BY ElementOfSeq
  <2>3. j[n].since \in Nat /\ n \in Nat /\ Len(j) \in Nat /\ n <= Len(j)
    BY <2>2 DEF Trace
  <2>4. /\ j[n].since < n /\ j[n].ctx \subseteq 1 .. j[n].since
        /\ j[n].class = "ai" => j[n].depth = 1 + Max(DepthsIn(j, j[n].ctx))
    BY <2>1 DEF TraceFits
  <2> QED
    BY <2>3, <2>4
<1>3. ASSUME NEW n \in 1 .. Len(j)
      PROVE  {0} \cup {F[m] : m \in j[n].ctx} = DepthsIn(j, j[n].ctx)
  <2>1. \A m \in j[n].ctx : F[m] = IF j[m].class = "ai" THEN j[m].depth ELSE 0
    BY <1>2
  <2> HIDE DEF F
  <2> QED
    BY <2>1 DEF DepthsIn
<1>4. Fits(F)
  <2>1. ASSUME NEW n \in 1 .. Len(j)
        PROVE  F[n] = IF j[n].class = "ai"
                        THEN 1 + Max({0} \cup {F[m] : m \in j[n].ctx}) ELSE 0
    <3>1. F[n] = IF j[n].class = "ai" THEN j[n].depth ELSE 0
      OBVIOUS
    <3> HIDE DEF F
    <3> QED
      BY <1>2, <1>3, <3>1
  <2>2. F = [n \in 1 .. Len(j) |-> F[n]]
    OBVIOUS
  <2> HIDE DEF F
  <2>3. [n \in 1 .. Len(j) |-> F[n]] =
          [n \in 1 .. Len(j) |-> IF j[n].class = "ai"
                                   THEN 1 + Max({0} \cup {F[m] : m \in j[n].ctx}) ELSE 0]
    BY <2>1
  <2> QED
    BY <2>2, <2>3
<1>5. Hops = CHOOSE f : Fits(f)
  BY <1>1 DEF Hops, Position
<1>6. PICK h : h = Hops
  OBVIOUS
<1>7. Fits(h)
  <2> HIDE DEF Fits
  <2>1. Fits(CHOOSE f : Fits(f))
    BY <1>4, Zenon
  <2> QED
    BY <1>5, <1>6, <2>1
<1>8. \A n \in 1 .. Len(j) :
        h[n] = IF j[n].class = "ai"
                 THEN 1 + Max({0} \cup {h[m] : m \in j[n].ctx}) ELSE 0
  BY <1>7
<1> DEFINE Wrong == {n \in 1 .. Len(j) : h[n] # F[n]}
<1>9. Wrong = {}
  <2> SUFFICES ASSUME Wrong # {} PROVE FALSE
    OBVIOUS
  <2>1. Wrong \in SUBSET Nat
    OBVIOUS
  <2>2. PICK n \in Wrong : \A m \in Wrong : n <= m
    BY <2>1, NatMin
  <2>3. \A m \in j[n].ctx : h[m] = F[m]
    <3> TAKE m \in j[n].ctx
    <3>1. m \in 1 .. Len(j) /\ m < n /\ n \in Nat
      BY <1>2
    <3> QED
      BY <2>2, <3>1
  <2>4. {h[m] : m \in j[n].ctx} = {F[m] : m \in j[n].ctx}
    BY <2>3
  <2>5. n \in 1 .. Len(j) /\ h[n] # F[n]
    OBVIOUS
  <2> HIDE DEF F, Wrong
  <2>6. h[n] = F[n]
    BY <1>4, <1>8, <2>4, <2>5
  <2> QED
    BY <2>5, <2>6
<1> QED
  BY <1>1, <1>6, <1>9 DEF Position

\* A statement key tells which statement it is of.
LEMMA KeysTellStatements ==
  ASSUME StatementAssumption, NEW s \in Statement, NEW t \in Statement,
         StatementKey(s) = StatementKey(t)
  PROVE  s = t
<1> DEFINE R == [infers : BOOLEAN, signer : {"none", "service", "human"},
                 traces : {"Recent", "Attested", "None"}, input : Nat]
<1>1. s \in R /\ t \in R
  BY DEF StatementAssumption
<1>2. /\ StatementKey(s).compute = <<s.infers, s.signer>>
      /\ StatementKey(s).context = s.traces /\ StatementKey(s).params = s.input
  BY DEF StatementKey
<1>3. /\ StatementKey(t).compute = <<t.infers, t.signer>>
      /\ StatementKey(t).context = t.traces /\ StatementKey(t).params = t.input
  BY DEF StatementKey
<1>4. <<s.infers, s.signer>> = <<t.infers, t.signer>> /\ s.traces = t.traces /\ s.input = t.input
  BY <1>2, <1>3
<1>5. s.infers = t.infers /\ s.signer = t.signer
  BY <1>4
<1> QED
  BY <1>1, <1>4, <1>5

\* A trace that fits what it has read fits the journal it is appended to.
LEMMA AppendedFits ==
  ASSUME NEW j \in Seq(Trace), NEW t \in Trace, NEW k, k = Append(j, t),
         AllFit(j),
         t.since <= Len(j), t.ctx \subseteq 1 .. t.since,
         t.class = "ai" => t.depth = 1 + Max(DepthsIn(j, t.ctx)),
         \A m \in 1 .. Len(j) : j[m].stmt = t.stmt => m > t.since
  PROVE  AllFit(k)
<1>1. PICK L \in Nat : L = Len(j)
  OBVIOUS
<1>2. /\ k \in Seq(Trace) /\ Len(k) = L + 1 /\ k[L + 1] = t
      /\ \A n \in 1 .. L : k[n] = j[n]
  BY <1>1, AppendProperties
<1>3. \A c \in SUBSET (1 .. L) : DepthsIn(k, c) = DepthsIn(j, c)
  <2> TAKE c \in SUBSET (1 .. L)
  <2>1. \A m \in c : k[m] = j[m]
    BY <1>2
  <2>2. {m \in c : k[m].class = "ai"} = {m \in c : j[m].class = "ai"}
    BY <2>1
  <2>3. {k[m].depth : m \in {i \in c : k[i].class = "ai"}}
          = {j[m].depth : m \in {i \in c : j[i].class = "ai"}}
    BY <2>1, <2>2
  <2> QED
    BY <2>3 DEF DepthsIn
<1>4. ASSUME NEW n \in 1 .. L PROVE TraceFits(k, n)
  <2>1. TraceFits(j, n)
    BY <1>1 DEF AllFit
  <2>2. j[n] \in Trace
    BY <1>1, ElementOfSeq
  <2>3. j[n].since \in Nat
    BY <2>2 DEF Trace
  <2>4. k[n] = j[n] /\ \A m \in 1 .. n - 1 : k[m] = j[m]
    BY <1>2
  <2>5. j[n].since < n /\ j[n].ctx \subseteq 1 .. j[n].since
    BY <2>1 DEF TraceFits
  <2>6. j[n].ctx \in SUBSET (1 .. L)
    BY <2>3, <2>5
  <2>7. DepthsIn(k, j[n].ctx) = DepthsIn(j, j[n].ctx)
    BY <1>3, <2>6
  <2> QED
    BY <2>1, <2>4, <2>7 DEF TraceFits
<1>5. TraceFits(k, L + 1)
  <2>1. t.since \in Nat /\ t.since <= L
    BY <1>1 DEF Trace
  <2>2. t.ctx \in SUBSET (1 .. L)
    BY <2>1
  <2>3. DepthsIn(k, t.ctx) = DepthsIn(j, t.ctx)
    BY <1>3, <2>2
  <2>4. t.since < L + 1
    BY <2>1
  <2>5. \A m \in 1 .. (L + 1) - 1 : k[m] = j[m] /\ m \in 1 .. Len(j)
    BY <1>1, <1>2
  <2> QED
    BY <1>2, <2>3, <2>4, <2>5 DEF TraceFits
<1>6. \A n \in 1 .. Len(k) : n \in 1 .. L \/ n = L + 1
  BY <1>2
<1> QED
  BY <1>4, <1>5, <1>6 DEF AllFit

\* What a program has seen of the journal stands when the journal grows.
LEMMA GrownRunFits ==
  ASSUME NEW j \in Seq(Trace), NEW t \in Trace, NEW k, k = Append(j, t),
         NEW r \in IdleRun \cup ComputingRun \cup FlushingRun, RunFits(j, r)
  PROVE  RunFits(k, r)
<1>1. PICK L \in Nat : L = Len(j)
  OBVIOUS
<1>2. Len(k) = L + 1 /\ \A n \in 1 .. L : k[n] = j[n]
  BY <1>1, AppendProperties
<1>3. r.seq \in Nat /\ (r.phase = "compute" => r.since \in Nat)
  BY DEF IdleRun, ComputingRun, FlushingRun
<1>4. r.seq <= Len(k)
  BY <1>1, <1>2, <1>3 DEF RunFits
<1>5. ASSUME r.phase = "compute"
      PROVE  /\ r.since <= Len(k) /\ r.ctx \subseteq 1 .. r.since
             /\ \A m \in 1 .. r.since : k[m].stmt # r.stmt
  <2>1. /\ r.since \in Nat /\ r.since <= L /\ r.ctx \subseteq 1 .. r.since
        /\ \A m \in 1 .. r.since : j[m].stmt # r.stmt
    BY <1>1, <1>3, <1>5 DEF RunFits
  <2>2. \A m \in 1 .. r.since : k[m] = j[m]
    BY <1>2, <2>1
  <2>3. r.since <= Len(k)
    BY <1>2, <2>1
  <2> QED
    BY <2>1, <2>2, <2>3
<1>6. r.phase = "flush" => r.reused \subseteq 1 .. Len(k)
  BY <1>1, <1>2 DEF RunFits
<1> QED
  BY <1>4, <1>5, <1>6 DEF RunFits

\* The traces of a journal can be counted.
LEMMA TracesAreFinite ==
  ASSUME NEW j \in Seq(Trace)
  PROVE  IsFiniteSet(1 .. Len(j))
<1>1. 1 \in Int /\ Len(j) \in Int
  OBVIOUS
<1> QED
  BY <1>1, FS_Interval

\* The heirs of a trace can be counted.
LEMMA HeirsAreFinite ==
  ASSUME NEW j \in Seq(Trace), NEW n
  PROVE  IsFiniteSet(HeirsIn(j, n)) /\ Cardinality(HeirsIn(j, n)) \in Nat
<1>1. IsFiniteSet(1 .. Len(j))
  BY TracesAreFinite
<1>2. HeirsIn(j, n) \in SUBSET (1 .. Len(j))
  BY DEF HeirsIn
<1>3. IsFiniteSet(HeirsIn(j, n))
  BY <1>1, <1>2, FS_Subset
<1> QED
  BY <1>3, FS_CardinalityType

\* The programs that wait to mark a trace can be counted.
LEMMA WaitingIsFinite ==
  ASSUME DerivationBounds, NEW run, NEW n
  PROVE  /\ IsFiniteSet(WaitingIn(run, n)) /\ Cardinality(WaitingIn(run, n)) \in Nat
         /\ Cardinality(WaitingIn(run, n)) <= Cardinality(Program)
         /\ Cardinality(Program) \in Nat
<1>1. IsFiniteSet(Program)
  BY DEF DerivationBounds
<1>2. WaitingIn(run, n) \in SUBSET Program
  BY DEF WaitingIn
<1>3. IsFiniteSet(WaitingIn(run, n)) /\ Cardinality(WaitingIn(run, n)) <= Cardinality(Program)
  BY <1>1, <1>2, FS_Subset
<1> QED
  BY <1>1, <1>3, FS_CardinalityType

\* What ends of the process can lose at most is a number.
LEMMA ProgramsAreMany ==
  ASSUME DerivationBounds, NEW d \in Nat
  PROVE  /\ Cardinality(Program) \in Nat
         /\ \E C \in Nat : C = d * Cardinality(Program)
<1>1. PICK P \in Nat : P = Cardinality(Program)
  BY FS_CardinalityType DEF DerivationBounds
<1>2. d * P \in Nat
  OBVIOUS
<1> QED
  BY <1>1, <1>2

\* Nothing has read the trace that is appended, and what it has read is
\* waited for by the program that wrote it.
LEMMA AppendedIsCounted ==
  ASSUME DerivationBounds, NEW j \in Seq(Trace), NEW t \in Trace, NEW k, k = Append(j, t),
         AllFit(j), t.ctx \subseteq 1 .. Len(j),
         NEW u \in [1 .. MaxTraces -> Nat], NEW d \in Nat, NEW run, NEW next,
         NEW p \in Program, run[p].phase # "flush", OnlyMoves(run, p, next),
         next[p].phase = "flush", next[p].reused = AiIn(j, t.ctx),
         AllCounted(j, u, run, d)
  PROVE  AllCounted(k, u, next, d)
<1> USE DEF OnlyMoves, AiIn
<1>1. PICK L \in Nat : L = Len(j)
  OBVIOUS
<1>2. /\ k \in Seq(Trace) /\ Len(k) = L + 1 /\ k[L + 1] = t
      /\ \A n \in 1 .. L : k[n] = j[n]
  BY <1>1, AppendProperties
<1>3. \A n \in 1 .. L + 1 : k[n].id \in 1 .. MaxTraces /\ u[k[n].id] \in Nat
  <2> TAKE n \in 1 .. L + 1
  <2>1. k[n] \in Trace
    BY <1>2, ElementOfSeq
  <2>2. k[n].id \in 1 .. MaxTraces
    BY <2>1 DEF Trace
  <2> QED
    BY <2>2
<1>4. PICK C \in Nat : C = d * Cardinality(Program)
  BY ProgramsAreMany
<1>5. ASSUME NEW n \in 1 .. L, k[n].class = "ai"
      PROVE  Counted(k, u, next, d, n)
  <2>1. PICK H : H = HeirsIn(j, n)
    OBVIOUS
  <2>2. PICK W : W = WaitingIn(run, n)
    OBVIOUS
  <2>3. IsFiniteSet(H) /\ Cardinality(H) \in Nat /\ IsFiniteSet(W) /\ Cardinality(W) \in Nat
    BY <2>1, <2>2, HeirsAreFinite, WaitingIsFinite
  <2>4. Cardinality(H) <= u[k[n].id] + Cardinality(W) + C
    BY <1>1, <1>2, <1>4, <1>5, <2>1, <2>2 DEF AllCounted, Counted
  <2>5. CASE n \in t.ctx
    <3>1. HeirsIn(k, n) = H \cup {L + 1} /\ L + 1 \notin H
      <4>1. n \in k[L + 1].ctx /\ L + 1 \in 1 .. L + 1 /\ L + 1 \notin 1 .. L
        BY <1>2, <2>5
      <4>2. \A m \in 1 .. L + 1 : m \in 1 .. L \/ m = L + 1
        OBVIOUS
      <4>3. \A m \in 1 .. L : m \in 1 .. L + 1 /\ k[m] = j[m]
        BY <1>2
      <4> QED
        BY <1>1, <1>2, <2>1, <4>1, <4>2, <4>3 DEF HeirsIn
    <3>2. WaitingIn(next, n) = W \cup {p} /\ p \notin W
      BY <1>2, <1>5, <2>2, <2>5 DEF WaitingIn
    <3>3. Cardinality(HeirsIn(k, n)) = Cardinality(H) + 1
      BY <2>3, <3>1, FS_AddElement
    <3>4. Cardinality(WaitingIn(next, n)) = Cardinality(W) + 1
      BY <2>3, <3>2, FS_AddElement
    <3>5. n \in 1 .. L + 1
      OBVIOUS
    <3>6. u[k[n].id] \in Nat
      BY <1>3, <3>5
    <3>7. PICK x \in Nat, h \in Nat, w \in Nat :
            x = u[k[n].id] /\ h = Cardinality(H) /\ w = Cardinality(W)
      BY <2>3, <3>6
    <3>8. h <= x + w + C
      BY <2>4, <3>7
    <3>9. h + 1 <= x + (w + 1) + C
      BY <3>8
    <3> QED
      BY <1>4, <3>3, <3>4, <3>7, <3>9 DEF Counted
  <2>6. CASE n \notin t.ctx
    <3>1. HeirsIn(k, n) = H
      <4>1. n \notin k[L + 1].ctx
        BY <1>2, <2>6
      <4>2. \A m \in 1 .. L + 1 : m \in 1 .. L \/ m = L + 1
        OBVIOUS
      <4>3. \A m \in 1 .. L : m \in 1 .. L + 1 /\ k[m] = j[m]
        BY <1>2
      <4> QED
        BY <1>1, <1>2, <2>1, <4>1, <4>2, <4>3 DEF HeirsIn
    <3>2. WaitingIn(next, n) = W
      BY <1>2, <1>5, <2>2, <2>6 DEF WaitingIn
    <3> QED
      BY <1>4, <2>4, <3>1, <3>2 DEF Counted
  <2> QED
    BY <2>5, <2>6
<1>6. Counted(k, u, next, d, L + 1)
  <2>1. ASSUME NEW m \in 1 .. L + 1 PROVE L + 1 \notin k[m].ctx
    <3>1. CASE m = L + 1
      BY <1>1, <1>2, <3>1
    <3>2. CASE m \in 1 .. L
      <4>1. TraceFits(j, m) /\ j[m] \in Trace
        BY <1>1, <3>2, ElementOfSeq DEF AllFit
      <4>2. j[m].since \in Nat /\ j[m].since < m /\ j[m].ctx \subseteq 1 .. j[m].since
        BY <4>1 DEF TraceFits, Trace
      <4>3. L + 1 \notin j[m].ctx
        BY <3>2, <4>2
      <4> QED
        BY <1>2, <3>2, <4>3
    <3>3. m = L + 1 \/ m \in 1 .. L
      OBVIOUS
    <3> QED
      BY <3>1, <3>2, <3>3
  <2>2. HeirsIn(k, L + 1) = {}
    BY <1>2, <2>1 DEF HeirsIn
  <2>3. Cardinality(HeirsIn(k, L + 1)) = 0
    BY <2>2, FS_EmptySet
  <2>4. PICK x \in Nat : x = u[k[L + 1].id]
    <3>1. L + 1 \in 1 .. L + 1
      OBVIOUS
    <3>2. u[k[L + 1].id] \in Nat
      BY <1>3, <3>1
    <3> QED
      BY <3>2
  <2>5. PICK w \in Nat : w = Cardinality(WaitingIn(next, L + 1))
    BY WaitingIsFinite
  <2>6. 0 <= x + w + C
    OBVIOUS
  <2> QED
    BY <1>4, <2>3, <2>4, <2>5, <2>6 DEF Counted
<1>7. \A n \in 1 .. Len(k) : n \in 1 .. L \/ n = L + 1
  BY <1>2
<1> QED
  BY <1>5, <1>6, <1>7 DEF AllCounted, Counted

\* What a program no longer waits for has been counted.
LEMMA ReleasedIsCounted ==
  ASSUME DerivationBounds, NEW j \in Seq(Trace),
         NEW u \in [1 .. MaxTraces -> Nat], NEW d \in Nat, NEW run, NEW next,
         NEW p \in Program, run[p].phase = "flush", run[p].reused \subseteq 1 .. Len(j),
         next[p].phase # "flush", OnlyMoves(run, p, next),
         AllCounted(j, u, run, d)
  PROVE  /\ Marked(j, u, run[p].reused) \in [1 .. MaxTraces -> Nat]
         /\ AllCounted(j, Marked(j, u, run[p].reused), next, d)
<1> USE DEF OnlyMoves
<1>0. PICK v : v = Marked(j, u, run[p].reused)
  OBVIOUS
<1>1. ASSUME NEW id
      PROVE  /\ IsFiniteSet({m \in run[p].reused : j[m].id = id})
             /\ Cardinality({m \in run[p].reused : j[m].id = id}) \in Nat
  <2>1. {m \in run[p].reused : j[m].id = id} \in SUBSET (1 .. Len(j))
    OBVIOUS
  <2>2. IsFiniteSet(1 .. Len(j))
    BY TracesAreFinite
  <2>3. IsFiniteSet({m \in run[p].reused : j[m].id = id})
    BY <2>1, <2>2, FS_Subset
  <2> QED
    BY <2>3, FS_CardinalityType
<1>2. v \in [1 .. MaxTraces -> Nat]
  <2>1. \A id \in 1 .. MaxTraces :
          u[id] + Cardinality({m \in run[p].reused : j[m].id = id}) \in Nat
    <3> TAKE id \in 1 .. MaxTraces
    <3>1. PICK c \in Nat : c = Cardinality({m \in run[p].reused : j[m].id = id})
      BY <1>1
    <3> QED
      BY <3>1
  <2> QED
    BY <1>0, <2>1 DEF Marked
<1>3. PICK C \in Nat : C = d * Cardinality(Program)
  BY ProgramsAreMany
<1>4. ASSUME NEW n \in 1 .. Len(j), j[n].class = "ai"
      PROVE  Counted(j, v, next, d, n)
  <2>1. PICK W : W = WaitingIn(run, n)
    OBVIOUS
  <2>2. PICK i \in 1 .. MaxTraces : i = j[n].id
    <3>1. j[n] \in Trace
      BY ElementOfSeq
    <3> QED
      BY <3>1 DEF Trace
  <2>3. PICK M : M = {m \in run[p].reused : j[m].id = i}
    OBVIOUS
  <2>4. /\ IsFiniteSet(W) /\ Cardinality(W) \in Nat /\ Cardinality(HeirsIn(j, n)) \in Nat
        /\ IsFiniteSet(M) /\ Cardinality(M) \in Nat /\ u[i] \in Nat
    BY <1>1, <2>1, <2>3, HeirsAreFinite, WaitingIsFinite
  <2>5. v[i] = u[i] + Cardinality(M)
    BY <1>0, <2>3 DEF Marked
  <2>6. Cardinality(HeirsIn(j, n)) <= u[i] + Cardinality(W) + C
    BY <1>3, <1>4, <2>1, <2>2 DEF AllCounted, Counted
  <2>7. PICK h \in Nat, w \in Nat, m \in Nat, x \in Nat :
          /\ h = Cardinality(HeirsIn(j, n)) /\ w = Cardinality(W) /\ m = Cardinality(M)
          /\ x = u[i] /\ h <= x + w + C
    BY <2>4, <2>6
  <2>8. CASE n \in run[p].reused
    <3>1. WaitingIn(next, n) = W \ {p} /\ p \in W
      BY <2>1, <2>8 DEF WaitingIn
    <3>2. Cardinality(WaitingIn(next, n)) = Cardinality(W) - 1
      BY <2>4, <3>1, FS_RemoveElement
    <3>3. n \in M
      BY <2>2, <2>3, <2>8
    <3>4. Cardinality(M) # 0
      BY <2>4, <3>3, FS_EmptySet
    <3>5. h <= x + w + C /\ m # 0
      BY <2>7, <3>4
    <3>6. h <= (x + m) + (w - 1) + C
      BY <3>5
    <3> QED
      BY <1>3, <2>2, <2>5, <2>7, <3>2, <3>6 DEF Counted
  <2>9. CASE n \notin run[p].reused
    <3>1. WaitingIn(next, n) = W
      BY <2>1, <2>9 DEF WaitingIn
    <3>2. h <= x + w + C
      BY <2>7
    <3>3. h <= (x + m) + w + C
      BY <3>2
    <3> QED
      BY <1>3, <2>2, <2>5, <2>7, <3>1, <3>3 DEF Counted
  <2> QED
    BY <2>8, <2>9
<1> QED
  BY <1>0, <1>2, <1>4 DEF AllCounted, Counted

\* A process that ends loses at most one mark of each program.
LEMMA LostIsCounted ==
  ASSUME DerivationBounds, NEW j \in Seq(Trace),
         NEW u \in [1 .. MaxTraces -> Nat], NEW d \in Nat, NEW run, NEW next,
         \A q \in Program : next[q].phase # "flush",
         NEW n \in 1 .. Len(j), Counted(j, u, run, d, n)
  PROVE  Counted(j, u, next, d + 1, n)
<1>1. PICK P \in Nat : P = Cardinality(Program)
  BY WaitingIsFinite
<1>2. d * P \in Nat /\ (d + 1) * P = d * P + P
  OBVIOUS
<1>3. j[n] \in Trace
  BY ElementOfSeq
<1>4. u[j[n].id] \in Nat
  BY <1>3 DEF Trace
<1>5. /\ Cardinality(WaitingIn(run, n)) \in Nat /\ Cardinality(WaitingIn(run, n)) <= P
      /\ Cardinality(HeirsIn(j, n)) \in Nat
  BY <1>1, WaitingIsFinite, HeirsAreFinite
<1>6. WaitingIn(next, n) = {}
  BY DEF WaitingIn
<1>7. Cardinality(WaitingIn(next, n)) = 0
  BY <1>6, FS_EmptySet
<1>8. ASSUME j[n].class = "ai"
      PROVE  Cardinality(HeirsIn(j, n)) <= u[j[n].id] + 0 + (d + 1) * P
  <2>1. Cardinality(HeirsIn(j, n)) <= u[j[n].id] + Cardinality(WaitingIn(run, n)) + d * P
    BY <1>1, <1>8 DEF Counted
  <2>2. PICK D \in Nat : D = d * P
    BY <1>2
  <2>3. Cardinality(HeirsIn(j, n)) <= u[j[n].id] + 0 + (D + P)
    BY <1>4, <1>5, <2>1, <2>2
  <2> QED
    BY <1>2, <2>2, <2>3
<1> QED
  BY <1>1, <1>7, <1>8 DEF Counted

\* The phase of a run tells its fields.
LEMMA RunIsOneOf ==
  ASSUME NEW r \in IdleRun \cup ComputingRun \cup FlushingRun
  PROVE  /\ r.phase \in {"idle", "compute", "flush"} /\ r.seq \in Nat
         /\ r.phase = "compute" => r \in ComputingRun
         /\ r.phase = "flush" => r \in FlushingRun
BY DEF IdleRun, ComputingRun, FlushingRun

\* Where an action moves one program, and neither what it waits for nor the
\* journal changes, the invariant stays.
LEMMA MovedRun ==
  ASSUME DerivationInd, NEW p \in Program,
         NEW now \in IdleRun \cup ComputingRun, RunFits(journal, now),
         running[p].phase # "flush", running' = [running EXCEPT ![p] = now],
         UNCHANGED <<journal, reuse, approved, deaths>>
  PROVE  DerivationInd'
<1>1. PICK next : next = running'
  OBVIOUS
<1>2. /\ next[p] = now /\ \A q \in Program \ {p} : next[q] = running[q]
      /\ next \in [Program -> IdleRun \cup ComputingRun \cup FlushingRun]
  BY <1>1 DEF DerivationInd, DerivationShapes
<1>3. now.phase # "flush"
  BY DEF IdleRun, ComputingRun
<1>4. \A n : WaitingIn(next, n) = WaitingIn(running, n)
  <2> TAKE n
  <2>1. \A q \in Program :
          (n \in IF next[q].phase = "flush" THEN next[q].reused ELSE {})
            <=> (n \in IF running[q].phase = "flush" THEN running[q].reused ELSE {})
    BY <1>2, <1>3
  <2> QED
    BY <2>1 DEF WaitingIn
<1>5. AllCounted(journal, reuse, next, deaths)
  BY <1>4 DEF DerivationInd, AllCounted, Counted
<1>6. \A q \in Program : RunFits(journal, next[q])
  BY <1>2 DEF DerivationInd
<1> QED
  BY <1>1, <1>2, <1>5, <1>6 DEF DerivationInd, DerivationShapes

\* The invariant holds of an empty journal.
LEMMA DerivationBegins ==
  ASSUME DerivationBounds, DerivationInit
  PROVE  DerivationInd
<1>1. Len(journal) = 0 /\ journal \in Seq(Trace) /\ 1 .. Len(journal) = {}
  BY EmptySeq DEF DerivationInit
<1>2. Ended \in IdleRun /\ Ended.phase = "idle" /\ Ended.seq = 0
  BY DEF Ended, IdleRun
<1>3. DerivationShapes
  BY <1>1, <1>2 DEF DerivationInit, DerivationShapes, DerivationBounds
<1>4. \A p \in Program : RunFits(journal, running[p])
  BY <1>1, <1>2 DEF DerivationInit, RunFits
<1> QED
  BY <1>1, <1>3, <1>4 DEF DerivationInd, AllFit, AllCounted

\* A program that begins has read what select gives it, up to the last trace.
LEMMA BeginKeeps ==
  ASSUME StatementAssumption, DerivationInd,
         NEW p \in Program, NEW s \in Statement, Begin(p, s)
  PROVE  DerivationInd'
<1>1. PICK L \in Nat : L = Len(journal)
  BY DEF DerivationInd, DerivationShapes
<1>2. running[p].phase = "idle" /\ running[p].seq \in Nat /\ running[p].seq <= L
  BY <1>1, RunIsOneOf DEF Begin, DerivationInd, DerivationShapes, RunFits
<1>3. PICK c : c = Select(s)
  OBVIOUS
<1>4. c \subseteq 1 .. L
  BY <1>1, <1>3 DEF Select, Pool, Position
<1>5. PICK now : now = [phase |-> "compute", seq |-> running[p].seq, stmt |-> s, ctx |-> c,
                        since |-> L]
  OBVIOUS
<1>6. running' = [running EXCEPT ![p] = now]
  BY <1>1, <1>3, <1>5 DEF Begin
<1>7. c \in SUBSET Nat
  BY <1>4
<1>8. now \in ComputingRun
  BY <1>2, <1>5, <1>7 DEF ComputingRun
<1>9. \A m \in 1 .. L : journal[m].stmt # s
  <2> TAKE m \in 1 .. L
  <2>1. Prior(s) = {} /\ m \in Position
    BY <1>1 DEF Begin, Position
  <2>2. StatementKey(journal[m].stmt) # StatementKey(s)
    BY <2>1 DEF Prior
  <2> QED
    BY <2>2
<1>10. RunFits(journal, now)
  BY <1>1, <1>2, <1>4, <1>5, <1>9 DEF RunFits
<1>11. UNCHANGED <<journal, reuse, approved, deaths>>
  BY DEF Begin
<1> QED
  BY <1>2, <1>6, <1>8, <1>10, <1>11, MovedRun

\* A program that stops waits for nothing.
LEMMA RefuseKeeps ==
  ASSUME DerivationInd, NEW p \in Program, Refuse(p)
  PROVE  DerivationInd'
<1>1. Ended \in IdleRun /\ Ended.phase = "idle" /\ Ended.seq = 0
  BY DEF Ended, IdleRun
<1>2. RunFits(journal, Ended)
  BY <1>1 DEF RunFits, DerivationInd, DerivationShapes
<1>3. /\ running[p].phase # "flush" /\ running' = [running EXCEPT ![p] = Ended]
      /\ UNCHANGED <<journal, reuse, approved, deaths>>
  BY DEF Refuse
<1> QED
  BY <1>1, <1>2, <1>3, MovedRun

\* An approval only adds to what was approved.
LEMMA ApproveKeeps ==
  ASSUME DerivationInd, NEW s \in Statement, Approve(s)
  PROVE  DerivationInd'
<1>1. approved' = approved \cup {s} /\ UNCHANGED <<journal, reuse, running, deaths>>
  BY DEF Approve
<1> QED
  BY <1>1 DEF DerivationInd, DerivationShapes

\* The depth of what a program computes is one more than what it has read.
LEMMA DepthsAreRead ==
  ASSUME DerivationBounds, DerivationInd, NEW r \in ComputingRun, RunFits(journal, r),
         r.phase = "compute"
  PROVE  /\ r.ctx \subseteq 1 .. Len(journal) /\ Depth(r) \in Nat
         /\ r.stmt.infers => Depth(r) = 1 + Max(DepthsIn(journal, r.ctx))
<1>1. r.ctx \subseteq 1 .. Len(journal)
  <2>1. r.ctx \subseteq 1 .. r.since /\ r.since <= Len(journal) /\ r.since \in Nat
    BY DEF RunFits, ComputingRun
  <2>2. journal \in Seq(Trace)
    BY DEF DerivationInd, DerivationShapes
  <2>3. Len(journal) \in Nat
    BY <2>2
  <2> QED
    BY <2>1, <2>3
<1>2. Max(DepthsIn(journal, r.ctx)) \in 0 .. MaxDepth
  BY <1>1, DepthsAreSmall DEF DerivationInd, DerivationShapes
<1>3. Max({0} \cup {journal[n].depth : n \in AiOf(r.ctx)}) = Max(DepthsIn(journal, r.ctx))
  BY DEF AiOf, DepthsIn
<1>4. Depth(r) = IF r.stmt.infers THEN 1 + Max(DepthsIn(journal, r.ctx)) ELSE 0
  BY <1>3 DEF Depth
<1>5. MaxDepth \in Nat
  BY DEF DerivationBounds
<1> QED
  BY <1>1, <1>2, <1>4, <1>5

\* A trace that is written fits the journal, and waits to mark what it read.
LEMMA WriteKeeps ==
  ASSUME StatementAssumption, DerivationBounds, DerivationInd, NEW p \in Program, Write(p)
  PROVE  DerivationInd'
<1>1. PICK j \in Seq(Trace) : j = journal
  BY DEF DerivationInd, DerivationShapes
<1>2. PICK L \in Nat : L = Len(j)
  OBVIOUS
<1>3. PICK r : r = running[p]
  OBVIOUS
<1>4. r \in ComputingRun /\ r.phase = "compute" /\ RunFits(j, r)
  BY <1>1, <1>3, RunIsOneOf DEF Write, DerivationInd, DerivationShapes
<1>5. /\ r.seq \in Nat /\ r.seq <= L /\ r.stmt \in Statement /\ r.ctx \in SUBSET Nat
      /\ r.since \in Nat /\ r.since <= L /\ r.ctx \subseteq 1 .. r.since
      /\ \A m \in 1 .. r.since : j[m].stmt # r.stmt
  BY <1>2, <1>4 DEF ComputingRun, RunFits
<1>6. PICK d : d = Depth(r)
  OBVIOUS
<1>7. PICK c : c = Class(r.stmt)
  OBVIOUS
<1>8. PICK t : t = [id |-> r.seq + 1, stmt |-> r.stmt, ctx |-> r.ctx, since |-> r.since,
                    class |-> c, depth |-> d]
  OBVIOUS
<1>9. PICK now : now = [phase |-> "flush", seq |-> r.seq + 1, reused |-> AiOf(r.ctx)]
  OBVIOUS
<1>10. /\ journal' = Append(j, t) /\ running' = [running EXCEPT ![p] = now]
       /\ ~ Refused(r) /\ L < MaxTraces /\ UNCHANGED <<reuse, approved, deaths>>
  BY <1>1, <1>2, <1>3, <1>6, <1>7, <1>8, <1>9 DEF Write
<1>11. /\ r.ctx \subseteq 1 .. L /\ d \in Nat
       /\ r.stmt.infers => d = 1 + Max(DepthsIn(j, r.ctx))
  BY <1>1, <1>2, <1>4, <1>6, DepthsAreRead
<1>12. d \in 0 .. MaxDepth
  <2>1. ~ (d > MaxDepth)
    BY <1>6, <1>10 DEF Refused
  <2> QED
    BY <1>11, <2>1 DEF DerivationBounds
<1>13. /\ r.stmt.signer \in {"none", "service", "human"}
       /\ r.stmt.infers \in BOOLEAN
  BY <1>5 DEF StatementAssumption
<1>14. /\ c \in {"service", "human", "ai", "deterministic"}
       /\ c = "ai" => r.stmt.infers
       /\ c = "human" => r.stmt.signer = "human"
  BY <1>7, <1>13 DEF Class
<1>15. r.seq + 1 \in 1 .. MaxTraces
  BY <1>5, <1>10 DEF DerivationBounds
<1>16. t \in Trace
  BY <1>5, <1>8, <1>12, <1>14, <1>15 DEF Trace
<1>17. PICK k : k = journal'
  OBVIOUS
<1>18. /\ k = Append(j, t) /\ k \in Seq(Trace) /\ Len(k) = L + 1 /\ k[L + 1] = t
       /\ \A n \in 1 .. L : k[n] = j[n]
  BY <1>2, <1>10, <1>16, <1>17, AppendProperties
<1>19. AllFit(j)
  BY <1>1 DEF DerivationInd
<1>20. AllFit(k)
  <2>1. t.since <= Len(j) /\ t.ctx \subseteq 1 .. t.since
    BY <1>2, <1>5, <1>8
  <2>2. t.class = "ai" => t.depth = 1 + Max(DepthsIn(j, t.ctx))
    BY <1>8, <1>11, <1>14
  <2>3. \A m \in 1 .. Len(j) : j[m].stmt = t.stmt => m > t.since
    <3> SUFFICES ASSUME NEW m \in 1 .. Len(j), j[m].stmt = t.stmt PROVE m > t.since
      OBVIOUS
    <3>1. m \notin 1 .. r.since
      BY <1>5, <1>8
    <3> QED
      BY <1>5, <1>8, <3>1
  <2> QED
    BY <1>16, <1>18, <1>19, <2>1, <2>2, <2>3, AppendedFits
<1>21. \A n \in 1 .. Len(k) : k[n].class = "human" => k[n].stmt \in approved
  <2>1. \A n \in 1 .. L : j[n].class = "human" => j[n].stmt \in approved
    BY <1>1, <1>2 DEF DerivationInd
  <2>2. ASSUME c = "human" PROVE r.stmt \in approved
    <3>1. PICK seen \in approved : VerifyApproval(seen, r.stmt)
      BY <1>10, <1>14, <2>2 DEF Refused
    <3>2. seen \in Statement /\ StatementKey(seen) = StatementKey(r.stmt)
      BY <3>1 DEF VerifyApproval, DerivationInd, DerivationShapes
    <3> QED
      BY <1>5, <3>1, <3>2, KeysTellStatements
  <2>3. \A n \in 1 .. Len(k) : n \in 1 .. L \/ n = L + 1
    BY <1>18
  <2> QED
    BY <1>8, <1>18, <2>1, <2>2, <2>3
<1>22. PICK run \in [Program -> IdleRun \cup ComputingRun \cup FlushingRun] : run = running
  BY DEF DerivationInd, DerivationShapes
<1>23. PICK next : next = running'
  OBVIOUS
<1>24. AiOf(r.ctx) = AiIn(j, r.ctx) /\ AiOf(r.ctx) \subseteq 1 .. L
  BY <1>1, <1>11 DEF AiOf, AiIn
<1>25. /\ now \in FlushingRun /\ now.phase = "flush" /\ now.seq = r.seq + 1
       /\ now.reused = AiIn(j, t.ctx) /\ now.reused \subseteq 1 .. L
  <2>1. AiOf(r.ctx) \in SUBSET Nat /\ r.seq + 1 \in Nat
    BY <1>5, <1>24
  <2> QED
    BY <1>8, <1>9, <1>24, <2>1 DEF FlushingRun
<1>26. /\ next[p] = now /\ \A q \in Program \ {p} : next[q] = run[q]
       /\ next \in [Program -> IdleRun \cup ComputingRun \cup FlushingRun]
  BY <1>10, <1>22, <1>23, <1>25
<1>27. \A q \in Program : RunFits(k, next[q])
  <2>1. \A q \in Program \ {p} : RunFits(k, run[q])
    BY <1>1, <1>16, <1>18, <1>22, GrownRunFits DEF DerivationInd
  <2>2. RunFits(k, now)
    <3>1. now.seq <= Len(k) /\ now.reused \subseteq 1 .. Len(k)
      BY <1>5, <1>18, <1>25
    <3> QED
      BY <1>25, <3>1 DEF RunFits
  <2> QED
    BY <1>26, <2>1, <2>2
<1>28. PICK u \in [1 .. MaxTraces -> Nat], e \in Nat : u = reuse /\ e = deaths
  BY DEF DerivationInd, DerivationShapes
<1>29. AllCounted(k, u, next, e)
  <2>1. AllCounted(j, u, run, e)
    BY <1>1, <1>22, <1>28 DEF DerivationInd
  <2>2. run[p].phase # "flush" /\ t.ctx \subseteq 1 .. Len(j)
    BY <1>2, <1>3, <1>4, <1>8, <1>11, <1>22
  <2>3. /\ OnlyMoves(run, p, next) /\ next[p].phase = "flush"
        /\ next[p].reused = AiIn(j, t.ctx)
    BY <1>25, <1>26 DEF OnlyMoves
  <2> QED
    BY <1>16, <1>18, <1>19, <2>1, <2>2, <2>3, AppendedIsCounted
<1>30. DerivationShapes'
  <2>1. Len(k) <= MaxTraces
    BY <1>10, <1>18 DEF DerivationBounds
  <2>2. reuse' = reuse /\ approved' = approved /\ deaths' = deaths
    BY <1>10
  <2> QED
    BY <1>17, <1>18, <1>23, <1>26, <2>1, <2>2 DEF DerivationInd, DerivationShapes
<1>31. reuse' = u /\ deaths' = e /\ approved' = approved
  BY <1>10, <1>28
<1> QED
  BY <1>17, <1>20, <1>21, <1>23, <1>27, <1>29, <1>30, <1>31 DEF DerivationInd

\* A program that is released has marked what it read.
LEMMA ReleaseKeeps ==
  ASSUME DerivationBounds, DerivationInd, NEW p \in Program, Release(p)
  PROVE  DerivationInd'
<1>1. PICK j \in Seq(Trace) : j = journal
  BY DEF DerivationInd, DerivationShapes
<1>2. PICK run \in [Program -> IdleRun \cup ComputingRun \cup FlushingRun] : run = running
  BY DEF DerivationInd, DerivationShapes
<1>3. PICK u \in [1 .. MaxTraces -> Nat], e \in Nat : u = reuse /\ e = deaths
  BY DEF DerivationInd, DerivationShapes
<1>4. run[p].phase = "flush" /\ RunFits(j, run[p]) /\ run[p].seq \in Nat
  BY <1>1, <1>2, RunIsOneOf DEF Release, DerivationInd
<1>5. run[p].reused \subseteq 1 .. Len(j) /\ run[p].seq <= Len(j)
  BY <1>4 DEF RunFits
<1>6. PICK v : v = Marked(j, u, run[p].reused)
  OBVIOUS
<1>7. Inherited(p) = run[p].reused
  BY <1>2, <1>4 DEF Inherited
<1>8. reuse' = v
  BY <1>1, <1>3, <1>6, <1>7 DEF Release, MarkReused, Marked
<1>9. PICK seq \in {0, run[p].seq} : running' = [running EXCEPT ![p] = [Ended EXCEPT !.seq = seq]]
  BY <1>2 DEF Release
<1>10. PICK now : now = [Ended EXCEPT !.seq = seq]
  OBVIOUS
<1>11. now = [phase |-> "idle", seq |-> seq] /\ seq \in Nat /\ seq <= Len(j)
  BY <1>4, <1>5, <1>10 DEF Ended
<1>12. now \in IdleRun /\ now.phase = "idle" /\ now.seq = seq
  BY <1>11 DEF IdleRun
<1>13. PICK next : next = running'
  OBVIOUS
<1>14. /\ next[p] = now /\ \A q \in Program \ {p} : next[q] = run[q]
       /\ next \in [Program -> IdleRun \cup ComputingRun \cup FlushingRun]
  BY <1>2, <1>9, <1>10, <1>12, <1>13
<1>15. /\ v \in [1 .. MaxTraces -> Nat]
       /\ AllCounted(j, v, next, e)
  <2>1. AllCounted(j, u, run, e)
    BY <1>1, <1>2, <1>3 DEF DerivationInd
  <2>2. next[p].phase # "flush" /\ OnlyMoves(run, p, next)
    BY <1>12, <1>14 DEF OnlyMoves
  <2> QED
    BY <1>4, <1>5, <1>6, <2>1, <2>2, ReleasedIsCounted
<1>16. \A q \in Program : RunFits(j, next[q])
  <2>1. RunFits(j, now)
    BY <1>11, <1>12 DEF RunFits
  <2> QED
    BY <1>1, <1>2, <1>14, <2>1 DEF DerivationInd
<1>17. journal' = j /\ approved' = approved /\ deaths' = e /\ journal = j /\ deaths = e
  BY <1>1, <1>3 DEF Release
<1>18. DerivationShapes'
  BY <1>8, <1>13, <1>14, <1>15, <1>17 DEF DerivationInd, DerivationShapes
<1> QED
  BY <1>8, <1>13, <1>15, <1>16, <1>17, <1>18 DEF DerivationInd

\* The end of the process takes the programs and leaves the journal.
LEMMA ProcessEndKeeps ==
  ASSUME DerivationBounds, DerivationInd, ProcessEnds
  PROVE  DerivationInd'
<1>1. PICK j \in Seq(Trace) : j = journal
  BY DEF DerivationInd, DerivationShapes
<1>2. PICK u \in [1 .. MaxTraces -> Nat], e \in Nat : u = reuse /\ e = deaths
  BY DEF DerivationInd, DerivationShapes
<1>3. PICK run : run = running
  OBVIOUS
<1>4. PICK next : next = running'
  OBVIOUS
<1>5. Ended \in IdleRun /\ Ended.phase = "idle" /\ Ended.seq = 0
  BY DEF Ended, IdleRun
<1>6. next = [p \in Program |-> Ended]
  BY <1>4 DEF ProcessEnds
<1>7. \A q \in Program : next[q].phase # "flush" /\ RunFits(j, next[q])
  BY <1>5, <1>6 DEF RunFits
<1>8. AllCounted(j, u, next, e + 1)
  <2>1. ASSUME NEW n \in 1 .. Len(j) PROVE Counted(j, u, next, e + 1, n)
    <3>1. Counted(j, u, run, e, n)
      BY <1>1, <1>2, <1>3 DEF DerivationInd, AllCounted
    <3> QED
      BY <1>7, <3>1, LostIsCounted
  <2> QED
    BY <2>1 DEF AllCounted
<1>9. /\ journal' = j /\ reuse' = u /\ approved' = approved /\ deaths' = e + 1
      /\ journal = j /\ reuse = u
  BY <1>1, <1>2 DEF ProcessEnds
<1>10. DerivationShapes'
  BY <1>2, <1>4, <1>5, <1>6, <1>9 DEF DerivationInd, DerivationShapes
<1> QED
  BY <1>4, <1>7, <1>8, <1>9, <1>10 DEF DerivationInd

\* Every action keeps the invariant.
LEMMA DerivationStep ==
  ASSUME StatementAssumption, DerivationBounds, DerivationInd,
         [DerivationNext]_derivationVars
  PROVE  DerivationInd'
<1>1. CASE \E s \in Statement : Approve(s)
  BY <1>1, ApproveKeeps
<1>2. CASE \E p \in Program, s \in Statement : Begin(p, s)
  BY <1>2, BeginKeeps
<1>3. CASE \E p \in Program : Write(p)
  BY <1>3, WriteKeeps
<1>4. CASE \E p \in Program : Refuse(p)
  BY <1>4, RefuseKeeps
<1>5. CASE \E p \in Program : Release(p)
  BY <1>5, ReleaseKeeps
<1>6. CASE ProcessEnds
  BY <1>6, ProcessEndKeeps
<1>7. CASE UNCHANGED derivationVars
  BY <1>7 DEF derivationVars, DerivationInd, DerivationShapes
<1> QED
  BY <1>1, <1>2, <1>3, <1>4, <1>5, <1>6, <1>7 DEF DerivationNext

\* The invariant implies what the runs check.
LEMMA DerivationHolds ==
  ASSUME DerivationBounds, DerivationInd
  PROVE  DerivationInv
<1>1. PICK j \in Seq(Trace) : j = journal
  BY DEF DerivationInd, DerivationShapes
<1>2. Position = 1 .. Len(j)
  BY <1>1 DEF Position
<1>3. ASSUME NEW n \in Position
      PROVE  TraceFits(j, n) /\ j[n] \in Trace /\ n \in Nat
  BY <1>1, <1>2, ElementOfSeq DEF DerivationInd, AllFit
<1>4. DerivationTypes
  <2>1. \A n \in Position : /\ j[n].ctx \subseteq 1 .. j[n].since /\ j[n].since < n
                            /\ j[n].id \in 1 .. MaxTraces
    <3> TAKE n \in Position
    <3>1. j[n].id \in 1 .. MaxTraces
      BY <1>3 DEF Trace
    <3> QED
      BY <1>3, <3>1 DEF TraceFits
  <2> QED
    BY <1>1, <2>1 DEF DerivationTypes, DerivationInd, DerivationShapes
<1>5. ChainsAreCapped
  <2>1. \A n \in Position : Hops[n] = IF j[n].class = "ai" THEN j[n].depth ELSE 0
    BY <1>1, HopsAreDepths DEF DerivationInd
  <2>2. \A n \in Position : j[n].depth \in 0 .. MaxDepth
    BY <1>3 DEF Trace
  <2>3. \A n \in Position : Hops[n] \in 0 .. MaxDepth
    BY <2>1, <2>2 DEF DerivationBounds
  <2>4. MaxDepth \in Nat
    BY DEF DerivationBounds
  <2>5. ASSUME NEW x \in 0 .. MaxDepth PROVE x <= MaxDepth
    BY <2>4
  <2> QED
    BY <2>3, <2>5 DEF ChainsAreCapped
<1>6. InheritancesAreCounted
  <2>1. ASSUME NEW n \in Position
        PROVE  /\ HeirsIn(j, n) = {m \in Position : n \in journal[m].ctx}
               /\ WaitingIn(running, n) = {p \in Program : n \in Inherited(p)}
               /\ Counted(journal, reuse, running, deaths, n)
    BY <1>1, <1>2 DEF HeirsIn, WaitingIn, Inherited, DerivationInd, AllCounted
  <2> QED
    BY <1>1, <2>1 DEF InheritancesAreCounted, Counted
<1>7. HumanSawIt
  BY <1>1, <1>2 DEF HumanSawIt, DerivationInd
<1>8. OnlyOverlapFilesTwice
  <2>1. ASSUME NEW m \in Position, NEW n \in Position, m < n, j[m].stmt = j[n].stmt
        PROVE  m > j[n].since
    <3>1. m \in 1 .. n - 1
      BY <1>1, <1>2, <2>1
    <3> QED
      BY <1>3, <2>1, <3>1 DEF TraceFits
  <2> QED
    BY <1>1, <2>1 DEF OnlyOverlapFilesTwice
<1> QED
  BY <1>4, <1>5, <1>6, <1>7, <1>8 DEF DerivationInv

\* For any programs, statements, caps and deaths of the process: inferences
\* are never stacked beyond the cap, no inheritance goes uncounted but those a
\* program still waits to mark or lost with its process, a human-class trace
\* is of a statement a human approved, and only programs that overlapped file
\* a statement twice.
THEOREM DerivationStaysSound == DerivationSpec => []DerivationInv
<1>1. DerivationInit => DerivationInd
  BY DerivationBegins, DerivationBounds
<1>2. DerivationInd /\ [DerivationNext]_derivationVars => DerivationInd'
  BY DerivationStep, StatementAssumption, DerivationBounds
<1>3. DerivationInd => DerivationInv
  BY DerivationHolds, DerivationBounds
<1> QED
  BY <1>1, <1>2, <1>3, PTL DEF DerivationSpec

-----------------------------------------------------------------------------
(* The identity graph (IdentityLog).                                       *)

State == [granted : SUBSET Value, role : BOOLEAN, keyed : BOOLEAN,
          ai : [Value -> Nat], anchored : [Value -> Nat]]
Status == [active : BOOLEAN, compromised : BOOLEAN]

\* The places before i, those up to it, and what a fold has come to over places.
Earlier(log, S, i) == {j \in S : Before(log, j, i)}
Upto(log, S, i) == {j \in S : j = i \/ Before(log, j, i)}
Reached(log, S, first, after) == IF S = {} THEN first ELSE after[Latest(log, S)]

-----------------------------------------------------------------------------
(* The order of events. *)

\* A set of numbers that is not empty and has a bound has a greatest member.
LEMMA NatMax ==
  ASSUME NEW n \in Nat, NEW T \in SUBSET (0 .. n), T # {}
  PROVE  \E x \in T : \A y \in T : y <= x
<1> DEFINE U == {n - x : x \in T}
<1>1. U \in SUBSET Nat /\ U # {}
  <2>1. \A x \in T : n - x \in Nat
    OBVIOUS
  <2> QED
    BY <2>1
<1>2. PICK u \in U : \A v \in U : u <= v
  BY <1>1, NatMin
<1>3. PICK x \in T : u = n - x
  OBVIOUS
<1>4. ASSUME NEW y \in T PROVE y <= x
  <2>1. n - x <= n - y
    BY <1>2, <1>3
  <2>2. x \in Int /\ y \in Int
    OBVIOUS
  <2> QED
    BY <2>1, <2>2
<1> QED
  BY <1>4

\* What an event may be.
LEMMA EventIs ==
  ASSUME NEW log \in Seq(Event), NEW i \in DOMAIN log
  PROVE  /\ i \in Nat /\ i \in 1 .. Len(log) /\ log[i].at \in 0 .. MaxAt /\ log[i].at \in Nat
         /\ \/ /\ log[i].kind \in {"grant", "revoke"}
               /\ log[i].value \in Value /\ log[i].role \in BOOLEAN
            \/ log[i].kind = "observe" /\ log[i].value \in Value /\ log[i].anchored \in BOOLEAN
            \/ log[i].kind \in {"key", "rotated"}
            \/ log[i].kind = "compromised" /\ log[i].from \in Nat
<1>1. i \in 1 .. Len(log) /\ log[i] \in Event /\ Len(log) \in Nat
  BY ElementOfSeq, LenProperties
<1>2. MaxAt \in Nat
  BY LogAssumption DEF LogAssumption
<1>3. log[i].at \in 0 .. MaxAt
  BY <1>1 DEF Event, GrantEvent, ObserveEvent, KeyEvent, At
<1>4. \/ log[i].kind \in {"grant", "revoke"} /\ log[i].value \in Value /\ log[i].role \in BOOLEAN
      \/ log[i].kind = "observe" /\ log[i].value \in Value /\ log[i].anchored \in BOOLEAN
      \/ log[i].kind \in {"key", "rotated"}
      \/ log[i].kind = "compromised" /\ log[i].from \in Nat
  BY <1>1, <1>2 DEF Event, GrantEvent, ObserveEvent, KeyEvent, At
<1> QED
  BY <1>1, <1>2, <1>3, <1>4

\* The order is total, and strict.
LEMMA BeforeOrders ==
  ASSUME NEW log \in Seq(Event)
  PROVE  /\ \A i \in DOMAIN log : ~ Before(log, i, i)
         /\ \A i, j \in DOMAIN log : i # j => Before(log, i, j) \/ Before(log, j, i)
         /\ \A i, j \in DOMAIN log : ~ (Before(log, i, j) /\ Before(log, j, i))
         /\ \A i, j, k \in DOMAIN log :
              Before(log, i, j) /\ Before(log, j, k) => Before(log, i, k)
<1>1. \A i \in DOMAIN log : i \in Nat /\ log[i].at \in Nat
  BY EventIs
<1> QED
  BY <1>1 DEF Before

\* Some place is the first of many.
LEMMA HasFirst ==
  ASSUME NEW log \in Seq(Event), NEW S \in SUBSET DOMAIN log, S # {}
  PROVE  \E i \in S : \A j \in S : ~ Before(log, j, i)
<1>1. \A i \in S : i \in Nat /\ log[i].at \in Nat
  BY EventIs
<1>2. PICK m \in {log[i].at : i \in S} : \A o \in {log[i].at : i \in S} : m <= o
  <2>1. {log[i].at : i \in S} \in SUBSET Nat /\ {log[i].at : i \in S} # {}
    BY <1>1
  <2> QED
    BY <2>1, NatMin
<1>3. PICK i \in {k \in S : log[k].at = m} : \A o \in {k \in S : log[k].at = m} : i <= o
  <2>1. {i \in S : log[i].at = m} \in SUBSET Nat /\ {i \in S : log[i].at = m} # {}
    BY <1>1, <1>2
  <2> QED
    BY <2>1, NatMin
<1>4. ASSUME NEW j \in S PROVE ~ Before(log, j, i)
  <2>1. log[i].at = m /\ m <= log[j].at /\ (log[j].at = m => i <= j)
    BY <1>2, <1>3
  <2>2. i \in Nat /\ j \in Nat /\ log[i].at \in Nat /\ log[j].at \in Nat
    BY <1>1
  <2> QED
    BY <2>1, <2>2 DEF Before
<1> QED
  BY <1>4

\* And some place is the last.
LEMMA HasLatest ==
  ASSUME NEW log \in Seq(Event), NEW S \in SUBSET DOMAIN log, S # {}
  PROVE  /\ Latest(log, S) \in S
         /\ \A j \in S \ {Latest(log, S)} : Before(log, j, Latest(log, S))
<1>1. \A i \in S : i \in 0 .. Len(log) /\ i \in Nat /\ log[i].at \in 0 .. MaxAt /\ log[i].at \in Nat
  <2>1. Len(log) \in Nat
    OBVIOUS
  <2> QED
    BY <2>1, EventIs
<1>2. Len(log) \in Nat /\ MaxAt \in Nat
  BY LogAssumption DEF LogAssumption
<1>3. PICK m \in {log[i].at : i \in S} : \A o \in {log[i].at : i \in S} : o <= m
  <2>1. {log[i].at : i \in S} \in SUBSET (0 .. MaxAt) /\ {log[i].at : i \in S} # {}
    BY <1>1
  <2> QED
    BY <1>2, <2>1, NatMax
<1>4. PICK i \in {k \in S : log[k].at = m} : \A o \in {k \in S : log[k].at = m} : o <= i
  <2>1. {i \in S : log[i].at = m} \in SUBSET (0 .. Len(log)) /\ {i \in S : log[i].at = m} # {}
    BY <1>1, <1>3
  <2> QED
    BY <1>2, <2>1, NatMax
<1>5. ASSUME NEW j \in S \ {i} PROVE Before(log, j, i)
  <2>1. log[i].at = m /\ log[j].at <= m /\ (log[j].at = m => j <= i)
    BY <1>3, <1>4
  <2>2. i \in Nat /\ j \in Nat /\ log[i].at \in Nat /\ log[j].at \in Nat /\ i # j
    BY <1>1
  <2> QED
    BY <2>1, <2>2 DEF Before
<1>6. \E x \in S : \A j \in S \ {x} : Before(log, j, x)
  BY <1>5
<1> QED
  BY <1>6 DEF Latest

\* The last place is the only one that all others are before.
LEMMA LatestIs ==
  ASSUME NEW log \in Seq(Event), NEW S \in SUBSET DOMAIN log, NEW i \in S,
         \A j \in S \ {i} : Before(log, j, i)
  PROVE  Latest(log, S) = i
<1>1. PICK l : l = Latest(log, S)
  OBVIOUS
<1>2. l \in S /\ \A j \in S \ {l} : Before(log, j, l)
  BY <1>1, HasLatest
<1>3. l # i => Before(log, l, i) /\ Before(log, i, l)
  BY <1>2
<1> QED
  BY <1>1, <1>2, <1>3, BeforeOrders

\* The event that has the last word is the last.
LEMMA LastWordIs ==
  ASSUME NEW log \in Seq(Event), NEW S \in SUBSET DOMAIN log, S # {}
  PROVE  LastWord(log, S) = log[Latest(log, S)].kind
<1> DEFINE Over(i) == \A j \in S : log[j].at < log[i].at \/ (log[j].at = log[i].at /\ j <= i)
<1>1. PICK l : l = Latest(log, S)
  OBVIOUS
<1>2. l \in S /\ \A j \in S \ {l} : Before(log, j, l)
  BY <1>1, HasLatest
<1>3. \A i \in S : i \in Nat /\ log[i].at \in Nat
  BY EventIs
<1>4. Over(l)
  <2> TAKE j \in S
  <2>1. j = l \/ Before(log, j, l)
    BY <1>2
  <2> QED
    BY <1>2, <1>3, <2>1 DEF Before
<1>5. ASSUME NEW i \in S, Over(i) PROVE i = l
  BY <1>2, <1>3, <1>4, <1>5
<1>6. PICK c : c = CHOOSE i \in S : Over(i)
  OBVIOUS
<1>7. c \in S /\ Over(c)
  BY <1>2, <1>4, <1>6
<1>8. c = l
  BY <1>5, <1>7
<1> QED
  BY <1>1, <1>6, <1>8 DEF LastWord

\* E is what is before i, and U what is up to it: the places up to the last of E
\* are E, and what is before one of U is all in U.
Cuts(log, S, i, E, U) ==
  /\ E = Earlier(log, S, i) /\ U = Upto(log, S, i)
  /\ E \in SUBSET S /\ U \in SUBSET S /\ U = E \cup {i} /\ i \notin E
  /\ \A j \in U : Earlier(log, U, j) = Earlier(log, S, j)
  /\ E # {} => Latest(log, E) \in E /\ Upto(log, S, Latest(log, E)) = E
\* Every place cuts the order in two.
LEMMA UptoIs ==
  ASSUME NEW log \in Seq(Event), NEW S \in SUBSET DOMAIN log, NEW i \in S
  PROVE  Cuts(log, S, i, Earlier(log, S, i), Upto(log, S, i))
<1>1. Upto(log, S, i) = Earlier(log, S, i) \cup {i} /\ i \notin Earlier(log, S, i)
  BY BeforeOrders DEF Upto, Earlier
<1>3. ASSUME NEW j \in Upto(log, S, i)
      PROVE  Earlier(log, Upto(log, S, i), j) = Earlier(log, S, j)
  <2>1. j \in DOMAIN log /\ (j = i \/ Before(log, j, i))
    BY DEF Upto
  <2>2. \A o \in S : Before(log, o, j) => Before(log, o, i)
    BY <2>1, BeforeOrders
  <2> QED
    BY <2>2 DEF Earlier, Upto
<1>4. ASSUME Earlier(log, S, i) # {}
      PROVE  /\ Latest(log, Earlier(log, S, i)) \in Earlier(log, S, i)
             /\ Upto(log, S, Latest(log, Earlier(log, S, i))) = Earlier(log, S, i)
  <2>1. PICK E : E = Earlier(log, S, i)
    OBVIOUS
  <2>2. PICK l : l = Latest(log, E)
    OBVIOUS
  <2>3. E \in SUBSET DOMAIN log /\ E # {} /\ \A o \in E : o \in S /\ Before(log, o, i)
    BY <1>4, <2>1 DEF Earlier
  <2>4. l \in E /\ \A j \in E \ {l} : Before(log, j, l)
    BY <2>2, <2>3, HasLatest
  <2>5. l \in S /\ l \in DOMAIN log /\ Before(log, l, i)
    BY <2>3, <2>4
  <2>6. \A o \in S : o \in E <=> (o = l \/ Before(log, o, l))
    <3> TAKE o \in S
    <3>1. o \in E => o = l \/ Before(log, o, l)
      BY <2>4
    <3>2. Before(log, o, l) => Before(log, o, i)
      BY <2>5, BeforeOrders
    <3> QED
      BY <2>1, <2>4, <3>1, <3>2 DEF Earlier
  <2>7. Upto(log, S, l) = E
    BY <2>3, <2>6 DEF Upto
  <2> QED
    BY <2>1, <2>2, <2>4, <2>7
<1>5. Earlier(log, S, i) \in SUBSET S /\ Upto(log, S, i) \in SUBSET S
  BY DEF Earlier, Upto
<1> QED
  BY <1>1, <1>3, <1>4, <1>5 DEF Cuts

-----------------------------------------------------------------------------
(* Folds. *)

\* after says what each place makes of what was reached before it.
Follows(log, S, first, F, after) ==
  \A i \in S : after[i] = F[i][Reached(log, Earlier(log, S, i), first, after)]
\* There is such a function up to i.
FollowsUpto(log, S, first, F, X, i) ==
  \E after \in [Upto(log, S, i) -> X] : Follows(log, Upto(log, S, i), first, F, after)

\* What is reached over places that two functions agree on is the same.
LEMMA ReachedAgrees ==
  ASSUME NEW log \in Seq(Event), NEW S \in SUBSET DOMAIN log, NEW first, NEW f, NEW g,
         \A i \in S : f[i] = g[i]
  PROVE  Reached(log, S, first, f) = Reached(log, S, first, g)
<1>1. S # {} => Latest(log, S) \in S
  BY HasLatest
<1> QED
  BY <1>1 DEF Reached

\* One more place.
LEMMA FollowsOneMore ==
  ASSUME NEW log \in Seq(Event), NEW S \in SUBSET DOMAIN log, NEW X, NEW first \in X,
         NEW F \in [S -> [X -> X]], NEW i \in S,
         \A l \in Earlier(log, S, i) : FollowsUpto(log, S, first, F, X, l)
  PROVE  FollowsUpto(log, S, first, F, X, i)
<1>1. PICK E : E = Earlier(log, S, i)
  OBVIOUS
<1>2. PICK U : U = Upto(log, S, i)
  OBVIOUS
<1>0. Cuts(log, S, i, E, U)
  BY <1>1, <1>2, UptoIs
<1>3. /\ U = E \cup {i} /\ i \notin E /\ E \in SUBSET DOMAIN log /\ U \in SUBSET S
      /\ \A j \in U : Earlier(log, U, j) = Earlier(log, S, j)
      /\ E # {} => Latest(log, E) \in E /\ Upto(log, S, Latest(log, E)) = E
  BY <1>0 DEF Cuts
<1>4. \E g \in [E -> X] : \A j \in E :
        g[j] = F[j][Reached(log, Earlier(log, S, j), first, g)]
  <2>1. CASE E = {}
    <3>1. PICK g : g = [j \in E |-> first]
      OBVIOUS
    <3>2. g \in [E -> X]
      BY <3>1
    <3> QED
      BY <2>1, <3>2
  <2>2. CASE E # {}
    <3>1. PICK l : l = Latest(log, E)
      OBVIOUS
    <3>2. l \in E /\ l \in S
      BY <1>3, <2>2, <3>1
    <3>3. Upto(log, S, l) = E
      BY <1>3, <2>2, <3>1
    <3>4. PICK g \in [E -> X] : Follows(log, E, first, F, g)
      BY <1>1, <3>2, <3>3 DEF FollowsUpto
    <3>5. \A j \in E : Earlier(log, E, j) = Earlier(log, S, j)
      <4>1. Cuts(log, S, l, Earlier(log, S, l), E)
        BY <3>2, <3>3, UptoIs
      <4> QED
        BY <4>1 DEF Cuts
    <3> QED
      BY <3>4, <3>5 DEF Follows
  <2> QED
    BY <2>1, <2>2
<1>5. PICK g \in [E -> X] : \A j \in E :
        g[j] = F[j][Reached(log, Earlier(log, S, j), first, g)]
  BY <1>4
<1>6. PICK x : x = Reached(log, E, first, g)
  OBVIOUS
<1>7. x \in X
  <2>1. E # {} => Latest(log, E) \in E
    BY <1>3, HasLatest
  <2> QED
    BY <1>5, <1>6, <2>1 DEF Reached
<1>8. PICK h : h = [j \in U |-> IF j = i THEN F[i][x] ELSE g[j]]
  OBVIOUS
<1>9. h \in [U -> X] /\ h[i] = F[i][x] /\ \A j \in E : h[j] = g[j]
  BY <1>3, <1>5, <1>7, <1>8
<1>10. \A j \in U : Earlier(log, S, j) \in SUBSET E
  <2> TAKE j \in U
  <2>1. j \in DOMAIN log /\ (j = i \/ Before(log, j, i))
    BY <1>2 DEF Upto
  <2> QED
    BY <1>1, <2>1, BeforeOrders DEF Earlier
<1>11. \A j \in U : Reached(log, Earlier(log, S, j), first, h)
                      = Reached(log, Earlier(log, S, j), first, g)
  <2> TAKE j \in U
  <2>1. PICK D : D = Earlier(log, S, j)
    OBVIOUS
  <2>2. D \in SUBSET DOMAIN log /\ \A o \in D : h[o] = g[o]
    BY <1>3, <1>9, <1>10, <2>1
  <2> QED
    BY <2>1, <2>2, ReachedAgrees
<1>12. Follows(log, U, first, F, h)
  <2>1. ASSUME NEW j \in U
        PROVE  h[j] = F[j][Reached(log, Earlier(log, U, j), first, h)]
    <3>1. Reached(log, Earlier(log, U, j), first, h) = Reached(log, Earlier(log, S, j), first, g)
      BY <1>3, <1>11
    <3>2. CASE j = i
      BY <1>1, <1>6, <1>9, <3>1, <3>2
    <3>3. CASE j \in E
      BY <1>5, <1>9, <3>1, <3>3
    <3> QED
      BY <1>3, <3>2, <3>3
  <2> QED
    BY <2>1 DEF Follows
<1> QED
  BY <1>2, <1>9, <1>12 DEF FollowsUpto

\* A fold over the places of a log has a value at each of them.
LEMMA FoldExists ==
  ASSUME NEW log \in Seq(Event), NEW S \in SUBSET DOMAIN log, NEW X, NEW first \in X,
         NEW F \in [S -> [X -> X]]
  PROVE  \E after \in [S -> X] : Follows(log, S, first, F, after)
<1> DEFINE Wrong == {i \in S : ~ FollowsUpto(log, S, first, F, X, i)}
<1>1. Wrong = {}
  <2> SUFFICES ASSUME Wrong # {} PROVE FALSE
    OBVIOUS
  <2>1. Wrong \in SUBSET DOMAIN log
    OBVIOUS
  <2>2. PICK i \in Wrong : \A j \in Wrong : ~ Before(log, j, i)
    BY <2>1, HasFirst
  <2>3. \A l \in Earlier(log, S, i) : FollowsUpto(log, S, first, F, X, l)
    BY <2>2 DEF Earlier
  <2> QED
    BY <2>3, FollowsOneMore
<1>2. CASE S = {}
  <2>1. PICK g : g = [i \in S |-> first]
    OBVIOUS
  <2>2. g \in [S -> X] /\ Follows(log, S, first, F, g)
    BY <1>2, <2>1 DEF Follows
  <2> QED
    BY <2>2
<1>3. CASE S # {}
  <2>1. PICK l : l = Latest(log, S)
    OBVIOUS
  <2>2. l \in S /\ \A j \in S \ {l} : Before(log, j, l)
    BY <1>3, <2>1, HasLatest
  <2>3. Upto(log, S, l) = S
    BY <2>2 DEF Upto
  <2> QED
    BY <1>1, <2>2, <2>3 DEF FollowsUpto
<1> QED
  BY <1>2, <1>3

\* What holds of the beginning, and after a place if it held before, holds of
\* what a fold has come to.
LEMMA FoldTells ==
  ASSUME NEW log \in Seq(Event), NEW S \in SUBSET DOMAIN log, NEW X,
         NEW Q \in [SUBSET S -> SUBSET X], NEW first, NEW after,
         first \in Q[{}],
         \A i \in S : Reached(log, Earlier(log, S, i), first, after) \in Q[Earlier(log, S, i)]
                        => after[i] \in Q[Upto(log, S, i)]
  PROVE  /\ Reached(log, S, first, after) \in Q[S]
         /\ \A i \in S : Reached(log, Earlier(log, S, i), first, after) \in Q[Earlier(log, S, i)]
<1> DEFINE Wrong == {i \in S : ~ after[i] \in Q[Upto(log, S, i)]}
<1>1. ASSUME NEW i \in S, \A l \in Earlier(log, S, i) : after[l] \in Q[Upto(log, S, l)]
      PROVE  Reached(log, Earlier(log, S, i), first, after) \in Q[Earlier(log, S, i)]
  <2>1. PICK E : E = Earlier(log, S, i)
    OBVIOUS
  <2>2. CASE E = {}
    BY <2>1, <2>2 DEF Reached
  <2>3. CASE E # {}
    <3>1. PICK l : l = Latest(log, E)
      OBVIOUS
    <3>2. E \in SUBSET DOMAIN log
      BY <2>1 DEF Earlier
    <3>3. l \in E
      BY <2>3, <3>1, <3>2, HasLatest
    <3>4. Upto(log, S, l) = E
      <4>1. Cuts(log, S, i, E, Upto(log, S, i))
        BY <2>1, UptoIs
      <4> QED
        BY <2>3, <3>1, <4>1 DEF Cuts
    <3>5. after[l] \in Q[E]
      BY <1>1, <2>1, <3>3, <3>4
    <3> QED
      BY <2>1, <2>3, <3>1, <3>5 DEF Reached
  <2> QED
    BY <2>2, <2>3
<1>2. Wrong = {}
  <2> SUFFICES ASSUME Wrong # {} PROVE FALSE
    OBVIOUS
  <2>1. Wrong \in SUBSET DOMAIN log
    OBVIOUS
  <2>2. PICK i \in Wrong : \A j \in Wrong : ~ Before(log, j, i)
    BY <2>1, HasFirst
  <2>3. i \in S /\ after[i] \notin Q[Upto(log, S, i)]
    OBVIOUS
  <2>4. \A l \in Earlier(log, S, i) : after[l] \in Q[Upto(log, S, l)]
    BY <2>2 DEF Earlier
  <2> QED
    BY <1>1, <2>3, <2>4
<1>3. \A i \in S : after[i] \in Q[Upto(log, S, i)]
  BY <1>2
<1>4. \A i \in S : Reached(log, Earlier(log, S, i), first, after) \in Q[Earlier(log, S, i)]
  BY <1>1, <1>3 DEF Earlier
<1>5. Reached(log, S, first, after) \in Q[S]
  <2>1. CASE S = {}
    BY <2>1 DEF Reached
  <2>2. CASE S # {}
    <3>1. PICK l : l = Latest(log, S)
      OBVIOUS
    <3>2. l \in S /\ \A j \in S \ {l} : Before(log, j, l)
      BY <2>2, <3>1, HasLatest
    <3>3. Upto(log, S, l) = S
      BY <3>2 DEF Upto
    <3>4. after[l] \in Q[S]
      BY <1>3, <3>2, <3>3
    <3> QED
      BY <2>2, <3>1, <3>4 DEF Reached
  <2> QED
    BY <2>1, <2>2
<1> QED
  BY <1>4, <1>5

-----------------------------------------------------------------------------
(* Last words. *)

\* A place after all others has the last word once it is added.
LEMMA LastAdded ==
  ASSUME NEW log \in Seq(Event), NEW T \in SUBSET DOMAIN log, NEW i \in DOMAIN log,
         \A j \in T : Before(log, j, i)
  PROVE  LastWord(log, T \cup {i}) = log[i].kind
<1>1. PICK U : U = T \cup {i}
  OBVIOUS
<1>2. U \in SUBSET DOMAIN log /\ U # {} /\ i \in U /\ \A j \in U \ {i} : Before(log, j, i)
  BY <1>1
<1>3. Latest(log, U) = i
  BY <1>2, LatestIs
<1> QED
  BY <1>1, <1>2, <1>3, LastWordIs

\* The state x is what the events at the places E, in order, make of it.
Tells(log, x, E) ==
  /\ \A w : w \in x.granted <=> LastWord(log, OfValue(log, E, w)) = "grant"
  /\ x.role <=> LastWord(log, OfRole(log, E)) = "grant"
  /\ \A v \in Value : x.anchored[v] = Cardinality(AnchoredOf(log, E, v))

\* At first nothing is told.
LEMMA BlankTells ==
  ASSUME NEW log \in Seq(Event)
  PROVE  Blank \in State /\ Tells(log, Blank, {})
<1>1. Blank \in State
  BY DEF Blank, State
<1>2. \A w : OfValue(log, {}, w) = {}
  BY DEF OfValue, Authorities
<1>3. OfRole(log, {}) = {} /\ LastWord(log, {}) = "none"
  BY DEF OfRole, Authorities, LastWord
<1>4. \A v : AnchoredOf(log, {}, v) = {}
  BY DEF AnchoredOf
<1> QED
  BY <1>1, <1>2, <1>3, <1>4, FS_EmptySet DEF Tells, Blank

\* A fold leads from states to states.
LEMMA FoldIsState ==
  ASSUME NEW log \in Seq(Event), NEW i \in DOMAIN log, NEW x \in State
  PROVE  Fold(x, log[i]) \in State
<1>1. PICK ev : ev = log[i]
  OBVIOUS
<1>2. PICK y : y = Fold(x, ev)
  OBVIOUS
<1>3. /\ x.granted \in SUBSET Value /\ x.role \in BOOLEAN /\ x.keyed \in BOOLEAN
      /\ x.ai \in [Value -> Nat] /\ x.anchored \in [Value -> Nat]
  BY DEF State
<1>4. CASE ev.kind = "grant"
  <2>1. ev.value \in Value /\ ev.role \in BOOLEAN
    BY <1>1, <1>4, EventIs
  <2>2. y = [x EXCEPT !.granted = x.granted \cup {ev.value}, !.role = x.role \/ ev.role]
    BY <1>2, <1>4 DEF Fold
  <2>3. y \in State
    BY <1>3, <2>1, <2>2 DEF State
  <2> QED
    BY <1>1, <1>2, <2>3
<1>5. CASE ev.kind = "revoke"
  <2>1. ev.value \in Value /\ ev.role \in BOOLEAN
    BY <1>1, <1>5, EventIs
  <2>2. y = [x EXCEPT !.granted = x.granted \ {ev.value}, !.role = x.role /\ ~ev.role]
    BY <1>2, <1>5 DEF Fold
  <2>3. y \in State
    BY <1>3, <2>1, <2>2 DEF State
  <2> QED
    BY <1>1, <1>2, <2>3
<1>6. CASE ev.kind = "observe"
  <2>1. ev.value \in Value /\ ev.anchored \in BOOLEAN
    BY <1>1, <1>6, EventIs
  <2>2. PICK a : a = [x.anchored EXCEPT ![ev.value] = x.anchored[ev.value] + 1]
    OBVIOUS
  <2>3. PICK b : b = [x.ai EXCEPT ![ev.value] = x.ai[ev.value] + 1]
    OBVIOUS
  <2>4. a \in [Value -> Nat] /\ b \in [Value -> Nat]
    BY <1>3, <2>1, <2>2, <2>3
  <2>5. y = [x EXCEPT !.anchored = a] \/ y = [x EXCEPT !.ai = b]
    BY <1>2, <1>6, <2>2, <2>3 DEF Fold
  <2>6. y \in State
    BY <1>3, <2>4, <2>5 DEF State
  <2> QED
    BY <1>1, <1>2, <2>6
<1>7. CASE ev.kind \notin {"grant", "revoke", "observe"}
  <2>1. y = [x EXCEPT !.keyed = TRUE] \/ y = [x EXCEPT !.keyed = FALSE]
    BY <1>2, <1>7 DEF Fold
  <2>2. y \in State
    BY <1>3, <2>1 DEF State
  <2> QED
    BY <1>1, <1>2, <2>2
<1> QED
  BY <1>4, <1>5, <1>6, <1>7

\* An event that comes after those told is told by the fold.
LEMMA FoldTellsMore ==
  ASSUME NEW log \in Seq(Event), NEW E \in SUBSET DOMAIN log, NEW i \in DOMAIN log \ E,
         \A j \in E : Before(log, j, i),
         NEW x \in State, Tells(log, x, E)
  PROVE  Fold(x, log[i]) \in State /\ Tells(log, Fold(x, log[i]), E \cup {i})
<1>1. PICK ev : ev = log[i]
  OBVIOUS
<1>2. PICK U : U = E \cup {i}
  OBVIOUS
<1>3. PICK y : y = Fold(x, ev)
  OBVIOUS
<1>4. /\ x.granted \in SUBSET Value /\ x.role \in BOOLEAN /\ x.keyed \in BOOLEAN
      /\ x.ai \in [Value -> Nat] /\ x.anchored \in [Value -> Nat]
  BY DEF State
<1>5. \A w : w \in x.granted <=> LastWord(log, OfValue(log, E, w)) = "grant"
  BY DEF Tells
<1>6. x.role <=> LastWord(log, OfRole(log, E)) = "grant"
  BY DEF Tells
<1>7. \A v \in Value : x.anchored[v] = Cardinality(AnchoredOf(log, E, v))
  BY DEF Tells
<1>8. \A w : \/ /\ ev.kind \in {"grant", "revoke"} /\ ev.value = w
                 /\ OfValue(log, U, w) = OfValue(log, E, w) \cup {i}
              \/ /\ ~ (ev.kind \in {"grant", "revoke"} /\ ev.value = w)
                 /\ OfValue(log, U, w) = OfValue(log, E, w)
  BY <1>1, <1>2 DEF OfValue, Authorities
<1>9. \/ /\ ev.kind \in {"grant", "revoke"} /\ ev.role
         /\ OfRole(log, U) = OfRole(log, E) \cup {i}
      \/ /\ ~ (ev.kind \in {"grant", "revoke"} /\ ev.role)
         /\ OfRole(log, U) = OfRole(log, E)
  BY <1>1, <1>2 DEF OfRole, Authorities
<1>10. \A w : LastWord(log, OfValue(log, E, w) \cup {i}) = ev.kind
  <2> TAKE w
  <2>1. OfValue(log, E, w) \in SUBSET E
    BY DEF OfValue, Authorities
  <2> QED
    BY <1>1, <2>1, LastAdded
<1>11. LastWord(log, OfRole(log, E) \cup {i}) = ev.kind
  <2>1. OfRole(log, E) \in SUBSET E
    BY DEF OfRole, Authorities
  <2> QED
    BY <1>1, <2>1, LastAdded
<1>12. \A v \in Value :
         /\ (ev.kind = "observe" /\ ev.value = v /\ ev.anchored) =>
              Cardinality(AnchoredOf(log, U, v)) = Cardinality(AnchoredOf(log, E, v)) + 1
         /\ ~ (ev.kind = "observe" /\ ev.value = v /\ ev.anchored) =>
              Cardinality(AnchoredOf(log, U, v)) = Cardinality(AnchoredOf(log, E, v))
  <2> TAKE v \in Value
  <2>1. PICK A : A = AnchoredOf(log, E, v)
    OBVIOUS
  <2>2. A \in SUBSET (1 .. Len(log)) /\ i \notin A
    BY <2>1 DEF AnchoredOf
  <2>3. IsFiniteSet(A)
    <3>1. IsFiniteSet(1 .. Len(log))
      BY FS_Interval, LenProperties
    <3> QED
      BY <2>2, <3>1, FS_Subset
  <2>4. (ev.kind = "observe" /\ ev.value = v /\ ev.anchored) => AnchoredOf(log, U, v) = A \cup {i}
    BY <1>1, <1>2, <2>1 DEF AnchoredOf
  <2>5. ~ (ev.kind = "observe" /\ ev.value = v /\ ev.anchored) => AnchoredOf(log, U, v) = A
    BY <1>1, <1>2, <2>1 DEF AnchoredOf
  <2>6. Cardinality(A \cup {i}) = Cardinality(A) + 1
    BY <2>2, <2>3, FS_AddElement
  <2> QED
    BY <2>1, <2>4, <2>5, <2>6
<1>13. CASE ev.kind = "grant"
  <2>0. ev.value \in Value /\ ev.role \in BOOLEAN
    BY <1>1, <1>13, EventIs
  <2>1. y = [x EXCEPT !.granted = x.granted \cup {ev.value}, !.role = x.role \/ ev.role]
    BY <1>3, <1>13 DEF Fold
  <2>2. /\ y.granted = x.granted \cup {ev.value} /\ y.role = (x.role \/ ev.role)
        /\ y.anchored = x.anchored /\ y \in State
    BY <1>4, <2>0, <2>1 DEF State
  <2>3. \A w : w \in y.granted <=> LastWord(log, OfValue(log, U, w)) = "grant"
    BY <1>5, <1>8, <1>10, <1>13, <2>2
  <2>4. y.role <=> LastWord(log, OfRole(log, U)) = "grant"
    BY <1>6, <1>9, <1>11, <1>13, <2>2
  <2>5. \A v \in Value : y.anchored[v] = Cardinality(AnchoredOf(log, U, v))
    BY <1>7, <1>12, <1>13, <2>2
  <2> QED
    BY <1>1, <1>2, <1>3, <2>2, <2>3, <2>4, <2>5 DEF Tells
<1>14. CASE ev.kind = "revoke"
  <2>0. ev.value \in Value /\ ev.role \in BOOLEAN
    BY <1>1, <1>14, EventIs
  <2>1. y = [x EXCEPT !.granted = x.granted \ {ev.value}, !.role = x.role /\ ~ev.role]
    BY <1>3, <1>14 DEF Fold
  <2>2. /\ y.granted = x.granted \ {ev.value} /\ y.role = (x.role /\ ~ev.role)
        /\ y.anchored = x.anchored /\ y \in State
    BY <1>4, <2>0, <2>1 DEF State
  <2>3. \A w : w \in y.granted <=> LastWord(log, OfValue(log, U, w)) = "grant"
    BY <1>5, <1>8, <1>10, <1>14, <2>2
  <2>4. y.role <=> LastWord(log, OfRole(log, U)) = "grant"
    BY <1>6, <1>9, <1>11, <1>14, <2>2
  <2>5. \A v \in Value : y.anchored[v] = Cardinality(AnchoredOf(log, U, v))
    BY <1>7, <1>12, <1>14, <2>2
  <2> QED
    BY <1>1, <1>2, <1>3, <2>2, <2>3, <2>4, <2>5 DEF Tells
<1>15. ASSUME ev.kind \notin {"grant", "revoke"}, y.granted = x.granted, y.role = x.role
       PROVE  /\ \A w : w \in y.granted <=> LastWord(log, OfValue(log, U, w)) = "grant"
              /\ y.role <=> LastWord(log, OfRole(log, U)) = "grant"
  <2>1. \A w : OfValue(log, U, w) = OfValue(log, E, w)
    BY <1>8, <1>15
  <2>2. OfRole(log, U) = OfRole(log, E)
    BY <1>9, <1>15
  <2> QED
    BY <1>5, <1>6, <1>15, <2>1, <2>2
<1>16. CASE ev.kind = "observe"
  <2>0. ev.value \in Value /\ ev.anchored \in BOOLEAN
    BY <1>1, <1>16, EventIs
  <2>1. CASE ev.anchored
    <3>1. y = [x EXCEPT !.anchored[ev.value] = x.anchored[ev.value] + 1]
      BY <1>3, <1>16, <2>1 DEF Fold
    <3>2. PICK a : a = [x.anchored EXCEPT ![ev.value] = x.anchored[ev.value] + 1]
      OBVIOUS
    <3>5. a \in [Value -> Nat]
      BY <1>4, <2>0, <3>2
    <3>6. y = [x EXCEPT !.anchored = a]
      BY <3>1, <3>2
    <3>3. /\ y.granted = x.granted /\ y.role = x.role /\ y.anchored = a
          /\ y \in State
      BY <1>4, <3>5, <3>6 DEF State
    <3>4. \A v \in Value : a[v] = Cardinality(AnchoredOf(log, U, v))
      BY <1>4, <1>7, <1>12, <1>16, <2>0, <2>1, <3>2
    <3> QED
      BY <1>1, <1>2, <1>3, <1>15, <1>16, <3>3, <3>4 DEF Tells
  <2>2. CASE ~ ev.anchored
    <3>1. y = [x EXCEPT !.ai[ev.value] = x.ai[ev.value] + 1]
      BY <1>3, <1>16, <2>2 DEF Fold
    <3>4. PICK a : a = [x.ai EXCEPT ![ev.value] = x.ai[ev.value] + 1]
      OBVIOUS
    <3>5. a \in [Value -> Nat]
      BY <1>4, <2>0, <3>4
    <3>6. y = [x EXCEPT !.ai = a]
      BY <3>1, <3>4
    <3>2. /\ y.granted = x.granted /\ y.role = x.role /\ y.anchored = x.anchored
          /\ y \in State
      BY <1>4, <3>5, <3>6 DEF State
    <3>3. \A v \in Value : y.anchored[v] = Cardinality(AnchoredOf(log, U, v))
      BY <1>7, <1>12, <2>2, <3>2
    <3> QED
      BY <1>1, <1>2, <1>3, <1>15, <1>16, <3>2, <3>3 DEF Tells
  <2> QED
    BY <2>1, <2>2
<1>17. CASE ev.kind \notin {"grant", "revoke", "observe"}
  <2>1. y = [x EXCEPT !.keyed = TRUE] \/ y = [x EXCEPT !.keyed = FALSE]
    BY <1>3, <1>17 DEF Fold
  <2>2. /\ y.granted = x.granted /\ y.role = x.role /\ y.anchored = x.anchored
        /\ y \in State
    BY <1>4, <2>1 DEF State
  <2>3. \A v \in Value : y.anchored[v] = Cardinality(AnchoredOf(log, U, v))
    BY <1>7, <1>12, <1>17, <2>2
  <2> QED
    BY <1>1, <1>2, <1>3, <1>15, <1>17, <2>2, <2>3 DEF Tells
<1> QED
  BY <1>13, <1>14, <1>16, <1>17

-----------------------------------------------------------------------------
(* The projection. *)

\* f is a fold of the events at the places H.
Projects(log, H, f) ==
  f = [i \in H |-> Fold(Reached(log, Earlier(log, H, i), Blank, f), log[i])]

\* A projection is where a fold of what was heard arrives.
LEMMA ProjectionFolds ==
  ASSUME NEW log \in Seq(Event), NEW t
  PROVE  \E f : /\ Projects(log, Heard(log, t), f)
               /\ ProjectAt(log, t) = Reached(log, Heard(log, t), Blank, f)
<1>1. PICK H : H = Heard(log, t)
  OBVIOUS
<1>2. H \in SUBSET DOMAIN log
  BY <1>1 DEF Heard
<1>3. PICK F : F = [i \in H |-> [x \in State |-> Fold(x, log[i])]]
  OBVIOUS
<1>4. Blank \in State
  BY BlankTells
<1>5. F \in [H -> [State -> State]]
  <2>1. ASSUME NEW i \in H, NEW x \in State PROVE Fold(x, log[i]) \in State
    BY <1>2, <2>1, FoldIsState
  <2> QED
    BY <1>3, <2>1
<1>6. PICK g \in [H -> State] : Follows(log, H, Blank, F, g)
  BY <1>2, <1>4, <1>5, FoldExists
<1>7. ASSUME NEW i \in H
      PROVE  g[i] = Fold(Reached(log, Earlier(log, H, i), Blank, g), log[i])
  <2>1. PICK E : E = Earlier(log, H, i)
    OBVIOUS
  <2>2. E \in SUBSET H /\ E \in SUBSET DOMAIN log
    BY <1>2, <2>1 DEF Earlier
  <2>3. PICK x : x = Reached(log, E, Blank, g)
    OBVIOUS
  <2>4. x \in State
    <3>1. E # {} => Latest(log, E) \in E
      BY <2>2, HasLatest
    <3> QED
      BY <1>4, <1>6, <2>2, <2>3, <3>1 DEF Reached
  <2>5. g[i] = F[i][x]
    BY <1>6, <2>1, <2>3 DEF Follows
  <2> QED
    BY <1>3, <2>1, <2>3, <2>4, <2>5
<1>8. Projects(log, H, g)
  BY <1>6, <1>7 DEF Projects
<1>9. PICK f : f = CHOOSE h : Projects(log, H, h)
  OBVIOUS
<1>10. Projects(log, H, f)
  BY <1>8, <1>9
<1>11. ProjectAt(log, t) = Reached(log, H, Blank, f)
  BY <1>1, <1>9 DEF ProjectAt, FoldInTime, Projects, Reached, Earlier
<1> QED
  BY <1>1, <1>10, <1>11

\* A projection tells the last words of what was heard.
LEMMA ProjectionTells ==
  ASSUME NEW log \in Seq(Event), NEW t
  PROVE  ProjectAt(log, t) \in State /\ Tells(log, ProjectAt(log, t), Heard(log, t))
<1>1. PICK H : H = Heard(log, t)
  OBVIOUS
<1>2. H \in SUBSET DOMAIN log
  BY <1>1 DEF Heard
<1>3. PICK f : Projects(log, H, f) /\ ProjectAt(log, t) = Reached(log, H, Blank, f)
  BY <1>1, ProjectionFolds
<1>4. PICK Q : Q = [E \in SUBSET H |-> {x \in State : Tells(log, x, E)}]
  OBVIOUS
<1>5. Q \in [SUBSET H -> SUBSET State]
  BY <1>4
<1>6. Blank \in Q[{}]
  BY <1>4, BlankTells
<1>7. ASSUME NEW i \in H,
             Reached(log, Earlier(log, H, i), Blank, f) \in Q[Earlier(log, H, i)]
      PROVE  f[i] \in Q[Upto(log, H, i)]
  <2>1. PICK E : E = Earlier(log, H, i)
    OBVIOUS
  <2>2. PICK U : U = Upto(log, H, i)
    OBVIOUS
  <2>3. /\ E \in SUBSET H /\ U \in SUBSET H /\ U = E \cup {i} /\ i \notin E
        /\ E \in SUBSET DOMAIN log /\ i \in DOMAIN log \ E
    <3>1. Cuts(log, H, i, E, U)
      BY <1>2, <2>1, <2>2, UptoIs
    <3> QED
      BY <1>2, <3>1 DEF Cuts
  <2>4. PICK x : x = Reached(log, E, Blank, f)
    OBVIOUS
  <2>5. x \in State /\ Tells(log, x, E)
    BY <1>4, <1>7, <2>1, <2>3, <2>4
  <2>6. \A j \in E : Before(log, j, i)
    BY <2>1 DEF Earlier
  <2>7. Fold(x, log[i]) \in State /\ Tells(log, Fold(x, log[i]), U)
    BY <2>3, <2>5, <2>6, FoldTellsMore
  <2>8. f[i] = Fold(x, log[i])
    BY <1>3, <2>1, <2>4 DEF Projects
  <2> QED
    BY <1>4, <2>2, <2>3, <2>7, <2>8
<1>8. Reached(log, H, Blank, f) \in Q[H]
  BY <1>2, <1>5, <1>6, <1>7, FoldTells
<1>9. H \in SUBSET H
  OBVIOUS
<1> QED
  BY <1>1, <1>3, <1>4, <1>8, <1>9

\* What was heard by a time does not change when an event of later is added, nor
\* does the projection.
LEMMA LaterChangesNothing ==
  ASSUME NEW log \in Seq(Event), NEW ev \in Event, NEW t \in Nat, ev.at > t
  PROVE  ProjectAt(Append(log, ev), t) = ProjectAt(log, t)
<1>1. PICK new : new = Append(log, ev)
  OBVIOUS
<1>2. /\ new \in Seq(Event) /\ Len(log) \in Nat
      /\ DOMAIN log = 1 .. Len(log) /\ DOMAIN new = 1 .. Len(log) + 1
      /\ \A i \in DOMAIN log : i \in DOMAIN new /\ new[i] = log[i]
      /\ new[Len(log) + 1] = ev
  BY <1>1, AppendProperties, LenProperties
<1>3. PICK H : H = Heard(log, t)
  OBVIOUS
<1>4. Heard(new, t) = H
  <2>1. ~ (new[Len(log) + 1].at <= t)
    <3>1. ev.at \in Nat
      <4>1. Len(log) + 1 \in DOMAIN new
        BY <1>2
      <4> QED
        BY <1>2, <4>1, EventIs
    <3> QED
      BY <1>2, <3>1
  <2>2. \A i \in DOMAIN new : i \in DOMAIN log \/ i = Len(log) + 1
    BY <1>2
  <2> QED
    BY <1>2, <1>3, <2>1, <2>2 DEF Heard
<1>5. H \in SUBSET DOMAIN log /\ H \in SUBSET DOMAIN new
  BY <1>2, <1>3 DEF Heard
<1>6. \A i, j \in H : Before(new, i, j) <=> Before(log, i, j)
  BY <1>2, <1>5 DEF Before
<1>7. \A E \in SUBSET H : E # {} => Latest(new, E) = Latest(log, E) /\ Latest(log, E) \in E
  <2>1. ASSUME NEW E \in SUBSET H, E # {}
        PROVE  Latest(new, E) = Latest(log, E) /\ Latest(log, E) \in E
    <3>1. PICK l : l = Latest(log, E)
      OBVIOUS
    <3>2. E \in SUBSET DOMAIN log /\ E \in SUBSET DOMAIN new
      BY <1>5
    <3>3. l \in E /\ \A j \in E \ {l} : Before(log, j, l)
      BY <2>1, <3>1, <3>2, HasLatest
    <3>4. \A j \in E \ {l} : Before(new, j, l)
      BY <1>6, <3>3
    <3>5. Latest(new, E) = l
      BY <1>2, <3>2, <3>3, <3>4, LatestIs
    <3> QED
      BY <3>1, <3>3, <3>5
  <2> QED
    BY <2>1
<1>8. PICK f : Projects(log, H, f) /\ ProjectAt(log, t) = Reached(log, H, Blank, f)
  BY <1>3, ProjectionFolds
<1>9. PICK g : Projects(new, H, g) /\ ProjectAt(new, t) = Reached(new, H, Blank, g)
  BY <1>2, <1>4, ProjectionFolds
<1>10. \A i \in H : Earlier(new, H, i) = Earlier(log, H, i)
  BY <1>6 DEF Earlier
<1> DEFINE Wrong == {i \in H : f[i] # g[i]}
<1>11. ASSUME NEW E \in SUBSET H, \A i \in E : f[i] = g[i]
       PROVE  Reached(new, E, Blank, g) = Reached(log, E, Blank, f)
  BY <1>7, <1>11 DEF Reached
<1>12. Wrong = {}
  <2> SUFFICES ASSUME Wrong # {} PROVE FALSE
    OBVIOUS
  <2>1. Wrong \in SUBSET DOMAIN log
    BY <1>5
  <2>2. PICK i \in Wrong : \A j \in Wrong : ~ Before(log, j, i)
    BY <2>1, HasFirst
  <2>3. i \in H /\ f[i] # g[i]
    OBVIOUS
  <2>4. PICK E : E = Earlier(log, H, i)
    OBVIOUS
  <2>5. E \in SUBSET H /\ \A j \in E : f[j] = g[j]
    BY <2>2, <2>4 DEF Earlier
  <2>6. Reached(new, E, Blank, g) = Reached(log, E, Blank, f)
    BY <1>11, <2>5
  <2>7. f[i] = Fold(Reached(log, E, Blank, f), log[i])
    BY <1>8, <2>3, <2>4 DEF Projects
  <2>8. g[i] = Fold(Reached(new, E, Blank, g), new[i])
    BY <1>9, <1>10, <2>3, <2>4 DEF Projects
  <2>9. new[i] = log[i]
    BY <1>2, <1>5, <2>3
  <2> QED
    BY <2>3, <2>6, <2>7, <2>8, <2>9
<1>13. \A i \in H : f[i] = g[i]
  BY <1>12
<1>14. H \in SUBSET H
  OBVIOUS
<1>15. Reached(new, H, Blank, g) = Reached(log, H, Blank, f)
  BY <1>11, <1>13, <1>14
<1> QED
  BY <1>1, <1>8, <1>9, <1>15

-----------------------------------------------------------------------------
(* Keys. *)

\* The bindings and rotations by t, and whether a compromise reaches back to t.
Bindings(log, E, t) == {i \in E : log[i].kind \in {"key", "rotated"} /\ log[i].at <= t}
Compromised(log, E, t) == \E i \in E : log[i].kind = "compromised" /\ log[i].from <= t

\* The status x is what the events at the places E, in order, make of it.
KeyTells(log, x, E, t) ==
  /\ x.compromised <=> Compromised(log, E, t)
  /\ x.active <=> LastWord(log, Bindings(log, E, t)) = "key"

\* At first no key is known.
LEMMA NoStatusTells ==
  ASSUME NEW log \in Seq(Event), NEW t
  PROVE  NoStatus \in Status /\ KeyTells(log, NoStatus, {}, t)
<1>1. NoStatus \in Status
  BY DEF NoStatus, Status
<1>2. Bindings(log, {}, t) = {} /\ LastWord(log, {}) = "none"
  BY DEF Bindings, LastWord
<1> QED
  BY <1>1, <1>2 DEF KeyTells, NoStatus, Compromised

\* A step leads from a status to a status.
LEMMA KeyStepIsStatus ==
  ASSUME NEW x \in Status, NEW ev, NEW t
  PROVE  KeyStep(x, ev, t) \in Status
<1>1. PICK y : y = KeyStep(x, ev, t)
  OBVIOUS
<1>2. \/ y = x \/ y = [x EXCEPT !.active = TRUE] \/ y = [x EXCEPT !.active = FALSE]
      \/ y = [x EXCEPT !.compromised = TRUE]
  BY <1>1 DEF KeyStep
<1>3. y \in Status
  BY <1>2 DEF Status
<1> QED
  BY <1>1, <1>3

\* An event of the key that comes after those told is told by the step.
LEMMA KeyStepTellsMore ==
  ASSUME NEW log \in Seq(Event), NEW E \in SUBSET DOMAIN log, NEW i \in DOMAIN log \ E,
         \A j \in E : Before(log, j, i),
         NEW t, NEW x \in Status, KeyTells(log, x, E, t)
  PROVE  KeyTells(log, KeyStep(x, log[i], t), E \cup {i}, t)
<1>1. PICK ev : ev = log[i]
  OBVIOUS
<1>2. PICK U : U = E \cup {i}
  OBVIOUS
<1>3. PICK y : y = KeyStep(x, ev, t)
  OBVIOUS
<1>4. x.active \in BOOLEAN /\ x.compromised \in BOOLEAN
  BY DEF Status
<1>5. /\ x.compromised <=> Compromised(log, E, t)
      /\ x.active <=> LastWord(log, Bindings(log, E, t)) = "key"
  BY DEF KeyTells
<1>6. \/ /\ ev.kind \in {"key", "rotated"} /\ ev.at <= t
         /\ LastWord(log, Bindings(log, U, t)) = ev.kind
      \/ /\ ~ (ev.kind \in {"key", "rotated"} /\ ev.at <= t)
         /\ Bindings(log, U, t) = Bindings(log, E, t)
  <2>1. CASE ev.kind \in {"key", "rotated"} /\ ev.at <= t
    <3>1. Bindings(log, U, t) = Bindings(log, E, t) \cup {i}
      BY <1>1, <1>2, <2>1 DEF Bindings
    <3>2. Bindings(log, E, t) \in SUBSET E
      BY DEF Bindings
    <3>3. LastWord(log, Bindings(log, E, t) \cup {i}) = ev.kind
      BY <1>1, <3>2, LastAdded
    <3> QED
      BY <2>1, <3>1, <3>3
  <2>2. CASE ~ (ev.kind \in {"key", "rotated"} /\ ev.at <= t)
    BY <1>1, <1>2, <2>2 DEF Bindings
  <2> QED
    BY <2>1, <2>2
<1>7. Compromised(log, U, t) <=> Compromised(log, E, t)
                                 \/ (ev.kind = "compromised" /\ ev.from <= t)
  BY <1>1, <1>2 DEF Compromised
<1>8. CASE ev.kind = "key" /\ ev.at <= t
  <2>1. y = [x EXCEPT !.active = TRUE]
    BY <1>3, <1>8 DEF KeyStep
  <2>2. y.active = TRUE /\ y.compromised = x.compromised
    BY <2>1 DEF Status
  <2> QED
    BY <1>1, <1>2, <1>3, <1>5, <1>6, <1>7, <1>8, <2>2 DEF KeyTells
<1>9. CASE ev.kind = "rotated" /\ ev.at <= t
  <2>1. y = [x EXCEPT !.active = FALSE]
    BY <1>3, <1>9 DEF KeyStep
  <2>2. y.active = FALSE /\ y.compromised = x.compromised
    BY <2>1 DEF Status
  <2> QED
    BY <1>1, <1>2, <1>3, <1>5, <1>6, <1>7, <1>9, <2>2 DEF KeyTells
<1>10. CASE ev.kind = "compromised" /\ ev.from <= t
  <2>1. y = [x EXCEPT !.compromised = TRUE]
    BY <1>3, <1>10 DEF KeyStep
  <2>2. y.active = x.active /\ y.compromised = TRUE
    BY <2>1 DEF Status
  <2> QED
    BY <1>1, <1>2, <1>3, <1>5, <1>6, <1>7, <1>10, <2>2 DEF KeyTells
<1>11. CASE /\ ~ (ev.kind = "key" /\ ev.at <= t) /\ ~ (ev.kind = "rotated" /\ ev.at <= t)
            /\ ~ (ev.kind = "compromised" /\ ev.from <= t)
  <2>1. y = x
    BY <1>3, <1>11 DEF KeyStep
  <2> QED
    BY <1>1, <1>2, <1>3, <1>5, <1>6, <1>7, <1>11, <2>1 DEF KeyTells
<1> QED
  BY <1>8, <1>9, <1>10, <1>11

\* g is a fold of the events of the key at the places K.
Statuses(log, K, t, g) ==
  g = [i \in K |-> KeyStep(Reached(log, Earlier(log, K, i), NoStatus, g), log[i], t)]

\* The status of a key comes from a fold of all its events.
LEMMA StatusFolds ==
  ASSUME NEW log \in Seq(Event), NEW t
  PROVE  \E g, x : /\ Statuses(log, OfKey(log), t, g)
                  /\ x = Reached(log, OfKey(log), NoStatus, g)
                  /\ KeyStatus(log, t) = [x EXCEPT !.active = x.active /\ ~x.compromised]
<1>1. PICK K : K = OfKey(log)
  OBVIOUS
<1>2. K \in SUBSET DOMAIN log
  BY <1>1 DEF OfKey
<1>3. PICK F : F = [i \in K |-> [x \in Status |-> KeyStep(x, log[i], t)]]
  OBVIOUS
<1>4. NoStatus \in Status
  BY NoStatusTells
<1>5. F \in [K -> [Status -> Status]]
  <2>1. ASSUME NEW i \in K, NEW x \in Status PROVE KeyStep(x, log[i], t) \in Status
    BY KeyStepIsStatus
  <2> QED
    BY <1>3, <2>1
<1>6. PICK h \in [K -> Status] : Follows(log, K, NoStatus, F, h)
  BY <1>2, <1>4, <1>5, FoldExists
<1>7. ASSUME NEW i \in K
      PROVE  h[i] = KeyStep(Reached(log, Earlier(log, K, i), NoStatus, h), log[i], t)
  <2>1. PICK E : E = Earlier(log, K, i)
    OBVIOUS
  <2>2. E \in SUBSET K /\ E \in SUBSET DOMAIN log
    BY <1>2, <2>1 DEF Earlier
  <2>3. PICK x : x = Reached(log, E, NoStatus, h)
    OBVIOUS
  <2>4. x \in Status
    <3>1. E # {} => Latest(log, E) \in E
      BY <2>2, HasLatest
    <3> QED
      BY <1>4, <1>6, <2>2, <2>3, <3>1 DEF Reached
  <2>5. h[i] = F[i][x]
    BY <1>6, <2>1, <2>3 DEF Follows
  <2> QED
    BY <1>3, <2>1, <2>3, <2>4, <2>5
<1>8. Statuses(log, K, t, h)
  BY <1>6, <1>7 DEF Statuses
<1>9. PICK g : g = CHOOSE f : Statuses(log, K, t, f)
  OBVIOUS
<1>10. Statuses(log, K, t, g)
  BY <1>8, <1>9
<1>11. PICK x : x = Reached(log, K, NoStatus, g)
  OBVIOUS
<1>12. KeyStatus(log, t) = [x EXCEPT !.active = x.active /\ ~x.compromised]
  BY <1>1, <1>9, <1>11 DEF KeyStatus, FoldInTime, Statuses, Reached, Earlier
<1> QED
  BY <1>1, <1>10, <1>11, <1>12

\* A key is active at t if the last of its bindings and rotations by t is a binding
\* and no compromise reaches back to t, whatever is recorded when.
LEMMA StatusTells ==
  ASSUME NEW log \in Seq(Event), NEW t
  PROVE  /\ KeyStatus(log, t).compromised <=> Compromised(log, DOMAIN log, t)
         /\ KeyStatus(log, t).active <=>
              /\ LastWord(log, Bindings(log, DOMAIN log, t)) = "key"
              /\ ~ Compromised(log, DOMAIN log, t)
<1>1. PICK K : K = OfKey(log)
  OBVIOUS
<1>2. K \in SUBSET DOMAIN log
  BY <1>1 DEF OfKey
<1>3. PICK g, x : /\ Statuses(log, K, t, g) /\ x = Reached(log, K, NoStatus, g)
                  /\ KeyStatus(log, t) = [x EXCEPT !.active = x.active /\ ~x.compromised]
  BY <1>1, StatusFolds
<1>4. PICK Q : Q = [E \in SUBSET K |-> {y \in Status : KeyTells(log, y, E, t)}]
  OBVIOUS
<1>5. Q \in [SUBSET K -> SUBSET Status]
  BY <1>4
<1>6. NoStatus \in Q[{}]
  BY <1>4, NoStatusTells
<1>7. ASSUME NEW i \in K,
             Reached(log, Earlier(log, K, i), NoStatus, g) \in Q[Earlier(log, K, i)]
      PROVE  g[i] \in Q[Upto(log, K, i)]
  <2>1. PICK E : E = Earlier(log, K, i)
    OBVIOUS
  <2>2. PICK U : U = Upto(log, K, i)
    OBVIOUS
  <2>3. /\ E \in SUBSET K /\ U \in SUBSET K /\ U = E \cup {i} /\ i \notin E
        /\ E \in SUBSET DOMAIN log /\ i \in DOMAIN log \ E
    <3>1. Cuts(log, K, i, E, U)
      BY <1>2, <2>1, <2>2, UptoIs
    <3> QED
      BY <1>2, <3>1 DEF Cuts
  <2>4. PICK y : y = Reached(log, E, NoStatus, g)
    OBVIOUS
  <2>5. y \in Status /\ KeyTells(log, y, E, t)
    BY <1>4, <1>7, <2>1, <2>3, <2>4
  <2>6. \A j \in E : Before(log, j, i)
    BY <2>1 DEF Earlier
  <2>7. KeyStep(y, log[i], t) \in Status /\ KeyTells(log, KeyStep(y, log[i], t), U, t)
    BY <2>3, <2>5, <2>6, KeyStepTellsMore, KeyStepIsStatus
  <2>8. g[i] = KeyStep(y, log[i], t)
    BY <1>3, <2>1, <2>4 DEF Statuses
  <2> QED
    BY <1>4, <2>2, <2>3, <2>7, <2>8
<1>8. x \in Q[K]
  BY <1>2, <1>3, <1>5, <1>6, <1>7, FoldTells
<1>9. x \in Status /\ KeyTells(log, x, K, t)
  <2>1. K \in SUBSET K
    OBVIOUS
  <2> QED
    BY <1>4, <1>8, <2>1
<1>10. /\ Bindings(log, K, t) = Bindings(log, DOMAIN log, t)
       /\ Compromised(log, K, t) <=> Compromised(log, DOMAIN log, t)
  BY <1>1 DEF OfKey, Bindings, Compromised
<1>11. x.active \in BOOLEAN /\ x.compromised \in BOOLEAN
  BY <1>9 DEF Status
<1>12. /\ KeyStatus(log, t).compromised = x.compromised
       /\ KeyStatus(log, t).active = (x.active /\ ~x.compromised)
  BY <1>3, <1>9 DEF Status
<1> QED
  BY <1>9, <1>10, <1>11, <1>12 DEF KeyTells

\* What one more event can do to the past of the key.
LEMMA KeyPastIsStable ==
  ASSUME NEW log \in Seq(Event), NEW ev \in Event, NEW t \in Nat,
         NEW new, new = Append(log, ev)
  PROVE  /\ KeyStatus(log, t).compromised => KeyStatus(new, t).compromised
         /\ ReceiptVerifies(log, t) /\ ~ReceiptVerifies(new, t) =>
              \/ ev.kind = "compromised" /\ ev.from <= t
              \/ ev.kind = "rotated" /\ ev.at <= t
         /\ ~ReceiptVerifies(log, t) /\ ReceiptVerifies(new, t) =>
              /\ ev.kind = "key" /\ ev.at <= t
              /\ ~ \E i \in DOMAIN log :
                     \/ log[i].kind = "rotated" /\ log[i].at \in ev.at + 1 .. t
                     \/ log[i].kind = "compromised" /\ log[i].from <= t
<1>1. PICK n \in Nat : n = Len(log) + 1
  OBVIOUS
<1>2. /\ new \in Seq(Event) /\ DOMAIN new = DOMAIN log \cup {n} /\ n \notin DOMAIN log
      /\ \A i \in DOMAIN log : i < n /\ new[i] = log[i]
      /\ new[n] = ev
  <2>1. /\ new \in Seq(Event) /\ Len(log) \in Nat /\ DOMAIN log = 1 .. Len(log)
        /\ DOMAIN new = 1 .. Len(log) + 1
        /\ \A i \in 1 .. Len(log) : new[i] = log[i]
        /\ new[Len(log) + 1] = ev
    BY AppendProperties, LenProperties
  <2>2. \A i \in 1 .. Len(log) : i < n
    BY <1>1
  <2>3. 1 .. Len(log) + 1 = 1 .. Len(log) \cup {n} /\ n \notin 1 .. Len(log)
    BY <1>1
  <2> QED
    BY <1>1, <2>1, <2>2, <2>3
<1>3. PICK B : B = Bindings(log, DOMAIN log, t)
  OBVIOUS
<1>4. PICK C : C = Bindings(new, DOMAIN new, t)
  OBVIOUS
<1>5. \/ ev.kind \in {"key", "rotated"} /\ ev.at <= t /\ C = B \cup {n}
      \/ ~ (ev.kind \in {"key", "rotated"} /\ ev.at <= t) /\ C = B
  BY <1>2, <1>3, <1>4 DEF Bindings
<1>6. Compromised(new, DOMAIN new, t) <=>
        Compromised(log, DOMAIN log, t) \/ (ev.kind = "compromised" /\ ev.from <= t)
  BY <1>2 DEF Compromised
<1>7. B \in SUBSET DOMAIN log /\ B \in SUBSET DOMAIN new
  BY <1>2, <1>3 DEF Bindings
<1>8. \A i, j \in DOMAIN log : Before(new, i, j) <=> Before(log, i, j)
  BY <1>2 DEF Before
<1>9. LastWord(new, B) = LastWord(log, B)
  <2>1. CASE B = {}
    BY <2>1 DEF LastWord
  <2>2. CASE B # {}
    <3>1. PICK l : l = Latest(log, B)
      OBVIOUS
    <3>2. l \in B /\ \A j \in B \ {l} : Before(log, j, l)
      BY <1>7, <2>2, <3>1, HasLatest
    <3>3. \A j \in B \ {l} : Before(new, j, l)
      BY <1>7, <1>8, <3>2
    <3>4. Latest(new, B) = l
      BY <1>2, <1>7, <3>2, <3>3, LatestIs
    <3>5. LastWord(new, B) = new[l].kind /\ LastWord(log, B) = log[l].kind
      BY <1>2, <1>7, <2>2, <3>1, <3>4, LastWordIs
    <3> QED
      BY <1>2, <1>7, <3>2, <3>5
  <2> QED
    BY <2>1, <2>2
\* An added binding that does not come last changes no last word.
<1>10. ASSUME C = B \cup {n}, LastWord(new, C) # LastWord(new, B)
       PROVE  LastWord(new, C) = ev.kind /\ \A j \in B : log[j].at <= ev.at
  <2>1. PICK l : l = Latest(new, C)
    OBVIOUS
  <2>2. C \in SUBSET DOMAIN new /\ C # {}
    BY <1>2, <1>7, <1>10
  <2>3. l \in C /\ \A j \in C \ {l} : Before(new, j, l)
    BY <1>2, <2>1, <2>2, HasLatest
  <2>4. LastWord(new, C) = new[l].kind
    BY <1>2, <2>1, <2>2, LastWordIs
  <2>5. l = n
    <3> SUFFICES ASSUME l # n PROVE FALSE
      OBVIOUS
    <3>1. l \in B /\ \A j \in B \ {l} : Before(new, j, l)
      BY <1>10, <2>3
    <3>2. Latest(new, B) = l
      BY <1>2, <1>7, <3>1, LatestIs
    <3>3. LastWord(new, B) = new[l].kind
      BY <1>2, <1>7, <3>1, <3>2, LastWordIs
    <3> QED
      BY <1>10, <2>4, <3>3
  <2>6. \A j \in B : log[j].at <= ev.at
    <3> TAKE j \in B
    <3>1. Before(new, j, n)
      BY <1>2, <1>7, <1>10, <2>3, <2>5
    <3>2. new[j] = log[j] /\ j \in Nat /\ n \in Nat /\ log[j].at \in Nat /\ new[n].at \in Nat
      BY <1>2, <1>7, EventIs
    <3> QED
      BY <1>2, <3>1, <3>2 DEF Before
  <2> QED
    BY <1>2, <2>4, <2>5, <2>6
<1>11. /\ KeyStatus(log, t).compromised <=> Compromised(log, DOMAIN log, t)
       /\ ReceiptVerifies(log, t) <=> LastWord(log, B) = "key" /\ ~ Compromised(log, DOMAIN log, t)
  BY <1>3, StatusTells DEF ReceiptVerifies
<1>12. /\ KeyStatus(new, t).compromised <=> Compromised(new, DOMAIN new, t)
       /\ ReceiptVerifies(new, t) <=> LastWord(new, C) = "key" /\ ~ Compromised(new, DOMAIN new, t)
  BY <1>2, <1>4, StatusTells DEF ReceiptVerifies
<1>13. KeyStatus(log, t).compromised => KeyStatus(new, t).compromised
  BY <1>6, <1>11, <1>12
<1>14. ASSUME ReceiptVerifies(log, t), ~ReceiptVerifies(new, t)
       PROVE  \/ ev.kind = "compromised" /\ ev.from <= t
              \/ ev.kind = "rotated" /\ ev.at <= t
  <2>1. CASE Compromised(new, DOMAIN new, t)
    BY <1>6, <1>11, <1>14, <2>1
  <2>2. CASE ~ Compromised(new, DOMAIN new, t)
    <3>1. LastWord(new, B) = "key" /\ LastWord(new, C) # "key"
      BY <1>9, <1>11, <1>12, <1>14, <2>2
    <3>2. C = B \cup {n} /\ ev.kind \in {"key", "rotated"} /\ ev.at <= t
      BY <1>5, <3>1
    <3>3. LastWord(new, C) = ev.kind
      BY <1>10, <3>1, <3>2
    <3> QED
      BY <3>1, <3>2, <3>3
  <2> QED
    BY <2>1, <2>2
<1>15. ASSUME ~ReceiptVerifies(log, t), ReceiptVerifies(new, t)
       PROVE  /\ ev.kind = "key" /\ ev.at <= t
              /\ ~ \E i \in DOMAIN log :
                     \/ log[i].kind = "rotated" /\ log[i].at \in ev.at + 1 .. t
                     \/ log[i].kind = "compromised" /\ log[i].from <= t
  <2>1. ~ Compromised(log, DOMAIN log, t)
    BY <1>6, <1>12, <1>15
  <2>2. LastWord(new, C) = "key" /\ LastWord(new, B) # "key"
    BY <1>9, <1>11, <1>12, <1>15, <2>1
  <2>3. C = B \cup {n} /\ ev.at <= t
    BY <1>5, <2>2
  <2>4. ev.kind = "key" /\ \A j \in B : log[j].at <= ev.at
    BY <1>10, <2>2, <2>3
  <2>5. ASSUME NEW i \in DOMAIN log, log[i].kind = "rotated", log[i].at \in ev.at + 1 .. t
        PROVE  FALSE
    <3>1. log[i].at \in Nat /\ new[n].at \in Nat
      BY <1>2, EventIs
    <3>2. log[i].at <= t /\ ~ (log[i].at <= ev.at)
      BY <1>2, <2>5, <3>1
    <3>3. i \in B
      BY <1>3, <2>5, <3>2 DEF Bindings
    <3> QED
      BY <2>4, <3>2, <3>3
  <2> QED
    BY <2>1, <2>3, <2>4, <2>5 DEF Compromised
<1> QED
  BY <1>13, <1>14, <1>15

-----------------------------------------------------------------------------
(* The log. *)

LogInd == events \in Seq(Event) /\ CacheIsFresh

\* The log is empty and nothing is cached at first; an event is added to the end
\* and clears the cache.
LEMMA LogStep ==
  /\ LogInit => LogInd
  /\ LogInd /\ [LogNext]_logVars => LogInd'
<1>1. LogInit => LogInd
  BY EmptySeq DEF LogInit, LogInd, CacheIsFresh
<1>2. ASSUME LogInd, AppendEvent PROVE LogInd'
  <2>1. PICK ev \in Event : events' = Append(events, ev)
    BY <1>2 DEF AppendEvent
  <2>2. events' \in Seq(Event)
    BY <1>2, <2>1, AppendProperties DEF LogInd
  <2> QED
    BY <1>2, <2>2 DEF AppendEvent, LogInd, CacheIsFresh
<1>3. ASSUME LogInd, ProjectNow PROVE LogInd'
  <2>1. events' \in Seq(Event)
    BY <1>3 DEF LogInd, ProjectNow
  <2>2. PICK log : log = events
    OBVIOUS
  <2>3. events' = log /\ cache' = ProjectAt(log, Now)
    BY <1>3, <2>2 DEF ProjectNow
  <2>4. CacheIsFresh'
    BY <2>3 DEF CacheIsFresh, Now
  <2> QED
    BY <2>1, <2>4 DEF LogInd
<1>4. ASSUME LogInd, Reopen PROVE LogInd'
  BY <1>4 DEF Reopen, LogInd, CacheIsFresh
<1>5. ASSUME LogInd, UNCHANGED logVars PROVE LogInd'
  BY <1>5 DEF logVars, LogInd, CacheIsFresh
<1> QED
  BY <1>1, <1>2, <1>3, <1>4, <1>5 DEF LogNext

\* A value or a role is authorised at a time exactly if the last word on it by
\* then is a grant, nothing is eligible for promotion that is not observed often
\* enough by other than models, and what callers are served is the log as it is:
\* for any values and ancestors, and any number of events with any time stamps.
THEOREM LastWordsCount == LogSpec => []LogInv
<1>1. ASSUME LogInd PROVE ProjectionIsLastWord
  <2>1. ASSUME NEW t \in At \cup {Now}
        PROVE  /\ \A v \in Value : Authorize(ProjectAt(events, t), v) <=>
                    \E w \in AncestorsOf(v) :
                      LastWord(events, OfValue(events, Heard(events, t), w)) = "grant"
               /\ Resolve(ProjectAt(events, t)) <=>
                    LastWord(events, OfRole(events, Heard(events, t))) = "grant"
               /\ \A v \in Eligible(ProjectAt(events, t)) :
                    /\ ~Authorize(ProjectAt(events, t), v)
                    /\ PromoteAfter <=
                         Cardinality(AnchoredOf(events, Heard(events, t), v))
    <3>1. PICK x : x = ProjectAt(events, t)
      OBVIOUS
    <3>2. PICK H : H = Heard(events, t)
      OBVIOUS
    <3>3. x \in State /\ Tells(events, x, H)
      BY <1>1, <3>1, <3>2, ProjectionTells DEF LogInd
    <3>4. \A v \in Value : Authorize(x, v) <=>
            \E w \in AncestorsOf(v) : LastWord(events, OfValue(events, H, w)) = "grant"
      BY <3>3 DEF Tells, Authorize, Covers
    <3>5. Resolve(x) <=> LastWord(events, OfRole(events, H)) = "grant"
      BY <3>3 DEF Tells, Resolve
    <3>6. \A v \in Eligible(x) :
            ~Authorize(x, v) /\ PromoteAfter <= Cardinality(AnchoredOf(events, H, v))
      <4> TAKE v \in Eligible(x)
      <4>1. v \in Value /\ ~Covers(x.granted, v) /\ x.anchored[v] >= PromoteAfter
        BY DEF Eligible
      <4>2. x.anchored[v] = Cardinality(AnchoredOf(events, H, v))
        BY <3>3, <4>1 DEF Tells
      <4>3. x.anchored[v] \in Nat /\ PromoteAfter \in Nat
        BY <3>3, <4>1, LogAssumption DEF State, LogAssumption
      <4> QED
        BY <4>1, <4>2, <4>3 DEF Authorize
    <3> QED
      BY <3>1, <3>2, <3>4, <3>5, <3>6
  <2> QED
    BY <2>1 DEF ProjectionIsLastWord
<1>2. LogInd => LogInv
  BY <1>1 DEF LogInv, LogInd
<1> QED
  BY <1>2, LogStep, PTL DEF LogSpec

\* An event changes nothing about the times before its own, a compromise is never
\* undone, and a receipt changes its answer for a compromise, a rotation or a
\* binding dated back only: for any number of events with any time stamps.
THEOREM PastStaysStable == LogSpec => PastIsStable
<1> DEFINE Stable ==
      Len(events') > Len(events) =>
        LET ev == Last(events') IN
        \A t \in At :
          /\ ev.at > t => ProjectAt(events', t) = ProjectAt(events, t)
          /\ KeyStatus(events, t).compromised => KeyStatus(events', t).compromised
          /\ ReceiptVerifies(events, t) /\ ~ReceiptVerifies(events', t) =>
               \/ ev.kind = "compromised" /\ ev.from <= t
               \/ ev.kind = "rotated" /\ ev.at <= t
          /\ ~ReceiptVerifies(events, t) /\ ReceiptVerifies(events', t) =>
               /\ ev.kind = "key" /\ ev.at <= t
               /\ ~ \E i \in DOMAIN events :
                      \/ events[i].kind = "rotated" /\ events[i].at \in ev.at + 1 .. t
                      \/ events[i].kind = "compromised" /\ events[i].from <= t
<1>1. ASSUME LogInd, AppendEvent PROVE Stable
  <2>1. PICK ev \in Event : events' = Append(events, ev)
    BY <1>1 DEF AppendEvent
  <2>2. PICK log : log = events
    OBVIOUS
  <2>3. PICK new : new = events'
    OBVIOUS
  <2>4. log \in Seq(Event) /\ new = Append(log, ev)
    BY <1>1, <2>1, <2>2, <2>3 DEF LogInd
  <2>5. Last(new) = ev
    BY <2>4, AppendProperties DEF Last
  <2>6. \A t \in At : t \in Nat
    BY LogAssumption DEF At, LogAssumption
  <2>7. ASSUME NEW t \in At
        PROVE  /\ ev.at > t => ProjectAt(new, t) = ProjectAt(log, t)
               /\ KeyStatus(log, t).compromised => KeyStatus(new, t).compromised
               /\ ReceiptVerifies(log, t) /\ ~ReceiptVerifies(new, t) =>
                    \/ ev.kind = "compromised" /\ ev.from <= t
                    \/ ev.kind = "rotated" /\ ev.at <= t
               /\ ~ReceiptVerifies(log, t) /\ ReceiptVerifies(new, t) =>
                    /\ ev.kind = "key" /\ ev.at <= t
                    /\ ~ \E i \in DOMAIN log :
                           \/ log[i].kind = "rotated" /\ log[i].at \in ev.at + 1 .. t
                           \/ log[i].kind = "compromised" /\ log[i].from <= t
    BY <2>4, <2>6, <2>7, LaterChangesNothing, KeyPastIsStable
  <2> QED
    BY <2>2, <2>3, <2>5, <2>7
<1>2. ASSUME LogInd, ProjectNow \/ Reopen PROVE Stable
  <2>1. events' = events /\ Len(events) \in Nat
    BY <1>2 DEF ProjectNow, Reopen, LogInd
  <2> QED
    BY <2>1
<1>3. LogInd /\ [LogNext]_logVars => [Stable]_logVars
  BY <1>1, <1>2 DEF LogNext
<1> QED
  BY <1>3, LogStep, PTL DEF LogSpec, PastIsStable
==============================================================================
