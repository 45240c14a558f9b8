------------------------ MODULE PlatformRecordsProofs ------------------------
(***************************************************************************)
(* The controls a person holds over what is learned about them, for any    *)
(* number of requests, records and identities, whatever throws; and what   *)
(* requests that update one row in place make of it, however many they     *)
(* are.                                                                    *)
(*                                                                         *)
(* None of the properties is inductive.  What a request does with a record *)
(* it read some statements ago is right only while the record is still as  *)
(* the request last saw it, or has been emptied by another, or is a        *)
(* context entry and two writers of the column have overlapped.  Local(r)  *)
(* says that for the place each request has reached.                       *)
(*                                                                         *)
(* Of rows updated in place, what each request has read must still be      *)
(* there unless it has been raced, and the counts of a row are bounded by  *)
(* the votes written, which are counted one write at a time.               *)
(*                                                                         *)
(* A read of the graph notes what it could have met: a projection under    *)
(* way has noted every consent in force, and a client that follows the     *)
(* cursor has every row up to it that was there when it began.             *)
(*                                                                         *)
(* How far a walk sees is an induction over its hops: after d of them it   *)
(* has seen what is d hops near over the relationships that stayed, and    *)
(* from all it has seen but the frontier they lead no further.  A search   *)
(* goes by the ways in its queue, which are in order of their length and   *)
(* no longer than the nearest that stayed.                                 *)
(***************************************************************************)
EXTENDS SubjectRecords, RecordUpdates, GraphReads, FiniteSetTheorems, SequenceTheorems,
        WellFoundedInduction, TLAPS

(* Subject controls (SubjectRecords).                                      *)

Making == {"check", "read", "write", "insert"}
Emptying == {"empty", "rewrite", "tomb"}
Writing == {"write", "rewrite"}

\* An entry is exempt once two writers of its column have overlapped.
Excused(x) == lost /\ x \in Entry
Accounted(x) == x \in Buried \/ \E r \in Request : req[r].emptied /\ Item(r) = x

\* What a request is of, where it stands.
InPlace(k) ==
  /\ k.pc = "idle" => k.op = "none"
  /\ k.pc = "decide" => k.op \in {"pause", "resume", "forget", "reset", "export"}
  /\ k.pc = "set" => k.op \in {"pause", "resume"}
  /\ k.pc = "stones" => k.op = "export"
  /\ k.pc = "target" => k.op \in {"forget", "reset"}
  /\ k.pc = "gather" => k.op \in {"reset", "export"}
  /\ k.pc = "gather" \/ (k.pc = "decide" /\ k.op = "export") =>
       k.left \in Seq(Range(Kinds)) /\ k.left # <<>>
  /\ k.pc = "check" => k.left \in Seq(Identity) /\ k.left # <<>>
  /\ k.pc \in Making \ {"check"} => k.left = <<>>
  /\ k.pc \in Making =>
       /\ \/ k.op = "append" /\ k.pc # "insert" /\ Head(k.todo) \in Entry
          \/ k.op = "create" /\ k.pc \in {"check", "insert"} /\ Head(k.todo) \in Row
       /\ k.todo # <<>>
  /\ k.pc \in Emptying => k.op \in {"forget", "reset"} /\ k.todo # <<>> /\ k.hash = "live"
  /\ k.pc = "rewrite" => Head(k.todo) \in Entry
  /\ k.emptied => k.pc \in {"tomb", "failed"}
  /\ k.pc = "tomb" => k.emptied
  /\ k.op = "reset" /\ k.pc = "done" => k.todo = <<>>

\* The record it is about to make, or to empty.
Agrees(k) ==
  /\ k.pc \in Making => Excused(Head(k.todo)) \/ State(Head(k.todo)) = "absent"
  /\ k.pc \in Emptying => Excused(Head(k.todo)) \/ State(Head(k.todo)) \in {"live", "forgotten"}
  /\ k.pc = "tomb" => Excused(Head(k.todo)) \/ State(Head(k.todo)) = "forgotten"

\* The column it read: as it is, unless the request has been overtaken.
Saw(k) ==
  k.pc \in Writing =>
    /\ ~k.dirty => k.saw = context
    /\ \A e \in Entry : k.saw[e] = "forgotten" => Accounted(e)

\* The identities it has found unpaused.
Heeds(r, k) ==
  k.pc \in Making =>
    \A i \in Range(About[Head(k.todo)]) \ Range(k.left) : paused[i] => <<r, i>> \in overtaken

\* What it has still to look for.
Pending(k) == UNION {OfKind(kind) : kind \in Range(k.left)}
Resets(k) ==
  k.op = "reset" /\ k.pc \notin {"failed", "refused"} =>
    \A x \in k.base :
      \/ Excused(x) \/ State(x) = "forgotten"
      \/ x \in Learned(k.who) /\ (x \in Range(k.todo) \/ (k.pc = "gather" /\ x \in Pending(k)))
Exports(k) ==
  k.op = "export" /\ k.pc \notin {"failed", "refused"} =>
    \A x \in k.base :
      \/ Excused(x) \/ x \in k.found
      \/ State(x) = "forgotten" /\ k.pc # "done"
      \/ x \in Learned(k.who) /\ k.pc \in {"decide", "gather"} /\ x \in Pending(k)
      \/ k.pc = "done" /\ (x \in k.stones \cup k.gap \/ \E t \in tombs : t.id = x /\ t.who # k.who)

Local(r, k) ==
  InPlace(k) /\ Agrees(k) /\ Saw(k) /\ Heeds(r, k) /\ Resets(k) /\ Exports(k)

\* No two requests make the same record.
MakersDiffer ==
  \A q, r \in Request :
    q # r /\ req[q].pc \in Making /\ req[r].pc \in Making => Item(q) # Item(r)

SubjectInd ==
  /\ SubjectTypes
  /\ \A r \in Request : Local(r, req[r])
  /\ MakersDiffer
  /\ EmptiedIsAccounted
  /\ TombstoneIsOfTheRecord

-----------------------------------------------------------------------------
(* Sequences. *)

\* A list that is not empty is its first element and the others.
LEMMA HeadAndTail ==
  ASSUME NEW S, NEW s \in Seq(S), s # <<>>
  PROVE  /\ Head(s) \in S /\ Tail(s) \in Seq(S)
         /\ Head(s) \in Range(s)
         /\ \A x \in Range(s) : x = Head(s) \/ x \in Range(Tail(s))
<1>1. Len(s) \in Nat /\ Len(s) > 0 /\ DOMAIN s = 1 .. Len(s)
  OBVIOUS
<1>2. Head(s) = s[1] /\ Tail(s) \in Seq(S) /\ DOMAIN Tail(s) = 1 .. (Len(s) - 1)
      /\ \A n \in 1 .. (Len(s) - 1) : Tail(s)[n] = s[n + 1]
  BY <1>1
<1>3. ASSUME NEW x \in Range(s) PROVE x = Head(s) \/ x \in Range(Tail(s))
  <2>1. PICK n \in 1 .. Len(s) : x = s[n]
    BY <1>1 DEF Range
  <2>2. CASE n = 1
    BY <1>2, <2>1, <2>2
  <2>3. CASE n # 1
    <3>1. n - 1 \in 1 .. (Len(s) - 1) /\ x = Tail(s)[n - 1]
      BY <1>1, <1>2, <2>1, <2>3
    <3> QED
      BY <1>2, <3>1 DEF Range
  <2> QED
    BY <2>2, <2>3
<1> QED
  BY <1>1, <1>2, <1>3 DEF Range

\* What is left of a list after its first element.
LEMMA TailIsShorter ==
  ASSUME NEW S, NEW s \in Seq(S), s # <<>>
  PROVE  /\ Len(s) > 1 => Tail(s) # <<>>
         /\ ~(Len(s) > 1) => Tail(s) = <<>>
<1>1. Len(s) \in Nat \ {0} /\ Tail(s) \in Seq(S) /\ Len(Tail(s)) = Len(s) - 1
  BY EmptySeq, HeadTailProperties
<1>2. ASSUME Len(s) > 1 PROVE Tail(s) # <<>>
  <2>1. Len(Tail(s)) # 0
    BY <1>1, <1>2
  <2> QED
    BY <2>1, EmptySeq
<1>3. ASSUME ~(Len(s) > 1) PROVE Tail(s) = <<>>
  <2>1. Len(Tail(s)) = 0
    BY <1>1, <1>3
  <2> QED
    BY <1>1, <2>1, EmptySeq
<1> QED
  BY <1>2, <1>3

\* An empty list has no elements.
LEMMA NothingInEmpty == Range(<<>>) = {}
BY DEF Range

\* Two lists in a row have the elements of both.
LEMMA RangeOfConcat ==
  ASSUME NEW S, NEW s \in Seq(S), NEW t \in Seq(S)
  PROVE  s \o t \in Seq(S) /\ Range(s) \subseteq Range(s \o t) /\ Range(t) \subseteq Range(s \o t)
<1>1. /\ Len(s) \in Nat /\ Len(t) \in Nat /\ s \o t \in Seq(S)
      /\ DOMAIN s = 1 .. Len(s) /\ DOMAIN t = 1 .. Len(t)
      /\ DOMAIN (s \o t) = 1 .. (Len(s) + Len(t))
  OBVIOUS
<1>2. \A n \in 1 .. Len(s) : (s \o t)[n] = s[n]
  OBVIOUS
<1>3. \A n \in 1 .. Len(t) : (s \o t)[Len(s) + n] = t[n]
  OBVIOUS
<1>4. Range(s) \subseteq Range(s \o t)
  BY <1>1, <1>2 DEF Range
<1>5. ASSUME NEW n \in 1 .. Len(t) PROVE t[n] \in Range(s \o t)
  <2>1. Len(s) + n \in 1 .. (Len(s) + Len(t))
    BY <1>1
  <2> QED
    BY <1>1, <1>3, <2>1 DEF Range
<1> QED
  BY <1>1, <1>4, <1>5 DEF Range

\* A table's rows in any order are a sequence of them.
LEMMA OrdersAreSequences ==
  ASSUME NEW S \in SUBSET Rec, NEW s \in Orders(S)
  PROVE  s \in Seq(Rec) /\ Range(s) = S
<1>1. IsFiniteSet(S)
  BY RecordAssumption, FS_Subset
<1>2. Cardinality(S) \in Nat
  BY <1>1, FS_CardinalityType
<1> QED
  BY <1>2 DEF Orders

\* The tables a reset and an export go through hold every record.
LEMMA EveryRecordIsOfAKind ==
  /\ Kinds \in Seq(Range(Kinds)) /\ Kinds # <<>>
  /\ <<"context", "fact", "relationship">> \in Seq(Range(Kinds))
  /\ Rec \subseteq UNION {OfKind(kind) : kind \in Range(Kinds)}
  /\ Range(<<"context", "fact", "relationship">>) = Range(Kinds)
<1>1. /\ Range(Kinds) = {"fact", "relationship", "context"}
      /\ Range(<<"context", "fact", "relationship">>) = {"fact", "relationship", "context"}
  BY DEF Kinds, Range
<1>2. OfKind("fact") = Fact /\ OfKind("relationship") = Relationship /\ OfKind("context") = Entry
  BY DEF OfKind
<1> QED
  BY <1>1, <1>2 DEF Kinds, Rec, Row

-----------------------------------------------------------------------------
(* What a step of one request leaves of the others. *)

\* The types that the invariant gives one request and the tables.
LEMMA ThisRequest ==
  ASSUME SubjectInd, NEW r \in Request
  PROVE  /\ req \in [Request -> RequestState] /\ req[r] \in RequestState
         /\ row \in [Row -> Status] /\ context \in [Entry -> Status]
         /\ paused \in [Identity -> BOOLEAN] /\ lost \in BOOLEAN
         /\ tombs \subseteq [id : Rec, who : Identity, hash : Status]
         /\ InPlace(req[r]) /\ Agrees(req[r]) /\ Saw(req[r]) /\ Heeds(r, req[r])
         /\ Resets(req[r]) /\ Exports(req[r])
BY DEF SubjectInd, SubjectTypes, Local

\* The state of a record is that of its row or of its entry.
LEMMA StatesAre ==
  ASSUME SubjectTypes, NEW x \in Rec
  PROVE  State(x) \in Status /\ (x \in Entry => State(x) = context[x]) /\ (x \in Row => State(x) = row[x])
BY RecordAssumption DEF SubjectTypes, State, Rec

Untouched(j, k) ==
  /\ k.op = j.op /\ k.pc = j.pc /\ k.who = j.who /\ k.todo = j.todo /\ k.left = j.left
  /\ k.saw = j.saw /\ k.hash = j.hash /\ k.emptied = j.emptied /\ k.base = j.base
  /\ k.found = j.found /\ k.stones = j.stones /\ k.gap = j.gap
  /\ j.dirty => k.dirty

\* A record changes as its maker or an emptying changes it, or is exempt.
RecordsMove(r) ==
  \A x \in Rec :
    \/ State(x)' = State(x)
    \/ Excused(x)'
    \/ State(x) = "live" /\ State(x)' = "forgotten"
    \/ State(x) = "absent" /\ req[r].pc \in Making /\ x = Item(r)
Benign(r) ==
  /\ \A q \in Request \ {r} : Untouched(req[q], req'[q])
  /\ RecordsMove(r)
  /\ lost => lost'
  /\ tombs \subseteq tombs'
  /\ req[r].emptied => (req'[r].emptied /\ Item(r)' = Item(r)) \/ Item(r) \in Buried'
  /\ overtaken \subseteq overtaken'
  /\ \A q \in Request \ {r} : req[q].pc \in Making =>
       \A i \in Range(About[Item(q)]) \ Range(req[q].left) :
         paused'[i] => paused[i] \/ <<q, i>> \in overtaken'
  /\ \/ context' = context
     \/ \A q \in Request \ {r} : req[q].pc \in Writing => req'[q].dirty

\* What is accounted for stays so, whatever a benign step does.
LEMMA AccountedStays ==
  ASSUME SubjectInd, NEW r \in Request, Benign(r), NEW x, Accounted(x)
  PROVE  Accounted(x)'
<1>1. CASE x \in Buried
  BY <1>1 DEF Accounted, Buried, Benign
<1>2. CASE \E q \in Request : req[q].emptied /\ Item(q) = x
  <2>1. PICK q \in Request : req[q].emptied /\ Item(q) = x
    BY <1>2
  <2>2. CASE q = r
    BY <2>1, <2>2 DEF Benign, Accounted
  <2>3. CASE q # r
    <3>1. req'[q].emptied /\ Item(q)' = x
      BY <2>1, <2>3 DEF Benign, Untouched, Item
    <3> QED
      BY <3>1 DEF Accounted
  <2> QED
    BY <2>2, <2>3
<1> QED
  BY <1>1, <1>2 DEF Accounted

\* A benign step of one request leaves what the others rely on.
LEMMA OthersKeep ==
  ASSUME SubjectInd, NEW r \in Request, Benign(r), SubjectTypes', NEW q \in Request \ {r}
  PROVE  Local(q, req[q])'
<1> DEFINE k == req'[q]
<1>1. Untouched(req[q], k)
  BY DEF Benign
<1>2. \A x \in Rec : Excused(x) => Excused(x)'
  BY DEF Benign, Excused
<1>3. InPlace(k)
  BY <1>1, ThisRequest DEF Untouched, InPlace
<1>4. Agrees(req[q])'
  <2>1. /\ req[q].pc \in Making \cup Emptying => Item(q) \in Rec
        /\ req[q].pc \in Making /\ req[r].pc \in Making => Item(q) # Item(r)
    <3>1. req[q].pc \in Making \cup Emptying => req[q].todo # <<>>
      BY ThisRequest DEF InPlace
    <3>2. req[q].todo \in Seq(Rec)
      BY ThisRequest DEF RequestState
    <3>3. req[q].pc \in Making \cup Emptying => Item(q) \in Rec
      BY <3>1, <3>2, HeadAndTail DEF Item
    <3> QED
      BY <3>3 DEF SubjectInd, MakersDiffer
  <2>2. ASSUME k.pc \in Making
        PROVE  Excused(Item(q))' \/ State(Item(q))' = "absent"
    BY <1>1, <1>2, <2>1, <2>2, ThisRequest DEF Untouched, Agrees, Benign, RecordsMove, Item
  <2>3. ASSUME k.pc \in Emptying
        PROVE  Excused(Item(q))' \/ State(Item(q))' \in {"live", "forgotten"}
    BY <1>1, <1>2, <2>1, <2>3, ThisRequest DEF Untouched, Agrees, Benign, RecordsMove, Item
  <2>4. ASSUME k.pc = "tomb"
        PROVE  Excused(Item(q))' \/ State(Item(q))' = "forgotten"
    BY <1>1, <1>2, <2>1, <2>4, ThisRequest DEF Untouched, Agrees, Benign, RecordsMove, Item, Emptying
  <2> QED
    BY <1>1, <2>2, <2>3, <2>4 DEF Agrees, Untouched, Item
<1>5. Saw(req[q])'
  <2>1. ASSUME k.pc \in Writing, ~k.dirty PROVE k.saw = context'
    BY <1>1, <2>1, ThisRequest DEF Untouched, Saw, Benign
  <2>2. ASSUME k.pc \in Writing, NEW e \in Entry, k.saw[e] = "forgotten" PROVE Accounted(e)'
    BY <1>1, <2>2, ThisRequest, AccountedStays DEF Untouched, Saw
  <2> QED
    BY <2>1, <2>2 DEF Saw
<1>6. Heeds(q, req[q])'
  <2>1. ASSUME k.pc \in Making, NEW i \in Range(About[Head(k.todo)]) \ Range(k.left), paused'[i]
        PROVE  <<q, i>> \in overtaken'
    <3>1. req[q].pc \in Making /\ i \in Range(About[Item(q)]) \ Range(req[q].left)
      BY <1>1, <2>1 DEF Untouched, Item
    <3>2. paused[i] \/ <<q, i>> \in overtaken'
      BY <2>1, <3>1 DEF Benign
    <3>3. paused[i] => <<q, i>> \in overtaken
      BY <3>1, ThisRequest DEF Heeds, Item
    <3> QED
      BY <3>2, <3>3 DEF Benign
  <2> QED
    BY <2>1 DEF Heeds
<1>7. \A x \in Rec : \A i \in Identity : x \in Learned(i) =>
        Excused(x)' \/ State(x)' = "forgotten" \/ x \in Learned(i)'
  BY DEF Benign, RecordsMove, Learned
<1>8. \A x \in Rec : State(x) = "forgotten" => Excused(x)' \/ State(x)' = "forgotten"
  BY DEF Benign, RecordsMove
<1>9. req[q].base \subseteq Rec /\ k.base = req[q].base
  BY <1>1, ThisRequest DEF RequestState, Untouched
<1>10. PICK who \in Identity : who = req[q].who /\ who = k.who
  BY <1>1, ThisRequest DEF RequestState, Untouched
<1>11. Resets(req[q])'
  <2>1. ASSUME k.op = "reset", k.pc \notin {"failed", "refused"}, NEW x \in k.base
        PROVE  \/ Excused(x)' \/ State(x)' = "forgotten"
               \/ x \in Learned(who)' /\ (x \in Range(k.todo) \/ (k.pc = "gather" /\ x \in Pending(k)))
    <3>1. x \in Rec /\ Pending(k) = Pending(req[q])
      BY <1>1, <1>9 DEF Untouched, Pending
    <3>2. \/ Excused(x) \/ State(x) = "forgotten"
          \/ x \in Learned(who) /\ (x \in Range(k.todo) \/ (k.pc = "gather" /\ x \in Pending(k)))
      BY <1>1, <1>10, <2>1, <3>1, ThisRequest DEF Untouched, Resets
    <3> QED
      BY <1>2, <1>7, <1>8, <3>1, <3>2
  <2> QED
    BY <1>10, <2>1 DEF Resets, Pending
<1>12. Exports(req[q])'
  <2>1. ASSUME k.op = "export", k.pc \notin {"failed", "refused"}, NEW x \in k.base
        PROVE  \/ Excused(x)' \/ x \in k.found
               \/ State(x)' = "forgotten" /\ k.pc # "done"
               \/ x \in Learned(who)' /\ k.pc \in {"decide", "gather"} /\ x \in Pending(k)
               \/ k.pc = "done" /\ (x \in k.stones \cup k.gap \/ \E t \in tombs' : t.id = x /\ t.who # who)
    <3>1. x \in Rec /\ Pending(k) = Pending(req[q])
      BY <1>1, <1>9 DEF Untouched, Pending
    <3>2. \/ Excused(x) \/ x \in k.found
          \/ State(x) = "forgotten" /\ k.pc # "done"
          \/ x \in Learned(who) /\ k.pc \in {"decide", "gather"} /\ x \in Pending(k)
          \/ k.pc = "done" /\ (x \in k.stones \cup k.gap \/ \E t \in tombs : t.id = x /\ t.who # who)
      <4>1. req[q].op = "export" /\ req[q].pc \notin {"failed", "refused"} /\ x \in req[q].base
        BY <1>1, <2>1 DEF Untouched
      <4>2. \/ Excused(x) \/ x \in req[q].found
            \/ State(x) = "forgotten" /\ req[q].pc # "done"
            \/ x \in Learned(req[q].who) /\ req[q].pc \in {"decide", "gather"} /\ x \in Pending(req[q])
            \/ /\ req[q].pc = "done"
               /\ \/ x \in req[q].stones \cup req[q].gap
                  \/ \E t \in tombs : t.id = x /\ t.who # req[q].who
        BY <4>1, ThisRequest DEF Exports
      <4> HIDE DEF k
      <4> QED
        BY <1>1, <1>10, <3>1, <4>2 DEF Untouched
    <3>3. \A t \in tombs : t \in tombs'
      BY DEF Benign
    <3>4. k.pc \in {"decide", "gather"} => k.pc # "done"
      OBVIOUS
    <3> QED
      BY <1>2, <1>7, <1>8, <3>1, <3>2, <3>3, <3>4
  <2> QED
    BY <1>10, <2>1 DEF Exports, Pending
<1> QED
  BY <1>3, <1>4, <1>5, <1>6, <1>11, <1>12 DEF Local

\* A step of one request: it is enough to look at that request.
LEMMA StepKeeps ==
  ASSUME SubjectInd, NEW r \in Request, Benign(r), SubjectTypes', Local(r, req[r])',
         req'[r].pc \in Making =>
           (req[r].pc \in Making /\ Item(r)' = Item(r)) \/ Fresh(Head(req'[r].todo)),
         EmptiedIsAccounted', TombstoneIsOfTheRecord'
  PROVE  SubjectInd'
<1>1. \A q \in Request : Local(q, req[q])'
  BY OthersKeep
<1>2. ASSUME NEW q \in Request \ {r}, req'[q].pc \in Making, req'[r].pc \in Making
      PROVE  Item(q)' # Item(r)'
  <2>1. req[q].pc \in Making /\ Item(q)' = Item(q)
    BY <1>2 DEF Benign, Untouched, Item
  <2>2. CASE req[r].pc \in Making /\ Item(r)' = Item(r)
    BY <2>1, <2>2 DEF SubjectInd, MakersDiffer
  <2>3. CASE Fresh(Head(req'[r].todo))
    <3>1. req[q].todo \in Seq(Rec) /\ req[q].todo # <<>>
      BY <2>1, ThisRequest DEF RequestState, InPlace
    <3>2. Item(q) \in Range(req[q].todo)
      BY <3>1, HeadAndTail DEF Item
    <3> QED
      BY <2>1, <2>3, <3>2 DEF Fresh, Item
  <2> QED
    BY <1>2, <2>2, <2>3
<1>3. MakersDiffer'
  <2>1. \A q \in Request \ {r} : req'[q].pc = req[q].pc /\ Item(q)' = Item(q)
    BY DEF Benign, Untouched, Item
  <2>2. \A q, s \in Request \ {r} :
          q # s /\ req'[q].pc \in Making /\ req'[s].pc \in Making => Item(q)' # Item(s)'
    BY <2>1 DEF SubjectInd, MakersDiffer
  <2> QED
    BY <1>2, <2>2 DEF MakersDiffer
<1> QED
  BY <1>1, <1>3 DEF SubjectInd

\* A step that changes no more than the request's own state.
LEMMA LocalMoves ==
  ASSUME SubjectInd, NEW r \in Request, NEW k \in RequestState, req' = [req EXCEPT ![r] = k],
         UNCHANGED <<row, context, paused, tombs, overtaken, lost>>, Local(r, k),
         k.pc \in Making => (req[r].pc \in Making /\ Head(k.todo) = Item(r)) \/ Fresh(Head(k.todo)),
         req[r].emptied => k.emptied /\ Head(k.todo) = Item(r)
  PROVE  SubjectInd'
<1>1. req'[r] = k /\ req' \in [Request -> RequestState] /\ \A q \in Request \ {r} : req'[q] = req[q]
  BY ThisRequest
<1>2. SubjectTypes'
  BY <1>1 DEF SubjectInd, SubjectTypes
<1>3. (\A x : State(x)' = State(x)) /\ (\A x : Excused(x)' <=> Excused(x)) /\ Buried' = Buried
  BY Zenon DEF State, Excused, Buried
<1>4. Benign(r)
  <2>1. \A q \in Request \ {r} : Untouched(req[q], req'[q])
    BY <1>1 DEF Untouched
  <2>2. RecordsMove(r)
    BY <1>3 DEF RecordsMove
  <2>3. req[r].emptied => (req'[r].emptied /\ Item(r)' = Item(r)) \/ Item(r) \in Buried'
    BY <1>1 DEF Item
  <2>4. lost => lost'
    BY Zenon
  <2> QED
    BY <2>1, <2>2, <2>3, <2>4 DEF Benign
<1>5. \A x : Accounted(x) => Accounted(x)'
  BY <1>4, AccountedStays
<1>6. Local(r, k)'
  <2>1. \A i : Learned(i)' = Learned(i)
    BY <1>3 DEF Learned
  <2>2. Agrees(k)' /\ Heeds(r, k)' /\ Resets(k)' /\ Exports(k)'
    BY <1>3, <2>1 DEF Local, Agrees, Heeds, Resets, Exports
  <2>3. Saw(k)'
    BY <1>5 DEF Local, Saw
  <2> QED
    BY <2>2, <2>3 DEF Local
<1>7. EmptiedIsAccounted'
  BY <1>3, <1>5 DEF SubjectInd, EmptiedIsAccounted, Accounted
<1>8. TombstoneIsOfTheRecord'
  BY DEF SubjectInd, TombstoneIsOfTheRecord
<1>9. Local(r, req[r])'
  BY <1>1, <1>6
<1> QED
  BY <1>1, <1>2, <1>4, <1>7, <1>8, <1>9, StepKeeps DEF Item

-----------------------------------------------------------------------------
(* The steps. *)

\* A request that has not begun has the type of one.
LEMMA NoRequestIsTyped ==
  NoRequest \in RequestState
BY RecordAssumption, EmptySeq DEF NoRequest, RequestState, Op, Step, Status

\* Records may be there at first; none is forgotten, and no request has begun.
LEMMA SubjectInitInd == SubjectInit => SubjectInd
<1> SUFFICES ASSUME SubjectInit PROVE SubjectInd
  OBVIOUS
<1>1. SubjectTypes
  BY NoRequestIsTyped DEF SubjectInit, SubjectTypes, Status
<1>2. \A x \in Rec : State(x) \in {"absent", "live"}
  BY DEF SubjectInit, State, Rec
<1>3. ASSUME NEW r \in Request PROVE Local(r, req[r])
  <2>1. /\ req[r].op = "none" /\ req[r].pc = "idle" /\ ~req[r].emptied
    BY <1>3 DEF SubjectInit, NoRequest
  <2> QED
    BY <2>1 DEF Local, InPlace, Agrees, Saw, Heeds, Resets, Exports, Making, Emptying, Writing
<1>4. MakersDiffer
  BY DEF SubjectInit, NoRequest, MakersDiffer, Making
<1>5. EmptiedIsAccounted
  BY <1>2 DEF EmptiedIsAccounted
<1>6. TombstoneIsOfTheRecord
  BY DEF SubjectInit, TombstoneIsOfTheRecord
<1> QED
  BY <1>1, <1>3, <1>4, <1>5, <1>6 DEF SubjectInd

\* What a handler may begin with.
Begins(op, i, step, todo, left) ==
  \/ op \in {"pause", "resume", "forget"} /\ step = "decide"
  \/ /\ op \in {"append", "create"} /\ step = "check"
     /\ \E x \in IF op = "append" THEN Entry ELSE Row :
          Fresh(x) /\ todo = <<x>> /\ left = About[x]
  \/ op = "reset" /\ step = "gather" /\ left = Kinds
  \/ op = "export" /\ step = "decide" /\ left = <<"context", "fact", "relationship">>

\* A request begins with what it has to do.
LEMMA StartKeepsInd ==
  ASSUME SubjectInd, NEW r \in Request, NEW op \in Op, NEW i \in Identity, NEW step \in Step,
         NEW todo \in Seq(Rec), NEW left, Begins(op, i, step, todo, left),
         left \in Seq(Identity) \cup Seq(Range(Kinds)), Start(r, op, i, step, todo, left)
  PROVE  SubjectInd'
<1> DEFINE k == [NoRequest EXCEPT !.op = op, !.who = i, !.pc = step, !.todo = todo,
                                  !.left = left, !.base = Learned(i)]
<1>1. k.op = op /\ k.who = i /\ k.pc = step /\ k.todo = todo /\ k.left = left
      /\ k.base = Learned(i) /\ ~k.emptied
  BY DEF NoRequest
<1>2. k \in RequestState
  <2>1. Learned(i) \in SUBSET Rec
    BY DEF Learned
  <2> QED
    BY <2>1, NoRequestIsTyped DEF RequestState
<1>3. req' = [req EXCEPT ![r] = k] /\ UNCHANGED <<row, context, paused, tombs, overtaken, lost>>
      /\ req[r].pc = "idle"
  BY DEF Start
<1> HIDE DEF k
<1>4. InPlace(k)
  <2>1. CASE op \in {"pause", "resume", "forget"} /\ step = "decide"
    BY <1>1, <2>1 DEF InPlace, Making, Emptying
  <2>2. CASE op \in {"append", "create"} /\ step = "check"
    <3>1. PICK x \in IF op = "append" THEN Entry ELSE Row : todo = <<x>> /\ left = About[x]
      BY <2>2 DEF Begins
    <3>2. x \in Rec /\ Head(todo) = x /\ todo # <<>>
      BY <3>1 DEF Rec
    <3>3. left \in Seq(Identity) /\ left # <<>>
      BY <3>1, <3>2, RecordAssumption
    <3> QED
      BY <1>1, <2>2, <3>1, <3>2, <3>3 DEF InPlace, Making, Emptying
  <2>3. CASE op = "reset" /\ step = "gather" /\ left = Kinds
    BY <1>1, <2>3, EveryRecordIsOfAKind DEF InPlace, Making, Emptying
  <2>4. CASE op = "export" /\ step = "decide" /\ left = <<"context", "fact", "relationship">>
    <3>1. left # <<>>
      BY <2>4
    <3> QED
      BY <1>1, <2>4, <3>1, EveryRecordIsOfAKind DEF InPlace, Making, Emptying
  <2> QED
    BY <2>1, <2>2, <2>3, <2>4 DEF Begins
<1>5. k.pc \in Making => /\ Fresh(Head(k.todo)) /\ k.left = About[Head(k.todo)]
  <2> SUFFICES ASSUME k.pc \in Making PROVE Fresh(Head(k.todo)) /\ k.left = About[Head(k.todo)]
    OBVIOUS
  <2>1. PICK x \in IF op = "append" THEN Entry ELSE Row : Fresh(x) /\ todo = <<x>> /\ left = About[x]
    BY <1>1 DEF Begins, Making
  <2> QED
    BY <1>1, <2>1
<1>6. Agrees(k) /\ Saw(k) /\ Heeds(r, k)
  BY <1>1, <1>5 DEF Agrees, Saw, Heeds, Begins, Making, Emptying, Writing, Fresh
<1>7. op \in {"reset", "export"} => Rec \subseteq Pending(k)
  <2>1. op \in {"reset", "export"} => Range(k.left) = Range(Kinds)
    BY <1>1, EveryRecordIsOfAKind DEF Begins
  <2> QED
    BY <2>1, EveryRecordIsOfAKind DEF Pending
<1>8. Resets(k) /\ Exports(k)
  BY <1>1, <1>7 DEF Resets, Exports, Begins, Learned
<1>9. ~req[r].emptied
  BY <1>3, ThisRequest DEF InPlace
<1> QED
  BY <1>2, <1>3, <1>4, <1>5, <1>6, <1>8, <1>9, LocalMoves DEF Local

\* The seven kinds of request begin.
LEMMA StartsKeepInd ==
  ASSUME SubjectInd, NEW r \in Request,
         \/ SetLearningState(r) \/ AppendIdentityContext(r) \/ CreateFact(r)
         \/ CreateRelationship(r) \/ ForgetRecords(r) \/ ResetLearned(r) \/ ExportIdentity(r)
  PROVE  SubjectInd'
<1>1. <<>> \in Seq(Rec) /\ <<>> \in Seq(Identity) /\ Self \in Identity
  BY RecordAssumption, EmptySeq
<1>2. /\ {"pause", "resume", "append", "create", "forget", "reset", "export"} \subseteq Op
      /\ {"decide", "check", "gather"} \subseteq Step
  BY DEF Op, Step
<1>3. CASE SetLearningState(r)
  <2>1. PICK i \in Identity, op \in {"pause", "resume"} : Start(r, op, i, "decide", <<>>, <<>>)
    BY <1>3 DEF SetLearningState
  <2>2. Begins(op, i, "decide", <<>>, <<>>)
    BY DEF Begins
  <2> QED
    BY <1>1, <1>2, <2>1, <2>2, StartKeepsInd
<1>4. CASE AppendIdentityContext(r) \/ CreateFact(r) \/ CreateRelationship(r)
  <2>1. PICK op \in {"append", "create"}, x \in Rec, i \in Identity :
          /\ x \in (IF op = "append" THEN Entry ELSE Row)
          /\ Fresh(x) /\ Start(r, op, i, "check", <<x>>, About[x])
    <3>1. CASE AppendIdentityContext(r)
      BY <1>1, <3>1 DEF AppendIdentityContext, Rec
    <3>2. CASE CreateFact(r)
      <4>1. PICK x \in Fact : Fresh(x) /\ Start(r, "create", Self, "check", <<x>>, About[x])
        BY <3>2 DEF CreateFact
      <4> QED
        BY <1>1, <4>1 DEF Rec, Row
    <3>3. CASE CreateRelationship(r)
      <4>1. PICK x \in Relationship : Fresh(x) /\ Start(r, "create", Self, "check", <<x>>, About[x])
        BY <3>3 DEF CreateRelationship
      <4> QED
        BY <1>1, <4>1 DEF Rec, Row
    <3> QED
      BY <1>4, <3>1, <3>2, <3>3
  <2>2. About[x] \in Seq(Identity) /\ <<x>> \in Seq(Rec)
    BY RecordAssumption
  <2>3. Begins(op, i, "check", <<x>>, About[x])
    BY <2>1 DEF Begins
  <2> QED
    BY <1>2, <2>1, <2>2, <2>3, StartKeepsInd
<1>5. CASE ForgetRecords(r)
  <2>1. PICK i \in Identity, s \in Targets : Start(r, "forget", i, "decide", s, <<>>)
    BY <1>5 DEF ForgetRecords
  <2>2. Begins("forget", i, "decide", s, <<>>) /\ s \in Seq(Rec)
    BY RecordAssumption DEF Begins
  <2> QED
    BY <1>1, <1>2, <2>1, <2>2, StartKeepsInd
<1>6. CASE ResetLearned(r)
  <2>1. PICK i \in Identity : Start(r, "reset", i, "gather", <<>>, Kinds)
    BY <1>6 DEF ResetLearned
  <2>2. Begins("reset", i, "gather", <<>>, Kinds)
    BY DEF Begins
  <2> QED
    BY <1>1, <1>2, <2>1, <2>2, StartKeepsInd, EveryRecordIsOfAKind
<1>7. CASE ExportIdentity(r)
  <2>1. PICK i \in Identity :
          Start(r, "export", i, "decide", <<>>, <<"context", "fact", "relationship">>)
    BY <1>7 DEF ExportIdentity
  <2>2. Begins("export", i, "decide", <<>>, <<"context", "fact", "relationship">>)
    BY DEF Begins
  <2> QED
    BY <1>1, <1>2, <2>1, <2>2, StartKeepsInd, EveryRecordIsOfAKind
<1> QED
  BY <1>3, <1>4, <1>5, <1>6, <1>7

\* A request that goes on, or ends, without having read or written anything.
LEMMA GotoKeepsInd ==
  ASSUME SubjectInd, NEW r \in Request, NEW pc \in Step, Goto(r, pc),
         UNCHANGED <<row, context, paused, tombs, overtaken, lost>>,
         \/ pc = "failed" /\ req[r].pc # "idle"
         \/ req[r].pc \in {"decide", "check"} /\ pc = "refused"
         \/ req[r].pc = "decide" /\ pc = AfterDecide(r)
         \/ req[r].pc = "target" /\ req[r].todo = <<>> /\ pc = "done"
  PROVE  SubjectInd'
<1> DEFINE k == [req[r] EXCEPT !.pc = pc]
<1>1. /\ k.op = req[r].op /\ k.who = req[r].who /\ k.pc = pc /\ k.todo = req[r].todo
      /\ k.left = req[r].left /\ k.base = req[r].base /\ k.found = req[r].found
      /\ k.emptied = req[r].emptied /\ k.hash = req[r].hash
  BY ThisRequest DEF RequestState
<1>2. k \in RequestState
  BY ThisRequest DEF RequestState
<1>3. req' = [req EXCEPT ![r] = k]
  BY ThisRequest DEF Goto
<1> HIDE DEF k
<1>4. pc \in {"failed", "refused", "done", "set", "target", "gather"}
  BY DEF AfterDecide
<1>5. pc = "set" => req[r].pc = "decide" /\ req[r].op \in {"pause", "resume"}
  BY DEF AfterDecide
<1>6. pc = "target" => req[r].pc = "decide" /\ req[r].op \in {"forget", "reset"}
  BY DEF AfterDecide
<1>7. pc = "gather" => req[r].pc = "decide" /\ req[r].op = "export"
  BY ThisRequest DEF AfterDecide, InPlace
<1>8. pc = "done" => req[r].pc = "target" /\ req[r].todo = <<>> /\ req[r].op \in {"forget", "reset"}
  BY <1>4, ThisRequest DEF AfterDecide, InPlace
<1>9. /\ req[r].emptied => pc = "failed"
      /\ pc # "failed" => req[r].pc \in {"decide", "check", "target"}
  BY ThisRequest DEF InPlace
<1>10. InPlace(k)
  BY <1>1, <1>4, <1>5, <1>6, <1>7, <1>8, <1>9, ThisRequest DEF InPlace, Making, Emptying
<1>11. Agrees(k) /\ Saw(k) /\ Heeds(r, k) /\ k.pc \notin Making
  BY <1>1, <1>4 DEF Agrees, Saw, Heeds, Making, Emptying, Writing
<1>12. Resets(k)
  BY <1>1, <1>4, <1>5, <1>6, <1>7, <1>8, ThisRequest DEF Resets, Pending
<1>13. Exports(k)
  BY <1>1, <1>4, <1>5, <1>6, <1>7, <1>8, ThisRequest DEF Exports, Pending
<1> QED
  BY <1>1, <1>2, <1>3, <1>9, <1>10, <1>11, <1>12, <1>13, LocalMoves DEF Local, Item

\* The check of one identity, before anything is recorded about it.
LEMMA AssertLearningKeepsInd ==
  ASSUME SubjectInd, NEW r \in Request, AssertLearning(r)
  PROVE  SubjectInd'
<1>1. req[r].pc = "check" /\ UNCHANGED <<row, context, paused, tombs, overtaken, lost>>
  BY DEF AssertLearning, At
<1>2. CASE paused[Head(req[r].left)]
  <2>1. Goto(r, "refused") /\ "refused" \in Step
    BY <1>2 DEF AssertLearning, Step
  <2> QED
    BY <1>1, <2>1, GotoKeepsInd
<1>3. CASE ~paused[Head(req[r].left)]
  <2> DEFINE pc == IF Len(req[r].left) > 1 THEN "check"
                   ELSE IF req[r].op = "append" THEN "read" ELSE "insert"
             k == [req[r] EXCEPT !.left = Tail(req[r].left), !.pc = pc]
  <2>1. req[r].left \in Seq(Identity) /\ req[r].left # <<>>
    BY <1>1, ThisRequest DEF InPlace
  <2>2. Tail(req[r].left) \in Seq(Identity)
        /\ \A i \in Range(req[r].left) : i = Head(req[r].left) \/ i \in Range(Tail(req[r].left))
    BY <2>1, HeadAndTail
  <2>3. /\ pc = "check" => Tail(req[r].left) # <<>>
        /\ pc # "check" => Tail(req[r].left) = <<>>
        /\ pc \in {"check", "read", "insert"}
    BY <2>1, TailIsShorter
  <2>4. pc = "read" => req[r].op = "append"
    OBVIOUS
  <2>5. pc = "insert" => req[r].op # "append"
    OBVIOUS
  <2>6. req' = [req EXCEPT ![r] = k]
    BY <1>3, ThisRequest DEF AssertLearning
  <2> HIDE DEF pc
  <2>7. pc \in Step
    BY <2>3 DEF Step
  <2>8. k \in RequestState
    BY <2>2, <2>7, ThisRequest DEF RequestState
  <2>9. /\ k.op = req[r].op /\ k.pc = pc /\ k.todo = req[r].todo /\ k.left = Tail(req[r].left)
        /\ k.emptied = req[r].emptied
    BY ThisRequest DEF RequestState
  <2> HIDE DEF k
  <2>10. req[r].op \in {"append", "create"} /\ ~req[r].emptied
    BY <1>1, ThisRequest DEF InPlace, Making
  <2>11. InPlace(k)
    BY <1>1, <2>2, <2>3, <2>4, <2>5, <2>9, <2>10, ThisRequest DEF InPlace, Making, Emptying
  <2>12. Agrees(k) /\ Saw(k)
    BY <1>1, <2>3, <2>9, ThisRequest DEF Agrees, Saw, Making, Emptying, Writing
  <2>13. Heeds(r, k)
    <3>1. ASSUME NEW i \in Range(About[Head(k.todo)]) \ Range(k.left), paused[i]
          PROVE  <<r, i>> \in overtaken
      <4>1. i \notin Range(req[r].left)
        BY <1>3, <2>2, <2>9, <3>1
      <4> QED
        BY <1>1, <2>9, <3>1, <4>1, ThisRequest DEF Heeds, Making
    <3> QED
      BY <3>1 DEF Heeds
  <2>14. Resets(k) /\ Exports(k)
    BY <2>9, <2>10 DEF Resets, Exports
  <2>15. req[r].pc \in Making
    BY <1>1 DEF Making
  <2> QED
    BY <1>1, <2>6, <2>8, <2>9, <2>10, <2>11, <2>12, <2>13, <2>14, <2>15, LocalMoves DEF Local, Item
<1> QED
  BY <1>2, <1>3

\* The column as it is read: what it shows forgotten is accounted for.
LEMMA ReadIsAccounted ==
  ASSUME SubjectInd
  PROVE  \A e \in Entry : context[e] = "forgotten" => Accounted(e)
<1>1. \A e \in Entry : e \in Rec /\ State(e) = context[e]
  BY StatesAre DEF SubjectInd, Rec
<1> QED
  BY <1>1 DEF SubjectInd, EmptiedIsAccounted, Accounted

\* The context column is read, to be written whole.
LEMMA ReadContextKeepsInd ==
  ASSUME SubjectInd, NEW r \in Request, ReadContext(r) \/ ReadContextAgain(r)
  PROVE  SubjectInd'
<1>1. PICK pc \in Writing :
        /\ req' = [req EXCEPT ![r].saw = context, ![r].dirty = FALSE, ![r].pc = pc]
        /\ \/ req[r].pc = "read" /\ pc = "write"
           \/ req[r].pc = "empty" /\ pc = "rewrite" /\ Item(r) \in Entry
        /\ UNCHANGED <<row, context, paused, tombs, overtaken, lost>>
  BY DEF ReadContext, ReadContextAgain, At, Writing
<1> DEFINE k == [req[r] EXCEPT !.saw = context, !.dirty = FALSE, !.pc = pc]
<1>2. req' = [req EXCEPT ![r] = k]
  BY <1>1, ThisRequest
<1>3. k \in RequestState
  BY ThisRequest, ZenonT(40) DEF RequestState, Writing, Step
<1>4. /\ k.op = req[r].op /\ k.pc = pc /\ k.todo = req[r].todo /\ k.left = req[r].left
      /\ k.emptied = req[r].emptied /\ k.saw = context /\ k.hash = req[r].hash
      /\ k.base = req[r].base /\ k.who = req[r].who
  BY ThisRequest DEF RequestState
<1> HIDE DEF k
<1>5. ~req[r].emptied /\ (pc = "write" => req[r].op = "append")
      /\ (pc = "rewrite" => req[r].op \in {"forget", "reset"})
  BY <1>1, ThisRequest DEF InPlace, Making, Emptying
<1>6. InPlace(k)
  BY <1>1, <1>4, <1>5, ThisRequest DEF InPlace, Making, Emptying, Writing, Item
<1>7. Agrees(k)
  BY <1>1, <1>4, ThisRequest DEF Agrees, Making, Emptying, Writing
<1>8. Saw(k)
  BY <1>4, ReadIsAccounted DEF Saw
<1>9. Heeds(r, k)
  BY <1>1, <1>4, ThisRequest DEF Heeds, Making, Writing
<1>10. Resets(k) /\ Exports(k)
  BY <1>1, <1>4, <1>5, ThisRequest DEF Resets, Exports, Pending
<1>11. k.pc \in Making => req[r].pc \in Making /\ Head(k.todo) = Item(r)
  BY <1>1, <1>4 DEF Making, Writing, Item
<1> QED
  BY <1>1, <1>2, <1>3, <1>5, <1>6, <1>7, <1>8, <1>9, <1>10, <1>11, LocalMoves DEF Local

\* forget() reads the next record it is to empty.
LEMMA ReadTargetKeepsInd == ASSUME SubjectInd, NEW r \in Request, ReadTarget(r) PROVE SubjectInd'
<1>1. req[r].pc = "target" /\ UNCHANGED <<row, context, paused, tombs, overtaken, lost>>
  BY DEF ReadTarget, At
<1>2. req[r].op \in {"forget", "reset"} /\ ~req[r].emptied /\ req[r].todo \in Seq(Rec)
  BY <1>1, ThisRequest DEF InPlace, RequestState
<1>3. CASE req[r].todo = <<>>
  BY <1>1, <1>3, GotoKeepsInd DEF ReadTarget, Step
<1>4. CASE req[r].todo # <<>> /\ Item(r) \in Learned(req[r].who)
  <2> DEFINE k == [req[r] EXCEPT !.hash = State(Item(r)), !.saw = context, !.dirty = FALSE, !.pc = "empty"]
  <2>1. req' = [req EXCEPT ![r] = k]
    BY <1>4, ThisRequest DEF ReadTarget
  <2>2. State(Item(r)) = "live"
    BY <1>4 DEF Learned
  <2>3. k \in RequestState
    <3>1. "live" \in Status /\ "empty" \in Step
      BY DEF Status, Step
    <3> QED
      BY <2>2, <3>1, ThisRequest DEF RequestState
  <2>4. /\ k.op = req[r].op /\ k.pc = "empty" /\ k.todo = req[r].todo /\ k.who = req[r].who
        /\ k.base = req[r].base /\ k.emptied = req[r].emptied /\ k.hash = "live"
    BY <2>2, ThisRequest DEF RequestState
  <2> HIDE DEF k
  <2>5. InPlace(k)
    BY <1>2, <1>4, <2>4 DEF InPlace, Making, Emptying
  <2>6. Agrees(k) /\ Saw(k) /\ Heeds(r, k) /\ k.pc \notin Making
    BY <2>2, <2>4 DEF Agrees, Saw, Heeds, Making, Emptying, Writing, Item
  <2>7. Resets(k) /\ Exports(k)
    BY <1>1, <1>2, <2>4, ThisRequest DEF Resets, Exports, Pending
  <2> QED
    BY <1>1, <1>2, <2>1, <2>3, <2>5, <2>6, <2>7, LocalMoves DEF Local
<1>5. CASE req[r].todo # <<>> /\ Item(r) \notin Learned(req[r].who)
  <2> DEFINE k == [req[r] EXCEPT !.todo = Tail(req[r].todo)]
  <2>1. req' = [req EXCEPT ![r] = k]
    BY <1>5, ThisRequest DEF ReadTarget
  <2>2. Tail(req[r].todo) \in Seq(Rec)
        /\ \A x \in Range(req[r].todo) : x = Item(r) \/ x \in Range(Tail(req[r].todo))
    BY <1>2, <1>5, HeadAndTail DEF Item
  <2>3. k \in RequestState
    BY <2>2, ThisRequest DEF RequestState
  <2>4. /\ k.op = req[r].op /\ k.pc = "target" /\ k.todo = Tail(req[r].todo) /\ k.who = req[r].who
        /\ k.base = req[r].base /\ k.emptied = req[r].emptied
    BY <1>1, ThisRequest DEF RequestState
  <2> HIDE DEF k
  <2>5. InPlace(k)
    BY <1>2, <2>4 DEF InPlace, Making, Emptying
  <2>6. Agrees(k) /\ Saw(k) /\ Heeds(r, k) /\ k.pc \notin Making
    BY <2>4 DEF Agrees, Saw, Heeds, Making, Emptying, Writing
  <2>7. Resets(k) /\ Exports(k)
    BY <1>1, <1>2, <1>5, <2>2, <2>4, ThisRequest DEF Resets, Exports
  <2> QED
    BY <1>1, <1>2, <2>1, <2>3, <2>5, <2>6, <2>7, LocalMoves DEF Local
<1> QED
  BY <1>3, <1>4, <1>5

\* One kind of record looked up: what is still pending is of the other kinds.
LEMMA LookupNarrows ==
  ASSUME SubjectInd, NEW r \in Request, req[r].pc = "gather"
  PROVE  /\ req[r].left \in Seq(Range(Kinds)) /\ req[r].left # <<>>
         /\ Tail(req[r].left) \in Seq(Range(Kinds))
         /\ \A x \in Pending(req[r]) :
              \/ x \in OfKind(Head(req[r].left))
              \/ \E kind \in Range(Tail(req[r].left)) : x \in OfKind(kind)
         /\ Len(req[r].left) > 1 => Tail(req[r].left) # <<>>
         /\ ~(Len(req[r].left) > 1) => Tail(req[r].left) = <<>>
<1>1. req[r].left \in Seq(Range(Kinds)) /\ req[r].left # <<>>
  BY ThisRequest DEF InPlace
<1>2. /\ Tail(req[r].left) \in Seq(Range(Kinds))
      /\ \A kind \in Range(req[r].left) :
           kind = Head(req[r].left) \/ kind \in Range(Tail(req[r].left))
  BY <1>1, HeadAndTail
<1> QED
  BY <1>1, <1>2, TailIsShorter DEF Pending

\* A reset collects the targets of one table.
LEMMA LearnedTargetsKeepsInd ==
  ASSUME SubjectInd, NEW r \in Request, LearnedTargets(r)
  PROVE  SubjectInd'
<1>1. /\ req[r].pc = "gather" /\ req[r].op = "reset"
      /\ UNCHANGED <<row, context, paused, tombs, overtaken, lost>>
  BY DEF LearnedTargets, At
<1> DEFINE rows == Learned(req[r].who) \cap OfKind(Head(req[r].left))
           pc == IF Len(req[r].left) > 1 THEN "gather" ELSE "decide"
<1>2. PICK s \in Orders(rows) :
        req' = [req EXCEPT ![r].todo = @ \o s, ![r].left = Tail(@), ![r].pc = pc]
  BY DEF LearnedTargets
<1>3. rows \in SUBSET Rec
  BY DEF Learned
<1>4. s \in Seq(Rec) /\ Range(s) = rows
  BY <1>3, OrdersAreSequences
<1>5. req[r].todo \in Seq(Rec)
  BY ThisRequest DEF RequestState
<1>6. /\ req[r].todo \o s \in Seq(Rec)
      /\ Range(req[r].todo) \subseteq Range(req[r].todo \o s)
      /\ rows \subseteq Range(req[r].todo \o s)
  BY <1>4, <1>5, RangeOfConcat
<1> DEFINE k == [req[r] EXCEPT !.todo = req[r].todo \o s, !.left = Tail(req[r].left), !.pc = pc]
<1>7. req' = [req EXCEPT ![r] = k]
  BY <1>2, ThisRequest
<1>8. pc \in Step
  BY DEF Step
<1>9. pc = "gather" => Tail(req[r].left) # <<>>
  BY <1>1, LookupNarrows
<1>10. pc # "gather" => Tail(req[r].left) = <<>> /\ pc = "decide"
  BY <1>1, LookupNarrows
<1> HIDE DEF pc
<1>11. k \in RequestState
  BY <1>1, <1>6, <1>8, ThisRequest, LookupNarrows DEF RequestState
<1>12. /\ k.op = "reset" /\ k.pc = pc /\ k.todo = req[r].todo \o s /\ k.who = req[r].who
       /\ k.left = Tail(req[r].left) /\ k.base = req[r].base /\ k.emptied = req[r].emptied
  BY <1>1, ThisRequest DEF RequestState
<1> HIDE DEF k
<1>13. ~req[r].emptied
  BY <1>1, ThisRequest DEF InPlace
<1>14. InPlace(k)
  BY <1>1, <1>9, <1>10, <1>12, <1>13, LookupNarrows DEF InPlace, Making, Emptying
<1>15. Agrees(k) /\ Saw(k) /\ Heeds(r, k) /\ Exports(k) /\ k.pc \notin Making
  BY <1>10, <1>12 DEF Agrees, Saw, Heeds, Exports, Making, Emptying, Writing
<1>16. Resets(k)
  <2>1. ASSUME NEW x \in k.base
        PROVE  \/ Excused(x) \/ State(x) = "forgotten"
               \/ x \in Learned(k.who) /\ (x \in Range(k.todo) \/ (k.pc = "gather" /\ x \in Pending(k)))
    <3>1. \/ Excused(x) \/ State(x) = "forgotten"
          \/ x \in Learned(req[r].who) /\ (x \in Range(req[r].todo) \/ x \in Pending(req[r]))
      BY <1>1, <1>12, <2>1, ThisRequest DEF Resets
    <3>2. ASSUME x \in Learned(req[r].who), x \in Pending(req[r])
          PROVE  x \in Range(k.todo) \/ (k.pc = "gather" /\ x \in Pending(k))
      <4>1. CASE x \in OfKind(Head(req[r].left))
        BY <1>6, <1>12, <3>2, <4>1
      <4>2. CASE \E kind \in Range(Tail(req[r].left)) : x \in OfKind(kind)
        <5>1. Tail(req[r].left) # <<>>
          BY <4>2, NothingInEmpty
        <5> QED
          BY <1>10, <1>12, <4>2, <5>1 DEF Pending
      <4> QED
        BY <1>1, <3>2, <4>1, <4>2, LookupNarrows
    <3> QED
      BY <1>6, <1>12, <3>1, <3>2
  <2> QED
    BY <2>1 DEF Resets
<1> QED
  BY <1>1, <1>7, <1>11, <1>13, <1>14, <1>15, <1>16, LocalMoves DEF Local

\* An export reads one table.
LEMMA ExportRecordsKeepsInd ==
  ASSUME SubjectInd, NEW r \in Request, ExportRecords(r)
  PROVE  SubjectInd'
<1>1. /\ req[r].pc = "gather" /\ req[r].op = "export"
      /\ UNCHANGED <<row, context, paused, tombs, overtaken, lost>>
  BY DEF ExportRecords, At
<1> DEFINE rows == Learned(req[r].who) \cap OfKind(Head(req[r].left))
           pc == IF Len(req[r].left) > 1 THEN "gather" ELSE "stones"
           k == [req[r] EXCEPT !.found = req[r].found \cup rows, !.left = Tail(req[r].left), !.pc = pc]
<1>2. req' = [req EXCEPT ![r] = k]
  BY ThisRequest DEF ExportRecords
<1>3. rows \in SUBSET Rec
  BY DEF Learned
<1>4. pc \in Step
  BY DEF Step
<1>5. pc = "gather" => Tail(req[r].left) # <<>>
  BY <1>1, LookupNarrows
<1>6. pc # "gather" => Tail(req[r].left) = <<>> /\ pc = "stones"
  BY <1>1, LookupNarrows
<1> HIDE DEF pc, rows
<1>7. k \in RequestState
  BY <1>1, <1>3, <1>4, ThisRequest, LookupNarrows DEF RequestState
<1>8. /\ k.op = "export" /\ k.pc = pc /\ k.todo = req[r].todo /\ k.who = req[r].who
      /\ k.left = Tail(req[r].left) /\ k.base = req[r].base /\ k.emptied = req[r].emptied
      /\ k.found = req[r].found \cup rows
  BY <1>1, ThisRequest DEF RequestState
<1> HIDE DEF k
<1>9. ~req[r].emptied
  BY <1>1, ThisRequest DEF InPlace
<1>10. InPlace(k)
  BY <1>1, <1>5, <1>6, <1>8, <1>9, LookupNarrows DEF InPlace, Making, Emptying
<1>11. Agrees(k) /\ Saw(k) /\ Heeds(r, k) /\ Resets(k) /\ k.pc \notin Making
  BY <1>6, <1>8 DEF Agrees, Saw, Heeds, Resets, Making, Emptying, Writing
<1>12. Exports(k)
  <2>1. ASSUME NEW x \in k.base
        PROVE  \/ Excused(x) \/ x \in k.found
               \/ State(x) = "forgotten"
               \/ x \in Learned(k.who) /\ k.pc = "gather" /\ x \in Pending(k)
    <3>1. \/ Excused(x) \/ x \in req[r].found \/ State(x) = "forgotten"
          \/ x \in Learned(req[r].who) /\ x \in Pending(req[r])
      BY <1>1, <1>8, <2>1, ThisRequest DEF Exports
    <3>2. ASSUME x \in Learned(req[r].who), x \in Pending(req[r])
          PROVE  x \in rows \/ (k.pc = "gather" /\ x \in Pending(k))
      <4>1. CASE x \in OfKind(Head(req[r].left))
        BY <3>2, <4>1 DEF rows
      <4>2. CASE \E kind \in Range(Tail(req[r].left)) : x \in OfKind(kind)
        <5>1. Tail(req[r].left) # <<>>
          BY <4>2, NothingInEmpty
        <5> QED
          BY <1>6, <1>8, <4>2, <5>1 DEF Pending
      <4> QED
        BY <1>1, <3>2, <4>1, <4>2, LookupNarrows
    <3> QED
      BY <1>8, <3>1, <3>2
  <2>2. k.pc # "done" /\ (k.pc = "gather" => k.pc \in {"decide", "gather"})
    BY <1>6, <1>8
  <2> QED
    BY <2>1, <2>2 DEF Exports
<1> QED
  BY <1>1, <1>2, <1>7, <1>9, <1>10, <1>11, <1>12, LocalMoves DEF Local

\* An export reads the tombstones, last.
LEMMA TombstonesForKeepsInd ==
  ASSUME SubjectInd, NEW r \in Request, TombstonesFor(r)
  PROVE  SubjectInd'
<1>1. req[r].pc = "stones" /\ UNCHANGED <<row, context, paused, tombs, overtaken, lost>>
  BY DEF TombstonesFor, At
<1> DEFINE stones == {t.id : t \in {t \in tombs : t.who = req[r].who}}
           gap == {x \in Rec : State(x) = "forgotten"} \ Buried
           k == [req[r] EXCEPT !.pc = "done", !.stones = stones, !.gap = gap]
<1>2. req' = [req EXCEPT ![r] = k]
  BY ThisRequest DEF TombstonesFor
<1>3. stones \in SUBSET Rec /\ gap \in SUBSET Rec /\ "done" \in Step
  BY ThisRequest DEF Step
<1>5. \A x \in Rec : State(x) = "forgotten" =>
        x \in stones \cup gap \/ \E t \in tombs : t.id = x /\ t.who # req[r].who
  BY DEF Buried
<1> HIDE DEF stones, gap
<1>6. k \in RequestState
  BY <1>3, ThisRequest DEF RequestState
<1>7. /\ k.op = req[r].op /\ k.pc = "done" /\ k.who = req[r].who /\ k.base = req[r].base
      /\ k.emptied = req[r].emptied /\ k.found = req[r].found /\ k.stones = stones /\ k.gap = gap
  BY ThisRequest DEF RequestState
<1> HIDE DEF k
<1>8. req[r].op = "export" /\ ~req[r].emptied /\ req[r].base \subseteq Rec
  BY <1>1, ThisRequest DEF InPlace, RequestState
<1>9. InPlace(k) /\ Agrees(k) /\ Saw(k) /\ Heeds(r, k) /\ Resets(k) /\ k.pc \notin Making
  BY <1>7, <1>8 DEF InPlace, Agrees, Saw, Heeds, Resets, Making, Emptying, Writing
<1>10. Exports(k)
  <2>1. \A x \in k.base : Excused(x) \/ x \in req[r].found \/ State(x) = "forgotten"
    BY <1>1, <1>7, <1>8, ThisRequest DEF Exports
  <2> QED
    BY <1>5, <1>7, <1>8, <2>1 DEF Exports
<1> QED
  BY <1>1, <1>2, <1>6, <1>8, <1>9, <1>10, LocalMoves DEF Local

-----------------------------------------------------------------------------
(* The steps that write. *)

\* Learning is paused or resumed by one UPDATE.
LEMMA SetLearningKeepsInd == ASSUME SubjectInd, NEW r \in Request, SetLearning(r) PROVE SubjectInd'
<1>1. /\ req[r].pc = "set" /\ UNCHANGED <<row, context, tombs, lost>>
      /\ paused' = [paused EXCEPT ![req[r].who] = (req[r].op = "pause")]
      /\ req' = [req EXCEPT ![r].pc = "done"]
  BY DEF SetLearning, At, Goto
<1> DEFINE k == [req[r] EXCEPT !.pc = "done"]
<1>2. req'[r] = k /\ req' = [req EXCEPT ![r] = k] /\ \A q \in Request \ {r} : req'[q] = req[q]
  BY <1>1, ThisRequest
<1>3. k \in RequestState
  BY ThisRequest, ZenonT(40) DEF RequestState, Step
<1>4. k.op \in {"pause", "resume"} /\ k.pc = "done" /\ ~k.emptied /\ ~req[r].emptied
  BY <1>1, ThisRequest DEF RequestState, InPlace
<1> HIDE DEF k
<1>5. overtaken \subseteq overtaken'
  BY DEF SetLearning
<1>6. overtaken' \subseteq Request \X Identity
  <2>1. req[r].who \in Identity /\ overtaken \subseteq Request \X Identity
    BY ThisRequest DEF RequestState, SubjectInd, SubjectTypes
  <2> QED
    BY <2>1 DEF SetLearning
<1>7. SubjectTypes'
  <2>1. (req[r].op = "pause") \in BOOLEAN
    OBVIOUS
  <2>2. paused' \in [Identity -> BOOLEAN]
    BY <1>1, <2>1, ThisRequest
  <2>3. req' \in [Request -> RequestState]
    BY <1>2, <1>3, ThisRequest
  <2> QED
    BY <1>1, <1>6, <2>2, <2>3 DEF SubjectInd, SubjectTypes
<1>8. ASSUME NEW q \in Request \ {r}, req[q].pc \in Making,
             NEW i \in Range(About[Item(q)]) \ Range(req[q].left), paused'[i]
      PROVE  paused[i] \/ <<q, i>> \in overtaken'
  <2>1. i \in Checked(q)
    BY <1>8 DEF Checked, Making
  <2>2. CASE i = req[r].who /\ req[r].op # "resume"
    BY <2>1, <2>2 DEF SetLearning
  <2>3. CASE i = req[r].who /\ req[r].op = "resume"
    <3>1. i \in Identity
      BY <2>3, ThisRequest DEF RequestState
    <3>2. paused'[i] = FALSE
      BY <1>1, <2>3, <3>1, ThisRequest
    <3> QED
      BY <1>8, <3>2
  <2>4. CASE i # req[r].who
    BY <1>1, <1>8, <2>4, ThisRequest
  <2> QED
    BY <2>2, <2>3, <2>4
<1>9. /\ \A x : State(x)' = State(x)
      /\ Buried' = Buried
  BY <1>1 DEF State, Buried
<1>10. Benign(r)
  <2>1. \A q \in Request \ {r} : Untouched(req[q], req'[q])
    BY <1>2 DEF Untouched
  <2>2. RecordsMove(r)
    BY <1>9 DEF RecordsMove
  <2>3. lost => lost'
    BY <1>1, Zenon
  <2> QED
    BY <1>1, <1>4, <1>5, <1>8, <2>1, <2>2, <2>3 DEF Benign
<1>11. Local(r, req[r])'
  <2>1. InPlace(k)
    BY <1>4 DEF InPlace, Making, Emptying
  <2> QED
    BY <1>2, <1>4, <2>1 DEF Local, InPlace, Agrees, Saw, Heeds, Resets, Exports, Making, Emptying, Writing
<1>12. EmptiedIsAccounted'
  BY <1>9, <1>10, AccountedStays DEF SubjectInd, EmptiedIsAccounted, Accounted
<1>13. TombstoneIsOfTheRecord'
  BY <1>1 DEF SubjectInd, TombstoneIsOfTheRecord
<1>14. req'[r].pc \notin Making
  BY <1>2, <1>4 DEF Making
<1> QED
  BY <1>7, <1>10, <1>11, <1>12, <1>13, <1>14, StepKeeps

\* A reset that empties, or leaves, one target keeps looking after the others.
LEMMA ResetFollows ==
  ASSUME SubjectInd, NEW r \in Request, RecordsMove(r), lost => lost', NEW k \in RequestState,
         req[r].pc \in Emptying, k.op = req[r].op, k.base = req[r].base, k.who = req[r].who,
         \A x \in Range(req[r].todo) : x \in Range(k.todo) \/ Excused(x)' \/ State(x)' = "forgotten"
  PROVE  Resets(k)' /\ Exports(k)'
<1>1. \A x \in Rec : (Excused(x) => Excused(x)')
                  /\ (State(x) = "forgotten" => Excused(x)' \/ State(x)' = "forgotten")
  BY DEF Excused, RecordsMove
<1>2. \A x \in Rec : x \in Learned(k.who) =>
        Excused(x)' \/ State(x)' = "forgotten" \/ x \in Learned(k.who)'
  <2>1. \A x \in Rec : State(x) # "absent" =>
          State(x)' = State(x) \/ Excused(x)' \/ State(x)' = "forgotten"
    BY DEF RecordsMove
  <2> QED
    BY <2>1 DEF Learned
<1>3. req[r].op \in {"forget", "reset"} /\ k.base \subseteq Rec
  BY ThisRequest DEF InPlace, RequestState
<1>4. ASSUME k.op = "reset", NEW x \in k.base
      PROVE  Excused(x)' \/ State(x)' = "forgotten" \/ (x \in Learned(k.who)' /\ x \in Range(k.todo))
  <2>1. Excused(x) \/ State(x) = "forgotten" \/ (x \in Learned(k.who) /\ x \in Range(req[r].todo))
    BY <1>4, ThisRequest DEF Resets, Emptying
  <2> QED
    BY <1>1, <1>2, <1>3, <2>1
<1> QED
  BY <1>3, <1>4 DEF Resets, Exports

\* A fact or a relationship is stored.
LEMMA InsertRowKeepsInd == ASSUME SubjectInd, NEW r \in Request, InsertRow(r) PROVE SubjectInd'
<1>1. /\ req[r].pc = "insert" /\ UNCHANGED <<context, paused, tombs, overtaken, lost>>
      /\ row' = [row EXCEPT ![Item(r)] = "live"]
      /\ req' = [req EXCEPT ![r].pc = "done"]
  BY DEF InsertRow, At, Goto
<1> DEFINE k == [req[r] EXCEPT !.pc = "done"]
<1>2. req'[r] = k /\ req' = [req EXCEPT ![r] = k] /\ \A q \in Request \ {r} : req'[q] = req[q]
  BY <1>1, ThisRequest
<1>3. k \in RequestState
  BY ThisRequest, ZenonT(40) DEF RequestState, Step
<1>4. k.op = "create" /\ k.pc = "done" /\ ~k.emptied /\ ~req[r].emptied
  BY <1>1, ThisRequest DEF RequestState, InPlace, Making
<1> HIDE DEF k
<1>5. Item(r) \in Row /\ State(Item(r)) = "absent" /\ row[Item(r)] = "absent"
  <2>1. Item(r) \in Row
    BY <1>1, ThisRequest DEF InPlace, Making, Item
  <2>2. Item(r) \notin Entry
    BY <2>1, RecordAssumption
  <2> QED
    BY <1>1, <2>1, <2>2, ThisRequest DEF Agrees, Making, Item, Excused, State
<1>6. SubjectTypes'
  <2>1. row' \in [Row -> Status] /\ req' \in [Request -> RequestState]
    BY <1>1, <1>2, <1>3, ThisRequest DEF Status
  <2> QED
    BY <1>1, <2>1 DEF SubjectInd, SubjectTypes
<1>7. /\ \A x \in Rec \ {Item(r)} : State(x)' = State(x)
      /\ Buried' = Buried
  BY <1>1, <1>5, ThisRequest DEF State, Buried, Rec
<1>8. row'[Item(r)] = "live"
  BY <1>1, <1>5, ThisRequest
<1>9. Benign(r)
  <2>1. \A q \in Request \ {r} : Untouched(req[q], req'[q])
    BY <1>2 DEF Untouched
  <2>2. RecordsMove(r)
    BY <1>1, <1>5, <1>7 DEF RecordsMove, Making
  <2>3. lost => lost'
    BY <1>1, Zenon
  <2> QED
    BY <1>1, <1>4, <2>1, <2>2, <2>3 DEF Benign
<1>10. Local(r, req[r])'
  <2>1. InPlace(k)
    BY <1>4 DEF InPlace, Making, Emptying
  <2> QED
    BY <1>2, <1>4, <2>1 DEF Local, InPlace, Agrees, Saw, Heeds, Resets, Exports, Making, Emptying, Writing
<1>11. EmptiedIsAccounted'
  <2>1. ASSUME NEW x \in Rec, State(x)' = "forgotten" PROVE Accounted(x)'
    <3>1. x # Item(r)
      BY <1>5, <1>8, <2>1 DEF State
    <3>2. Accounted(x)
      BY <1>7, <2>1, <3>1 DEF SubjectInd, EmptiedIsAccounted, Accounted
    <3> QED
      BY <1>9, <3>2, AccountedStays
  <2> QED
    BY <2>1 DEF EmptiedIsAccounted, Accounted
<1>12. TombstoneIsOfTheRecord'
  BY <1>1, <1>5, ThisRequest DEF SubjectInd, TombstoneIsOfTheRecord
<1>13. req'[r].pc \notin Making
  BY <1>2, <1>4 DEF Making
<1> QED
  BY <1>6, <1>9, <1>10, <1>11, <1>12, <1>13, StepKeeps

\* A row is emptied; its tombstone is still to come.
LEMMA EmptyRowKeepsInd == ASSUME SubjectInd, NEW r \in Request, EmptyRow(r) PROVE SubjectInd'
<1>1. /\ req[r].pc = "empty" /\ Item(r) \in Row
      /\ UNCHANGED <<context, paused, tombs, overtaken, lost>>
      /\ row' = [row EXCEPT ![Item(r)] = "forgotten"]
      /\ req' = [req EXCEPT ![r].emptied = TRUE, ![r].pc = "tomb"]
  BY DEF EmptyRow, At
<1>2. PICK k \in RequestState : k = [req[r] EXCEPT !.emptied = TRUE, !.pc = "tomb"]
  BY ThisRequest, ZenonT(40) DEF RequestState, Step
<1>3. req'[r] = k /\ req' = [req EXCEPT ![r] = k] /\ \A q \in Request \ {r} : req'[q] = req[q]
  BY <1>1, <1>2, ThisRequest
<1>4. /\ k.op = req[r].op /\ k.pc = "tomb" /\ k.emptied /\ k.todo = req[r].todo
      /\ k.hash = req[r].hash /\ k.base = req[r].base /\ k.who = req[r].who
  BY <1>2, ThisRequest DEF RequestState
<1>5. /\ ~req[r].emptied /\ req[r].op \in {"forget", "reset"} /\ req[r].todo # <<>>
      /\ req[r].hash = "live"
  BY <1>1, ThisRequest DEF InPlace, Emptying
<1>6. State(Item(r)) \in {"live", "forgotten"} /\ Item(r) \in Rec
  <2>1. Item(r) \notin Entry
    BY <1>1, RecordAssumption
  <2> QED
    BY <1>1, <2>1, ThisRequest DEF Agrees, Emptying, Item, Excused, Rec
<1>7. SubjectTypes'
  <2>1. row' \in [Row -> Status] /\ req' \in [Request -> RequestState]
    BY <1>1, <1>3, ThisRequest DEF Status
  <2> QED
    BY <1>1, <2>1 DEF SubjectInd, SubjectTypes
<1>8. /\ \A x \in Rec \ {Item(r)} : State(x)' = State(x)
      /\ \A x \in Rec : x = Item(r) => State(x)' = "forgotten"
  BY <1>1, ThisRequest DEF State, Rec
<1>9. RecordsMove(r) /\ (lost => lost')
  <2>1. RecordsMove(r)
    BY <1>6, <1>8 DEF RecordsMove
  <2>2. lost => lost'
    BY <1>1, Zenon
  <2> QED
    BY <2>1, <2>2
<1>10. Benign(r)
  <2>1. \A q \in Request \ {r} : Untouched(req[q], req'[q])
    BY <1>3 DEF Untouched
  <2> QED
    BY <1>1, <1>5, <1>9, <2>1 DEF Benign
<1>11. Local(r, k)'
  <2>1. InPlace(k)
    BY <1>4, <1>5 DEF InPlace, Making, Emptying
  <2>2. Agrees(k)'
    BY <1>4, <1>6, <1>8 DEF Agrees, Making, Emptying, Item
  <2>3. Saw(k)' /\ Heeds(r, k)'
    BY <1>4 DEF Saw, Heeds, Making, Writing
  <2>4. Resets(k)' /\ Exports(k)'
    BY <1>1, <1>4, <1>9, ResetFollows DEF Emptying
  <2> QED
    BY <2>1, <2>2, <2>3, <2>4 DEF Local
<1>12. EmptiedIsAccounted'
  <2>1. ASSUME NEW x \in Rec, State(x)' = "forgotten" PROVE Accounted(x)'
    <3>1. CASE x = Item(r)
      BY <1>3, <1>4, <3>1 DEF Accounted, Item
    <3>2. CASE x # Item(r)
      <4>1. Accounted(x)
        BY <1>8, <2>1, <3>2 DEF SubjectInd, EmptiedIsAccounted, Accounted
      <4> QED
        BY <1>10, <4>1, AccountedStays
    <3> QED
      BY <3>1, <3>2
  <2> QED
    BY <2>1 DEF EmptiedIsAccounted, Accounted
<1>13. TombstoneIsOfTheRecord'
  BY <1>1, ThisRequest DEF SubjectInd, TombstoneIsOfTheRecord
<1>14. req'[r].pc \notin Making /\ Local(r, req[r])'
  BY <1>3, <1>4, <1>11 DEF Making
<1> QED
  BY <1>7, <1>10, <1>12, <1>13, <1>14, StepKeeps

\* The tombstone of the record just emptied.
LEMMA LeaveTombstoneKeepsInd ==
  ASSUME SubjectInd, NEW r \in Request, LeaveTombstone(r)
  PROVE  SubjectInd'
<1>1. req[r].pc = "tomb" /\ UNCHANGED <<row, context, paused, overtaken, lost>>
  BY DEF LeaveTombstone, At
<1>2. CASE \E t \in tombs : t.id = Item(r)
  BY <1>1, <1>2, GotoKeepsInd DEF LeaveTombstone, Step
<1>3. CASE ~\E t \in tombs : t.id = Item(r)
  <2> DEFINE after == [req[r] EXCEPT !.todo = Tail(req[r].todo), !.emptied = FALSE, !.pc = "target"]
             stone == [id |-> Item(r), who |-> req[r].who, hash |-> req[r].hash]
  <2>1. tombs' = tombs \cup {stone} /\ req' = [req EXCEPT ![r] = after]
    BY <1>3, ThisRequest DEF LeaveTombstone
  <2>2. req'[r] = after /\ \A q \in Request \ {r} : req'[q] = req[q]
    BY <2>1, ThisRequest
  <2>3. /\ req[r].todo # <<>> /\ req[r].todo \in Seq(Rec) /\ req[r].hash = "live"
        /\ req[r].op \in {"forget", "reset"}
    BY <1>1, ThisRequest DEF InPlace, Emptying, RequestState
  <2>4. /\ Item(r) \in Rec /\ Tail(req[r].todo) \in Seq(Rec)
        /\ \A x \in Range(req[r].todo) : x = Item(r) \/ x \in Range(Tail(req[r].todo))
    BY <2>3, HeadAndTail DEF Item
  <2>5. PICK k \in RequestState : k = after
    BY <2>4, ThisRequest, ZenonT(40) DEF RequestState, Step
  <2>6. /\ k.op = req[r].op /\ k.pc = "target" /\ ~k.emptied /\ k.todo = Tail(req[r].todo)
        /\ k.base = req[r].base /\ k.who = req[r].who
    BY <2>5, ThisRequest DEF RequestState
  <2>7. stone \in [id : Rec, who : Identity, hash : Status] /\ stone.id = Item(r) /\ stone.hash = "live"
    BY <2>3, <2>4, ThisRequest DEF RequestState
  <2> HIDE DEF after, stone
  <2>8. SubjectTypes'
    <3>1. req' \in [Request -> RequestState]
      BY <2>1, <2>5, ThisRequest
    <3>2. tombs' \subseteq [id : Rec, who : Identity, hash : Status]
      BY <2>1, <2>7, ThisRequest
    <3> QED
      BY <1>1, <3>1, <3>2 DEF SubjectInd, SubjectTypes
  <2>9. (\A x : State(x)' = State(x)) /\ (\A x : Excused(x)' <=> Excused(x))
    BY <1>1, Zenon DEF State, Excused
  <2>10. Excused(Item(r)) \/ State(Item(r)) = "forgotten"
    BY <1>1, ThisRequest DEF Agrees, Item
  <2>11. RecordsMove(r) /\ (lost => lost')
    <3>1. RecordsMove(r)
      BY <2>9 DEF RecordsMove
    <3>2. lost => lost'
      BY <1>1, Zenon
    <3> QED
      BY <3>1, <3>2
  <2>12. Benign(r)
    <3>1. \A q \in Request \ {r} : Untouched(req[q], req'[q])
      BY <2>2 DEF Untouched
    <3>2. Item(r) \in Buried' /\ tombs \subseteq tombs'
      BY <2>1, <2>7 DEF Buried
    <3> QED
      BY <1>1, <2>11, <3>1, <3>2 DEF Benign
  <2>13. Local(r, k)'
    <3>1. InPlace(k)
      BY <2>3, <2>6 DEF InPlace, Making, Emptying
    <3>2. Agrees(k)' /\ Saw(k)' /\ Heeds(r, k)'
      BY <2>6 DEF Agrees, Saw, Heeds, Making, Emptying, Writing
    <3>3. Resets(k)' /\ Exports(k)'
      <4>1. \A x \in Range(req[r].todo) :
              x \in Range(k.todo) \/ Excused(x)' \/ State(x)' = "forgotten"
        BY <2>4, <2>6, <2>9, <2>10
      <4> QED
        BY <1>1, <2>6, <2>11, <4>1, ResetFollows DEF Emptying
    <3> QED
      BY <3>1, <3>2, <3>3 DEF Local
  <2>14. EmptiedIsAccounted'
    BY <2>9, <2>12, AccountedStays DEF SubjectInd, EmptiedIsAccounted, Accounted
  <2>15. TombstoneIsOfTheRecord'
    <3>1. stone.id \in Row => row[stone.id] = "forgotten"
      BY <2>7, <2>10, RecordAssumption DEF Excused, State
    <3> QED
      BY <1>1, <2>1, <2>7, <3>1 DEF SubjectInd, TombstoneIsOfTheRecord
  <2>16. req'[r].pc \notin Making /\ Local(r, req[r])'
    BY <2>2, <2>5, <2>6, <2>13 DEF Making
  <2> QED
    BY <2>8, <2>12, <2>14, <2>15, <2>16, StepKeeps
<1> QED
  BY <1>2, <1>3

\* The column is written whole: other entries stay as they were, or are exempt.
LEMMA ColumnWritten ==
  ASSUME SubjectInd, NEW r \in Request, req[r].pc \in Writing, Item(r) \in Entry,
         NEW status \in Status, WriteContext(r, status), NEW step \in {"done", "tomb"},
         NEW emptied \in BOOLEAN, Overtake(r, step, emptied), UNCHANGED row
  PROVE  /\ context' \in [Entry -> Status] /\ lost' \in BOOLEAN
         /\ req' \in [Request -> RequestState]
         /\ req'[r] = [req[r] EXCEPT !.pc = step, !.emptied = emptied]
         /\ \A q \in Request \ {r} : /\ Untouched(req[q], req'[q])
                                     /\ req[q].pc \in Writing => req'[q].dirty
         /\ lost => lost'
         /\ \A x \in Rec \ {Item(r)} : State(x)' = State(x) \/ Excused(x)'
         /\ \A x \in Rec : x = Item(r) => State(x)' = status
         /\ \A x \in Rec \ {Item(r)} : State(x)' = "forgotten" => Accounted(x)
<1>1. context' = [e \in Entry |-> IF e = Item(r) THEN status ELSE req[r].saw[e]]
      /\ lost' = (lost \/ req[r].dirty)
  BY DEF WriteContext
<1>2. req[r].saw \in [Entry -> Status] /\ req[r].dirty \in BOOLEAN
  BY ThisRequest DEF RequestState
<1>3. context' \in [Entry -> Status]
  BY <1>1, <1>2
<1>4. lost' \in BOOLEAN /\ (lost => lost') /\ (req[r].dirty => lost')
  BY <1>1, <1>2, ThisRequest, Zenon
<1>5. /\ req'[r] = [req[r] EXCEPT !.pc = step, !.emptied = emptied]
      /\ \A q \in Request \ {r} : /\ Untouched(req[q], req'[q])
                                  /\ req[q].pc \in Writing => req'[q].dirty
  <2>1. req'[r] = [req[r] EXCEPT !.pc = step, !.emptied = emptied]
    BY DEF Overtake
  <2>2. ASSUME NEW q \in Request \ {r}
        PROVE  Untouched(req[q], req'[q]) /\ (req[q].pc \in Writing => req'[q].dirty)
    <3>1. req'[q] = [req[q] EXCEPT !.dirty = req[q].dirty \/ req[q].pc \in {"write", "rewrite"}]
      BY DEF Overtake
    <3> DEFINE j == [req[q] EXCEPT !.dirty = req[q].dirty \/ req[q].pc \in {"write", "rewrite"}]
    <3>2. j.dirty = (req[q].dirty \/ req[q].pc \in {"write", "rewrite"})
      BY ThisRequest DEF RequestState
    <3>3. /\ j.op = req[q].op /\ j.pc = req[q].pc /\ j.who = req[q].who /\ j.todo = req[q].todo
          /\ j.left = req[q].left /\ j.saw = req[q].saw /\ j.hash = req[q].hash
          /\ j.emptied = req[q].emptied /\ j.base = req[q].base /\ j.found = req[q].found
          /\ j.stones = req[q].stones /\ j.gap = req[q].gap
      BY ThisRequest DEF RequestState
    <3> HIDE DEF j
    <3>4. (req[q].dirty => j.dirty) /\ (req[q].pc \in Writing => j.dirty)
      BY <3>2, Zenon DEF Writing
    <3>5. req'[q] = j
      BY <3>1 DEF j
    <3> QED
      BY <3>3, <3>4, <3>5 DEF Untouched
  <2> QED
    BY <2>1, <2>2
<1>6. req' \in [Request -> RequestState]
  <2>1. \A q \in Request : (req[q].dirty \/ req[q].pc \in {"write", "rewrite"}) \in BOOLEAN
    OBVIOUS
  <2>2. ASSUME NEW q \in Request
        PROVE  [req[q] EXCEPT !.dirty = req[q].dirty \/ req[q].pc \in {"write", "rewrite"}] \in RequestState
    BY <2>1, ThisRequest DEF RequestState
  <2>3. [req[r] EXCEPT !.pc = step, !.emptied = emptied] \in RequestState
    BY ThisRequest, ZenonT(40) DEF RequestState, Step
  <2> QED
    BY <2>2, <2>3 DEF Overtake
<1>7. \A x \in Rec : x = Item(r) => State(x)' = status
  <2>1. Item(r) \notin Row
    BY RecordAssumption
  <2> QED
    BY <1>1, <2>1 DEF State
<1>8. ASSUME NEW x \in Rec \ {Item(r)} PROVE State(x)' = State(x) \/ Excused(x)'
  <2>1. CASE x \in Row
    BY <2>1 DEF State
  <2>2. CASE x \in Entry /\ ~req[r].dirty
    <3>1. req[r].saw = context /\ x \notin Row
      BY <2>2, ThisRequest, RecordAssumption DEF Saw
    <3> QED
      BY <1>1, <1>8, <2>2, <3>1 DEF State
  <2>3. CASE x \in Entry /\ req[r].dirty
    BY <1>4, <2>3 DEF Excused
  <2> QED
    BY <2>1, <2>2, <2>3 DEF Rec
<1>9. ASSUME NEW x \in Rec \ {Item(r)}, State(x)' = "forgotten" PROVE Accounted(x)
  <2>1. CASE x \in Row
    <3>1. State(x) = "forgotten"
      BY <1>9, <2>1 DEF State
    <3> QED
      BY <3>1 DEF SubjectInd, EmptiedIsAccounted, Accounted
  <2>2. CASE x \in Entry
    <3>1. x \notin Row
      BY <2>2, RecordAssumption
    <3>2. req[r].saw[x] = "forgotten"
      BY <1>1, <1>9, <2>2, <3>1 DEF State
    <3> QED
      BY <2>2, <3>2, ThisRequest DEF Saw
  <2> QED
    BY <2>1, <2>2 DEF Rec
<1> QED
  BY <1>3, <1>4, <1>5, <1>6, <1>7, <1>8, <1>9

\* The column is written with an entry more than was read.
LEMMA AppendEntryKeepsInd == ASSUME SubjectInd, NEW r \in Request, AppendEntry(r) PROVE SubjectInd'
<1>1. /\ req[r].pc = "write" /\ UNCHANGED <<row, paused, tombs, overtaken>>
      /\ WriteContext(r, "live") /\ Overtake(r, "done", FALSE)
  BY DEF AppendEntry, At
<1>2. /\ Item(r) \in Entry /\ req[r].op = "append" /\ ~req[r].emptied
      /\ Excused(Item(r)) \/ State(Item(r)) = "absent"
  BY <1>1, ThisRequest DEF InPlace, Agrees, Making, Item
<1>3. "live" \in Status /\ req[r].pc \in Writing /\ FALSE \in BOOLEAN
  BY <1>1 DEF Status, Writing
<1>4. /\ context' \in [Entry -> Status] /\ lost' \in BOOLEAN
      /\ req' \in [Request -> RequestState]
      /\ req'[r] = [req[r] EXCEPT !.pc = "done", !.emptied = FALSE]
      /\ \A q \in Request \ {r} : /\ Untouched(req[q], req'[q])
                                  /\ req[q].pc \in Writing => req'[q].dirty
      /\ lost => lost'
      /\ \A x \in Rec \ {Item(r)} : State(x)' = State(x) \/ Excused(x)'
      /\ \A x \in Rec : x = Item(r) => State(x)' = "live"
      /\ \A x \in Rec \ {Item(r)} : State(x)' = "forgotten" => Accounted(x)
  BY <1>1, <1>2, <1>3, ColumnWritten
<1>5. req'[r].op = "append" /\ req'[r].pc = "done" /\ ~req'[r].emptied
  BY <1>2, <1>4, ThisRequest DEF RequestState
<1>6. SubjectTypes'
  BY <1>1, <1>4 DEF SubjectInd, SubjectTypes
<1>7. Benign(r)
  <2>1. \A x : Excused(x) => Excused(x)'
    BY <1>4 DEF Excused
  <2>2. RecordsMove(r)
    <3>1. req[r].pc \in Making
      BY <1>1 DEF Making
    <3>2. \A x \in Rec : x = Item(r) => Excused(x)' \/ State(x) = "absent"
      BY <1>2, <2>1
    <3> QED
      BY <1>4, <3>1, <3>2 DEF RecordsMove
  <2> QED
    BY <1>1, <1>2, <1>4, <2>2 DEF Benign
<1>8. Local(r, req[r])'
  <2>1. InPlace(req'[r])
    BY <1>5 DEF InPlace, Making, Emptying
  <2> QED
    BY <1>5, <2>1 DEF Local, Agrees, Saw, Heeds, Resets, Exports, Making, Emptying, Writing, InPlace
<1>9. EmptiedIsAccounted'
  <2>1. ASSUME NEW x \in Rec, State(x)' = "forgotten" PROVE Accounted(x)'
    BY <1>4, <1>7, <2>1, AccountedStays
  <2> QED
    BY <2>1 DEF EmptiedIsAccounted, Accounted
<1>10. TombstoneIsOfTheRecord'
  BY <1>1 DEF SubjectInd, TombstoneIsOfTheRecord
<1>11. req'[r].pc \notin Making
  BY <1>5 DEF Making
<1> QED
  BY <1>6, <1>7, <1>8, <1>9, <1>10, <1>11, StepKeeps

\* The column is written with an entry emptied.
LEMMA EmptyEntryKeepsInd == ASSUME SubjectInd, NEW r \in Request, EmptyEntry(r) PROVE SubjectInd'
<1>1. req[r].pc = "rewrite" /\ UNCHANGED <<row, paused, tombs, overtaken>> /\ Overtake(r, "tomb", TRUE)
  BY DEF EmptyEntry, At
<1>2. PICK status \in {"absent", "forgotten"} :
        WriteContext(r, status) /\ (status = "absent" => req[r].saw[Item(r)] = "absent")
  BY DEF EmptyEntry
<1>3. /\ Item(r) \in Entry /\ req[r].op \in {"forget", "reset"} /\ ~req[r].emptied
      /\ req[r].todo # <<>> /\ req[r].hash = "live"
      /\ Excused(Item(r)) \/ State(Item(r)) \in {"live", "forgotten"}
  BY <1>1, ThisRequest DEF InPlace, Agrees, Emptying, Item
<1>4. status \in Status /\ req[r].pc \in Writing /\ TRUE \in BOOLEAN
  BY <1>1 DEF Status, Writing
<1>5. /\ context' \in [Entry -> Status] /\ lost' \in BOOLEAN
      /\ req' \in [Request -> RequestState]
      /\ req'[r] = [req[r] EXCEPT !.pc = "tomb", !.emptied = TRUE]
      /\ \A q \in Request \ {r} : /\ Untouched(req[q], req'[q])
                                  /\ req[q].pc \in Writing => req'[q].dirty
      /\ lost => lost'
      /\ \A x \in Rec \ {Item(r)} : State(x)' = State(x) \/ Excused(x)'
      /\ \A x \in Rec : x = Item(r) => State(x)' = status
      /\ \A x \in Rec \ {Item(r)} : State(x)' = "forgotten" => Accounted(x)
  BY <1>1, <1>2, <1>3, <1>4, ColumnWritten
<1>6. PICK k \in RequestState : k = req'[r]
  BY <1>5
<1>7. /\ k.op = req[r].op /\ k.pc = "tomb" /\ k.emptied /\ k.todo = req[r].todo
      /\ k.hash = req[r].hash /\ k.base = req[r].base /\ k.who = req[r].who
  BY <1>5, <1>6, ThisRequest DEF RequestState
<1>8. SubjectTypes'
  BY <1>1, <1>5 DEF SubjectInd, SubjectTypes
<1>9. Item(r) \in Rec /\ (Excused(Item(r))' \/ status = "forgotten")
  <2>1. CASE req[r].dirty \/ lost
    <3>1. lost'
      BY <1>2, <2>1, Zenon DEF WriteContext
    <3>2. \A x \in Entry : Excused(x)'
      BY <3>1 DEF Excused
    <3>3. PICK x \in Entry : x = Item(r)
      BY <1>3
    <3>4. Excused(x)'
      BY <3>2
    <3> QED
      BY <1>6, <1>7, <3>3, <3>4 DEF Rec, Item, Excused
  <2>2. CASE ~req[r].dirty /\ ~lost
    <3>1. req[r].saw = context /\ State(Item(r)) \in {"live", "forgotten"}
      BY <1>3, <1>4, <2>2, ThisRequest DEF Saw, Excused
    <3>2. State(Item(r)) = context[Item(r)]
      BY <1>3, RecordAssumption DEF State
    <3> QED
      BY <1>2, <1>3, <3>1, <3>2 DEF Rec
  <2> QED
    BY <2>1, <2>2
<1>10. \A x \in Rec : x = Item(r) => Excused(x)' \/ State(x)' = "forgotten"
  <2>1. ASSUME NEW x \in Rec, x = Item(r) PROVE Excused(x)' \/ State(x)' = "forgotten"
    <3>1. Item(r)' = Item(r)
      BY <1>6, <1>7 DEF Item
    <3> QED
      BY <1>5, <1>9, <2>1, <3>1 DEF Excused
  <2> QED
    BY <2>1
<1>11. RecordsMove(r)
  <2>1. \A x \in Rec : x = Item(r) => Excused(x) \/ State(x) \in {"live", "forgotten"}
    BY <1>3
  <2>2. \A x : Excused(x) => Excused(x)'
    BY <1>5 DEF Excused
  <2> QED
    BY <1>5, <1>10, <2>1, <2>2 DEF RecordsMove
<1>12. Benign(r)
  BY <1>1, <1>3, <1>5, <1>11 DEF Benign
<1>13. Local(r, k)'
  <2>1. InPlace(k)
    BY <1>3, <1>7 DEF InPlace, Making, Emptying
  <2>2. Head(k.todo) = Item(r)
    BY <1>7 DEF Item
  <2>3. PICK x \in Rec : x = Head(k.todo) /\ x = Item(r)
    BY <1>9, <2>2
  <2>4. Excused(x)' \/ State(x)' = "forgotten"
    BY <1>10, <2>3
  <2>5. Agrees(k)'
    BY <1>7, <2>3, <2>4 DEF Agrees, Making, Emptying
  <2>6. Saw(k)' /\ Heeds(r, k)'
    BY <1>7 DEF Saw, Heeds, Making, Writing
  <2>7. Resets(k)' /\ Exports(k)'
    BY <1>1, <1>5, <1>7, <1>11, ResetFollows DEF Emptying
  <2> QED
    BY <2>1, <2>5, <2>6, <2>7 DEF Local
<1>14. EmptiedIsAccounted'
  <2>1. ASSUME NEW x \in Rec, State(x)' = "forgotten" PROVE Accounted(x)'
    <3>1. CASE x = Item(r)
      BY <1>6, <1>7, <3>1 DEF Accounted, Item
    <3>2. CASE x # Item(r)
      BY <1>5, <1>12, <2>1, <3>2, AccountedStays
    <3> QED
      BY <3>1, <3>2
  <2> QED
    BY <2>1 DEF EmptiedIsAccounted, Accounted
<1>15. TombstoneIsOfTheRecord'
  BY <1>1 DEF SubjectInd, TombstoneIsOfTheRecord
<1>16. req'[r].pc \notin Making /\ Local(r, req[r])'
  BY <1>6, <1>7, <1>13 DEF Making
<1> QED
  BY <1>8, <1>12, <1>14, <1>15, <1>16, StepKeeps

-----------------------------------------------------------------------------
\* Every step keeps the invariant.
LEMMA SubjectStepInd == SubjectInd /\ [SubjectNext]_subjectVars => SubjectInd'
<1> SUFFICES ASSUME SubjectInd, [SubjectNext]_subjectVars PROVE SubjectInd'
  OBVIOUS
<1>1. ASSUME NEW r \in Request,
             \/ SetLearningState(r) \/ AppendIdentityContext(r) \/ CreateFact(r)
             \/ CreateRelationship(r) \/ ForgetRecords(r) \/ ResetLearned(r) \/ ExportIdentity(r)
      PROVE  SubjectInd'
  BY <1>1, StartsKeepInd
<1>2. ASSUME NEW r \in Request, SubjectDecide(r) PROVE SubjectInd'
  <2>1. /\ req[r].pc = "decide" /\ UNCHANGED <<row, context, paused, tombs, overtaken, lost>>
        /\ Goto(r, AfterDecide(r)) \/ Goto(r, "refused")
    BY <1>2 DEF SubjectDecide, At
  <2>2. AfterDecide(r) \in Step /\ "refused" \in Step
    BY DEF AfterDecide, Step
  <2> QED
    BY <2>1, <2>2, GotoKeepsInd
<1>3. ASSUME NEW r \in Request, Throw(r) PROVE SubjectInd'
  <2>1. /\ req[r].pc # "idle" /\ Goto(r, "failed")
        /\ UNCHANGED <<row, context, paused, tombs, overtaken, lost>> /\ "failed" \in Step
    BY <1>3 DEF Throw, Step
  <2> QED
    BY <2>1, GotoKeepsInd
<1>4. ASSUME NEW r \in Request,
             \/ AssertLearning(r) \/ ReadContext(r) \/ ReadContextAgain(r) \/ ReadTarget(r)
             \/ LearnedTargets(r) \/ ExportRecords(r) \/ TombstonesFor(r)
      PROVE  SubjectInd'
  BY <1>4, AssertLearningKeepsInd, ReadContextKeepsInd, ReadTargetKeepsInd,
     LearnedTargetsKeepsInd, ExportRecordsKeepsInd, TombstonesForKeepsInd
<1>5. ASSUME NEW r \in Request,
             \/ SetLearning(r) \/ InsertRow(r) \/ AppendEntry(r) \/ EmptyRow(r) \/ EmptyEntry(r)
             \/ LeaveTombstone(r)
      PROVE  SubjectInd'
  BY <1>5, SetLearningKeepsInd, InsertRowKeepsInd, AppendEntryKeepsInd, EmptyRowKeepsInd,
     EmptyEntryKeepsInd, LeaveTombstoneKeepsInd
<1>6. CASE UNCHANGED subjectVars
  <2>1. UNCHANGED <<row, context, paused, tombs, req, overtaken, lost>>
    BY <1>6 DEF subjectVars
  <2>2. (\A x : State(x)' = State(x)) /\ (\A x : Excused(x)' <=> Excused(x))
        /\ (\A x : Accounted(x)' <=> Accounted(x)) /\ (\A i : Learned(i)' = Learned(i))
    BY <2>1, Zenon DEF State, Excused, Accounted, Learned, Buried, Item
  <2>3. SubjectTypes'
    BY <2>1 DEF SubjectInd, SubjectTypes
  <2>4. ASSUME NEW r \in Request PROVE Local(r, req[r])'
    <3>1. PICK k \in RequestState : k = req[r] /\ k = req'[r]
      BY <2>1, ThisRequest
    <3>2. Agrees(k)' /\ Saw(k)' /\ Heeds(r, k)' /\ Resets(k)' /\ Exports(k)'
      BY <2>1, <2>2, <3>1, ThisRequest DEF Agrees, Saw, Heeds, Resets, Exports
    <3> QED
      BY <3>1, <3>2, ThisRequest DEF Local
  <2>5. MakersDiffer' /\ EmptiedIsAccounted' /\ TombstoneIsOfTheRecord'
    BY <2>1, <2>2 DEF SubjectInd, MakersDiffer, EmptiedIsAccounted, TombstoneIsOfTheRecord, Item, Buried
  <2> QED
    BY <2>3, <2>4, <2>5 DEF SubjectInd
<1> QED
  BY <1>1, <1>2, <1>3, <1>4, <1>5, <1>6 DEF SubjectNext

\* Every emptied record has its tombstone or died in the one gap of forget(),
\* and every tombstone is of the record as it was: whatever is forgotten, reset
\* and learned side by side, and whatever throws.
THEOREM RecordsStayAccounted == SubjectSpec => []SubjectInv
<1>1. SubjectInd => SubjectInv
  BY DEF SubjectInd, SubjectInv
<1> QED
  BY <1>1, SubjectInitInd, SubjectStepInd, PTL DEF SubjectSpec

\* A reset that answered has emptied everything it found.
THEOREM ResetsForget == SubjectSpec => []ResetForgetsWhatItFound
<1>1. SubjectInd => ResetForgetsWhatItFound
  <2> SUFFICES ASSUME SubjectInd, NEW r \in Request, req[r].op = "reset", req[r].pc = "done",
                      NEW x \in req[r].base
               PROVE  State(x) = "forgotten" \/ (lost /\ x \in Entry)
    BY DEF ResetForgetsWhatItFound
  <2>1. req[r].todo = <<>>
    BY ThisRequest DEF InPlace
  <2> QED
    BY <2>1, ThisRequest, NothingInEmpty DEF Resets, Excused
<1> QED
  BY <1>1, SubjectInitInd, SubjectStepInd, PTL DEF SubjectSpec

\* An export that answered accounts for every record there was.
THEOREM ExportsAccount == SubjectSpec => []ExportAccountsForRecords
<1>1. SubjectInd => ExportAccountsForRecords
  BY ThisRequest DEF ExportAccountsForRecords, Exports, Excused
<1> QED
  BY <1>1, SubjectInitInd, SubjectStepInd, PTL DEF SubjectSpec

\* While learning about an identity is paused nothing new is recorded about it,
\* but by a request that had checked the identity before the pause.
THEOREM PausesHold == SubjectSpec => PauseHoldsBackRecords
<1> DEFINE Held(r) == req[r].pc \in {"insert", "write"} /\ req'[r].pc = "done" =>
                        \A i \in Range(About[Item(r)]) : paused[i] => <<r, i>> \in overtaken
<1>1. SubjectInd => \A r \in Request : Held(r)
  <2> SUFFICES ASSUME SubjectInd, NEW r \in Request, req[r].pc \in {"insert", "write"},
                      NEW i \in Range(About[Item(r)]), paused[i]
               PROVE  <<r, i>> \in overtaken
    OBVIOUS
  <2>1. req[r].left = <<>> /\ req[r].pc \in Making
    BY ThisRequest DEF InPlace, Making
  <2> QED
    BY <2>1, ThisRequest, NothingInEmpty DEF Heeds, Item
<1>2. SubjectInd /\ [SubjectNext]_subjectVars => [\A r \in Request : Held(r)]_subjectVars
  BY <1>1
<1> QED
  BY <1>2, SubjectInitInd, SubjectStepInd, PTL DEF SubjectSpec, PauseHoldsBackRecords

\* A write of the context column that nobody overtook changes its own entry.
THEOREM OverlapAloneLoses == SubjectSpec => OnlyOverlapLosesContext
<1> DEFINE Kept(r) ==
      req[r].pc \in {"write", "rewrite"} /\ req'[r].pc \in {"done", "tomb"} /\ ~req[r].dirty
        => \A e \in Entry \ {Item(r)} : context'[e] = context[e]
<1>1. SubjectInd /\ [SubjectNext]_subjectVars => [\A r \in Request : Kept(r)]_subjectVars
  <2> SUFFICES ASSUME SubjectInd, SubjectNext, NEW r \in Request, req[r].pc \in {"write", "rewrite"},
                      req'[r].pc \in {"done", "tomb"}, ~req[r].dirty,
                      NEW e \in Entry \ {Item(r)}
               PROVE  context'[e] = context[e]
    BY Zenon
  <2>1. req[r].saw = context
    BY ThisRequest DEF Saw, Writing
  <2>2. PICK q \in Request :
          \/ context' = context
          \/ AppendEntry(q) \/ EmptyEntry(q)
    BY ZenonT(40) DEF SubjectNext, SetLearningState, AppendIdentityContext, CreateFact,
       CreateRelationship,
       ForgetRecords, ResetLearned, ExportIdentity, Start, SubjectDecide, SetLearning,
       AssertLearning, InsertRow, ReadContext, ReadTarget, EmptyRow, ReadContextAgain,
       LeaveTombstone, LearnedTargets, ExportRecords, TombstonesFor, Throw
  <2>3. CASE context' = context
    BY <2>3
  <2>4. CASE AppendEntry(q) \/ EmptyEntry(q)
    <3>1. PICK status, step, emptied : WriteContext(q, status) /\ Overtake(q, step, emptied)
      BY <2>4 DEF AppendEntry, EmptyEntry
    <3>2. CASE q = r
      BY <2>1, <3>1, <3>2 DEF WriteContext
    <3>3. CASE q # r
      <4>1. req'[r].pc = req[r].pc
        BY <3>1, <3>3, ThisRequest DEF Overtake, RequestState
      <4> QED
        BY <4>1
    <3> QED
      BY <3>2, <3>3
  <2> QED
    BY <2>2, <2>3, <2>4
<1> QED
  BY <1>1, SubjectInitInd, SubjectStepInd, PTL DEF SubjectSpec, OnlyOverlapLosesContext

-----------------------------------------------------------------------------
(* Rows updated in place (RecordUpdates).                                  *)

UpdateState ==
  [op : {"none", "corroborate", "measure", "update"}, pc : {"idle", "read", "done"}, vote : Vote,
   fields : SUBSET Field, row : Evidence, seen : SUBSET Update,
   attr : [Field -> Update \cup {Unset}]]
UpdateShapes ==
  /\ evidence \in Evidence /\ outcome \subseteq Update
  /\ attributes \in [Field -> Update \cup {Unset}]
  /\ up \in [Update -> UpdateState]
  /\ merged \subseteq Update /\ raced \subseteq Update /\ IsFiniteSet(merged)

\* A request that has written is merged; an idle one has met nobody.
WrittenAreMerged ==
  /\ \A u \in Update : up[u].pc = "done" <=> u \in merged
  /\ \A u \in raced : up[u].pc # "idle"

\* A row has the status its own counts call for, and counts at most so many
\* votes in favour and against.
RowFits(ev, favour, against) ==
  /\ ev.con > 0 /\ ev.con >= ev.sup => ev.status = "disputed"
  /\ ev.sup > 0 => ev.status # "seed"
  /\ ev.sup <= favour /\ ev.con <= against
Favour == Cardinality(Votes("support"))
Against == Cardinality(Votes("contradict"))
RowStands(ev) == RowFits(ev, Favour, Against)

\* What a request has read was true once, and still is unless it has been raced.
CopiesStand ==
  \A u \in Update : up[u].pc = "read" =>
    /\ RowStands(up[u].row)
    /\ up[u].op = "measure" => up[u].seen \subseteq Done("measure")
    /\ u \notin raced =>
         /\ up[u].op = "corroborate" => up[u].row = evidence
         /\ up[u].op = "measure" => up[u].seen = outcome
         /\ up[u].op = "update" => up[u].attr = attributes

UpdateInd == UpdateShapes /\ WrittenAreMerged /\ CopiesStand /\ UpdatesAreConsistent

-----------------------------------------------------------------------------

\* At first nothing has been written.
LEMMA UpdateInitInd == UpdateInit => UpdateInd
<1> SUFFICES ASSUME UpdateInit PROVE UpdateInd
  OBVIOUS
<1> USE FS_EmptySet DEF UpdateInit
<1>1. UpdateShapes
  BY DEF UpdateShapes, UpdateState, Idle, Row0, Evidence, Vote
<1>2. WrittenAreMerged /\ CopiesStand
  BY DEF WrittenAreMerged, CopiesStand, Idle
<1>3. /\ Done("measure") = {} /\ Done("update") = {}
      /\ Votes("support") = {} /\ Votes("contradict") = {}
  BY DEF Done, Votes
<1>4. UpdatesAreConsistent
  BY <1>3 DEF UpdatesAreConsistent, Row0, Evidence
<1> QED
  BY <1>1, <1>2, <1>4 DEF UpdateInd

\* A read changes no row and nothing of what is done.
LEMMA ReadKeepsInd ==
  ASSUME UpdateInd, NEW u \in Update, NEW op \in {"corroborate", "measure", "update"},
         NEW v \in Vote, NEW fs \in SUBSET Field, Read(u, op, v, fs)
  PROVE  UpdateInd'
<1> DEFINE r == [op |-> op, pc |-> "read", vote |-> v, fields |-> fs,
                 row |-> evidence, seen |-> outcome, attr |-> attributes]
<1>1. /\ up[u].pc = "idle" /\ up' = [up EXCEPT ![u] = r]
      /\ UNCHANGED <<evidence, outcome, attributes, merged, raced>>
  BY DEF Read
<1>2. up \in [Update -> UpdateState] /\ u \notin merged /\ u \notin raced
  BY <1>1 DEF UpdateInd, UpdateShapes, WrittenAreMerged
<1>3. r \in UpdateState
  BY DEF UpdateInd, UpdateShapes, UpdateState
<1>4. up'[u] = r /\ \A w \in Update \ {u} : up'[w] = up[w]
  BY <1>1, <1>2
<1>5. \A o : Done(o)' = Done(o)
  BY <1>1, <1>2, <1>4 DEF Done, UpdateInd, UpdateShapes
<1>6. \A x : Votes(x)' = Votes(x)
  BY <1>1, <1>2, <1>4 DEF Votes, Done, UpdateInd, UpdateShapes
<1>7. \A o : Quiet(o)' <=> Quiet(o)
  BY <1>1, <1>2, <1>4 DEF Quiet, UpdateInd, UpdateShapes
<1>8. UpdateShapes'
  BY <1>1, <1>2, <1>3 DEF UpdateInd, UpdateShapes
<1>9. WrittenAreMerged'
  BY <1>1, <1>2, <1>4 DEF UpdateInd, UpdateShapes, WrittenAreMerged
<1>10. UpdatesAreConsistent'
  <2>1. \A w \in Done("update") : up'[w] = up[w]
    BY <1>2, <1>4 DEF Done, UpdateInd, UpdateShapes
  <2> QED
    BY <1>1, <1>5, <1>6, <1>7, <2>1 DEF UpdateInd, UpdatesAreConsistent
<1>11. CopiesStand'
  <2>1. RowStands(evidence) /\ outcome \subseteq Done("measure")
    BY DEF UpdateInd, UpdatesAreConsistent, RowStands, RowFits, Favour, Against
  <2>2. ASSUME NEW w \in Update, up'[w].pc = "read"
        PROVE  /\ RowStands(up'[w].row)
               /\ up'[w].op = "measure" => up'[w].seen \subseteq Done("measure")
               /\ w \notin raced =>
                    /\ up'[w].op = "corroborate" => up'[w].row = evidence
                    /\ up'[w].op = "measure" => up'[w].seen = outcome
                    /\ up'[w].op = "update" => up'[w].attr = attributes
    BY <1>4, <2>1, <2>2 DEF UpdateInd, CopiesStand
  <2>3. \A ev : RowStands(ev)' <=> RowStands(ev)
    BY <1>6 DEF RowStands, Favour, Against
  <2> QED
    BY <1>1, <1>5, <2>2, <2>3 DEF CopiesStand
<1> QED
  BY <1>8, <1>9, <1>10, <1>11 DEF UpdateInd

\* What a write changes of the requests.
LEMMA WriteMoves ==
  ASSUME UpdateInd, NEW u \in Update, Wrote(u)
  PROVE  /\ up[u].pc = "read" /\ u \notin merged /\ UpdateShapes /\ up[u] \in UpdateState
         /\ up'[u].pc = "done" /\ \A w \in Update \ {u} : up'[w] = up[w]
         /\ up' \in [Update -> UpdateState]
         /\ merged' = merged \cup {u} /\ IsFiniteSet(merged') /\ raced' \subseteq Update
         /\ raced \subseteq raced' /\ \A w \in raced' : up'[w].pc # "idle"
         /\ \A w \in Update \ {u} : up[w].pc = "read" /\ w \notin raced' => up[w].op # up[u].op
         /\ \A w \in Update : up'[w].op = up[w].op /\ up'[w].vote = up[w].vote
                                /\ up'[w].fields = up[w].fields
<1>1. /\ up[u].pc = "read" /\ up' = [up EXCEPT ![u].pc = "done"] /\ merged' = merged \cup {u}
      /\ raced' = raced \cup {w \in Update \ {u} : up[w].pc = "read" /\ up[w].op = up[u].op}
  BY DEF Wrote
<1>2. UpdateShapes /\ up[u] \in UpdateState /\ u \notin merged
  BY <1>1 DEF UpdateInd, UpdateShapes, WrittenAreMerged
<1>3. up' = [up EXCEPT ![u] = [up[u] EXCEPT !.pc = "done"]]
  BY <1>1
<1>4. [up[u] EXCEPT !.pc = "done"] \in UpdateState
  BY <1>2 DEF UpdateState
<1>5. /\ up'[u] = [up[u] EXCEPT !.pc = "done"] /\ \A w \in Update \ {u} : up'[w] = up[w]
      /\ up' \in [Update -> UpdateState]
  BY <1>2, <1>3, <1>4 DEF UpdateShapes
<1>6. \A w \in Update :
        up'[w].op = up[w].op /\ up'[w].vote = up[w].vote /\ up'[w].fields = up[w].fields
  BY <1>2, <1>5 DEF UpdateState
<1>7. /\ IsFiniteSet(merged') /\ raced' \subseteq Update /\ raced \subseteq raced'
      /\ \A w \in Update \ {u} : up[w].pc = "read" /\ w \notin raced' => up[w].op # up[u].op
  BY <1>1, <1>2, FS_AddElement DEF UpdateShapes
<1>8. \A w \in raced' : up'[w].pc # "idle"
  BY <1>1, <1>2, <1>5 DEF UpdateInd, WrittenAreMerged, UpdateShapes, UpdateState
<1>9. up'[u].pc = "done"
  BY <1>2, <1>5 DEF UpdateState
<1> QED
  BY <1>1, <1>2, <1>5, <1>6, <1>7, <1>8, <1>9

\* What it adds to the requests that are done, and to the votes.
LEMMA WriteAdds ==
  ASSUME UpdateInd, NEW u \in Update, Wrote(u)
  PROVE  /\ Done("measure")' =
              IF up[u].op = "measure" THEN Done("measure") \cup {u} ELSE Done("measure")
         /\ Done("update")' =
              IF up[u].op = "update" THEN Done("update") \cup {u} ELSE Done("update")
         /\ Done("update") \subseteq Update
<1>1. /\ merged' = merged \cup {u} /\ \A w \in Update : up'[w].op = up[w].op
      /\ merged \subseteq Update
  BY WriteMoves DEF UpdateShapes
<1> QED
  BY <1>1 DEF Done

\* A write by a caller who votes adds its vote and no other.
LEMMA WriteAddsVote ==
  ASSUME UpdateInd, NEW u \in Update, Wrote(u), NEW v \in Vote
  PROVE  /\ Votes(v) \subseteq merged /\ u \notin Votes(v)
         /\ Votes(v)' = IF up[u].op = "corroborate" /\ up[u].vote = v
                        THEN Votes(v) \cup {u} ELSE Votes(v)
<1>1. /\ merged' = merged \cup {u}
      /\ \A w \in Update : up'[w].op = up[w].op /\ up'[w].vote = up[w].vote
      /\ merged \subseteq Update /\ u \notin merged
  BY WriteMoves DEF UpdateShapes
<1> QED
  BY <1>1 DEF Done, Votes

\* Nobody had raced a request that leaves its row undisturbed.
LEMMA WriteIsQuiet ==
  ASSUME UpdateInd, NEW u \in Update, Wrote(u), NEW op, Quiet(op)'
  PROVE  Quiet(op) /\ (up[u].op = op => u \notin raced)
  BY WriteMoves DEF Quiet, UpdateShapes

\* Votes are counted one at a time.
LEMMA VotesCount ==
  ASSUME UpdateInd, NEW u \in Update, Wrote(u), NEW v \in Vote
  PROVE  /\ Cardinality(Votes(v)) \in Nat
         /\ Cardinality(Votes(v)') =
              Cardinality(Votes(v)) + (IF up[u].op = "corroborate" /\ up[u].vote = v THEN 1 ELSE 0)
<1>1. IsFiniteSet(Votes(v)) /\ u \notin Votes(v)
  BY WriteAddsVote, WriteMoves, FS_Subset DEF UpdateShapes
<1>2. Cardinality(Votes(v)) \in Nat
  BY <1>1, FS_CardinalityType
<1>3. Cardinality(Votes(v) \cup {u}) = Cardinality(Votes(v)) + 1
  BY <1>1, FS_AddElement
<1>4. CASE up[u].op = "corroborate" /\ up[u].vote = v
  <2>1. Votes(v)' = Votes(v) \cup {u}
    BY <1>4, WriteAddsVote, WriteMoves
  <2> QED
    BY <1>2, <1>3, <1>4, <2>1
<1>5. CASE ~(up[u].op = "corroborate" /\ up[u].vote = v)
  <2>1. Votes(v)' = Votes(v)
    BY <1>5, WriteAddsVote, WriteMoves
  <2> QED
    BY <1>2, <1>5, <2>1
<1> QED
  BY <1>4, <1>5

\* The row a corroboration writes stands by itself, whatever has been written
\* since it was read.
LEMMA CorroboratedStands ==
  ASSUME UpdateInd, NEW u \in Update, Wrote(u), up[u].op = "corroborate"
  PROVE  /\ Corroborated(up[u].row, up[u].vote) \in Evidence
         /\ RowFits(Corroborated(up[u].row, up[u].vote), Favour', Against')
<1> DEFINE ev == up[u].row
           sup == ev.sup + (IF up[u].vote = "support" THEN 1 ELSE 0)
           con == ev.con + (IF up[u].vote = "contradict" THEN 1 ELSE 0)
<1>1. ev \in Evidence /\ up[u].vote \in Vote /\ RowStands(ev)
  BY WriteMoves DEF UpdateInd, CopiesStand, UpdateState
<1>2. /\ Favour \in Nat /\ Against \in Nat
      /\ Favour' =
           Favour + (IF up[u].vote = "support" THEN 1 ELSE 0)
      /\ Against' =
           Against + (IF up[u].vote = "contradict" THEN 1 ELSE 0)
  BY VotesCount DEF Vote, Favour, Against
<1>3. sup \in Nat /\ con \in Nat /\ StatusAfter(ev, sup, con) \in {"seed", "proposed", "disputed"}
  BY <1>1 DEF StatusAfter, Evidence
<1>4. Corroborated(ev, up[u].vote) =
        [sup |-> sup, con |-> con, status |-> StatusAfter(ev, sup, con)]
  BY DEF Corroborated
<1>5. sup <= Favour' /\ con <= Against'
  BY <1>1, <1>2 DEF RowStands, RowFits, Evidence
<1>6. /\ con > 0 /\ con >= sup => StatusAfter(ev, sup, con) = "disputed"
      /\ sup > 0 => StatusAfter(ev, sup, con) # "seed"
  BY <1>3 DEF StatusAfter
<1> QED
  <2>1. /\ Corroborated(ev, up[u].vote).sup = sup /\ Corroborated(ev, up[u].vote).con = con
        /\ Corroborated(ev, up[u].vote).status = StatusAfter(ev, sup, con)
    BY <1>4
  <2>2. RowFits(Corroborated(ev, up[u].vote), Favour', Against')
    BY <1>5, <1>6, <2>1 DEF RowFits
  <2> QED
    BY <1>3, <1>4, <2>2 DEF Evidence

\* A row that stood still stands when there are more votes.
LEMMA RowsGoOnStanding ==
  ASSUME UpdateInd, NEW u \in Update, Wrote(u), NEW ev \in Evidence, RowStands(ev)
  PROVE  RowFits(ev, Favour', Against')
<1>1. \A v \in Vote : /\ Cardinality(Votes(v)) \in Nat /\ Cardinality(Votes(v)') \in Nat
                      /\ Cardinality(Votes(v)) <= Cardinality(Votes(v)')
  BY VotesCount
<1> QED
  BY <1>1 DEF RowStands, RowFits, Favour, Against, Evidence, Vote

\* What is left of CopiesStand for the others after a write.
LEMMA OthersStand ==
  ASSUME UpdateInd, NEW u \in Update, Wrote(u),
         up[u].op = "corroborate" \/ evidence' = evidence,
         up[u].op = "measure" \/ outcome' = outcome,
         up[u].op = "update" \/ attributes' = attributes
  PROVE  CopiesStand' /\ WrittenAreMerged'
<1>1. ASSUME NEW w \in Update, up'[w].pc = "read"
      PROVE  /\ RowFits(up'[w].row, Favour', Against')
             /\ up'[w].op = "measure" => up'[w].seen \subseteq Done("measure")'
             /\ w \notin raced' =>
                  /\ up'[w].op = "corroborate" => up'[w].row = evidence'
                  /\ up'[w].op = "measure" => up'[w].seen = outcome'
                  /\ up'[w].op = "update" => up'[w].attr = attributes'
  <2>1. w # u /\ up'[w] = up[w]
    BY <1>1, WriteMoves
  <2>2. up[w].row \in Evidence /\ RowStands(up[w].row)
    BY <1>1, <2>1 DEF UpdateInd, CopiesStand, UpdateShapes, UpdateState
  <2>3. RowFits(up[w].row, Favour', Against')
    BY <2>2, RowsGoOnStanding
  <2>4. Done("measure") \subseteq Done("measure")'
    BY WriteAdds
  <2>5. w \notin raced' => w \notin raced /\ up[w].op # up[u].op
    BY <1>1, <2>1, WriteMoves
  <2> QED
    BY <1>1, <2>1, <2>3, <2>4, <2>5 DEF UpdateInd, CopiesStand, RowStands
<1>2. WrittenAreMerged'
  BY WriteMoves DEF UpdateInd, WrittenAreMerged, UpdateState, UpdateShapes
<1> QED
  BY <1>1, <1>2 DEF CopiesStand, RowStands

\* A request that writes, raced or not, keeps the inductive invariant.
LEMMA WriteKeepsInd ==
  ASSUME UpdateInd, NEW u \in Update,
         CorroborateEvidence(u) \/ MeasureOutcome(u) \/ UpdateIdentity(u)
  PROVE  UpdateInd'
<1>0. Wrote(u)
  BY DEF CorroborateEvidence, MeasureOutcome, UpdateIdentity
<1>1. UpdateShapes'
  <2>1. evidence' \in Evidence
    BY <1>0, CorroboratedStands DEF CorroborateEvidence, MeasureOutcome, UpdateIdentity,
       UpdateInd, UpdateShapes
  <2>2. outcome' \subseteq Update
    BY <1>0, WriteMoves
    DEF CorroborateEvidence, MeasureOutcome, UpdateIdentity, UpdateShapes, UpdateState
  <2>3. attributes' \in [Field -> Update \cup {Unset}]
    <3>1. /\ attributes \in [Field -> Update \cup {Unset}]
          /\ up[u].attr \in [Field -> Update \cup {Unset}]
      BY <1>0, WriteMoves DEF UpdateShapes, UpdateState
    <3> QED
      BY <3>1 DEF CorroborateEvidence, MeasureOutcome, UpdateIdentity
  <2>4. /\ up' \in [Update -> UpdateState] /\ merged' \subseteq Update
        /\ raced' \subseteq Update /\ IsFiniteSet(merged')
    BY <1>0, WriteMoves DEF UpdateShapes
  <2> QED
    BY <2>1, <2>2, <2>3, <2>4 DEF UpdateShapes
<1>2. CopiesStand' /\ WrittenAreMerged'
  BY <1>0, OthersStand DEF CorroborateEvidence, MeasureOutcome, UpdateIdentity
<1>3. RowFits(evidence', Favour', Against')
  <2>1. CASE CorroborateEvidence(u)
    BY <1>0, <2>1, CorroboratedStands DEF CorroborateEvidence
  <2>2. CASE ~CorroborateEvidence(u)
    <3>1. evidence' = evidence /\ evidence \in Evidence /\ RowStands(evidence)
      BY <2>2 DEF MeasureOutcome, UpdateIdentity, UpdateInd, UpdateShapes, UpdatesAreConsistent,
         RowStands, RowFits, Favour, Against
    <3> QED
      BY <1>0, <3>1, RowsGoOnStanding
  <2> QED
    BY <2>1, <2>2
<1>4. Quiet("corroborate")' => /\ evidence'.sup = Favour'
                               /\ evidence'.con = Against'
  <2> SUFFICES ASSUME Quiet("corroborate")'
               PROVE  /\ evidence'.sup = Favour'
                      /\ evidence'.con = Against'
    OBVIOUS
  <2>1. Quiet("corroborate") /\ (up[u].op = "corroborate" => u \notin raced)
    BY <1>0, WriteIsQuiet
  <2>2. evidence.sup = Favour /\ evidence.con = Against
    BY <2>1 DEF UpdateInd, UpdatesAreConsistent, Favour, Against
  <2>3. CASE CorroborateEvidence(u)
    <3>1. /\ up[u].op = "corroborate" /\ up[u].row = evidence
          /\ evidence' = Corroborated(evidence, up[u].vote)
      BY <1>0, <2>1, <2>3, WriteMoves DEF CorroborateEvidence, UpdateInd, CopiesStand
    <3>2. /\ evidence'.sup = evidence.sup + (IF up[u].vote = "support" THEN 1 ELSE 0)
          /\ evidence'.con = evidence.con + (IF up[u].vote = "contradict" THEN 1 ELSE 0)
      BY <3>1 DEF Corroborated
    <3> QED
      BY <1>0, <2>2, <3>1, <3>2, VotesCount DEF Vote, Favour, Against
  <2>4. CASE ~CorroborateEvidence(u)
    <3>1. up[u].op # "corroborate" /\ evidence' = evidence
      BY <2>4 DEF MeasureOutcome, UpdateIdentity
    <3> QED
      BY <1>0, <2>2, <3>1, VotesCount DEF Vote, Favour, Against
  <2> QED
    BY <2>3, <2>4
<1>5. outcome' \subseteq Done("measure")' /\ (Quiet("measure")' => outcome' = Done("measure")')
  <2>1. outcome \subseteq Done("measure") /\ (Quiet("measure") => outcome = Done("measure"))
    BY DEF UpdateInd, UpdatesAreConsistent
  <2>2. CASE MeasureOutcome(u)
    <3>1. /\ up[u].op = "measure" /\ outcome' = up[u].seen \cup {u}
          /\ up[u].seen \subseteq Done("measure") /\ (u \notin raced => up[u].seen = outcome)
      BY <1>0, <2>2, WriteMoves DEF MeasureOutcome, UpdateInd, CopiesStand
    <3> QED
      BY <1>0, <2>1, <3>1, WriteAdds, WriteIsQuiet
  <2>3. CASE ~MeasureOutcome(u)
    <3>1. up[u].op # "measure" /\ outcome' = outcome
      BY <2>3 DEF CorroborateEvidence, UpdateIdentity
    <3> QED
      BY <1>0, <2>1, <3>1, WriteAdds, WriteIsQuiet
  <2> QED
    BY <2>2, <2>3
<1>6. Quiet("update")' => \A f \in Field :
        attributes'[f] = Unset <=> \A w \in Done("update")' : f \notin up'[w].fields
  <2> SUFFICES ASSUME Quiet("update")', NEW f \in Field
               PROVE  attributes'[f] = Unset <=> \A w \in Done("update")' : f \notin up'[w].fields
    OBVIOUS
  <2>1. Quiet("update") /\ (up[u].op = "update" => u \notin raced)
    BY <1>0, WriteIsQuiet
  <2>2. attributes[f] = Unset <=> \A w \in Done("update") : f \notin up[w].fields
    BY <2>1 DEF UpdateInd, UpdatesAreConsistent
  <2>3. Done("update") \subseteq Update /\ \A w \in Update : up'[w].fields = up[w].fields
    BY <1>0, WriteAdds, WriteMoves
  <2>4. CASE UpdateIdentity(u)
    <3>1. up[u].op = "update" /\ up[u].attr = attributes
      BY <1>0, <2>1, <2>4, WriteMoves DEF UpdateIdentity, UpdateInd, CopiesStand
    <3>2. attributes'[f] = IF f \in up[u].fields THEN u ELSE attributes[f]
      BY <2>4, <3>1 DEF UpdateIdentity
    <3>3. Done("update")' = Done("update") \cup {u}
      BY <1>0, <3>1, WriteAdds
    <3> QED
      BY <2>2, <2>3, <3>2, <3>3, UpdateAssumption DEF Unset
  <2>5. CASE ~UpdateIdentity(u)
    <3>1. up[u].op # "update" /\ attributes' = attributes
      BY <2>5 DEF MeasureOutcome, CorroborateEvidence
    <3> QED
      BY <1>0, <2>2, <2>3, <3>1, WriteAdds
  <2> QED
    BY <2>4, <2>5
<1>7. UpdatesAreConsistent'
  BY <1>1, <1>3, <1>4, <1>5, <1>6 DEF UpdatesAreConsistent, RowFits, Favour, Against, UpdateShapes
<1> QED
  BY <1>1, <1>2, <1>7 DEF UpdateInd

\* Every step keeps the inductive invariant.
LEMMA UpdateStepInd == ASSUME UpdateInd, [UpdateNext]_updateVars PROVE UpdateInd'
<1>1. CASE UNCHANGED updateVars
  BY <1>1 DEF updateVars, UpdateInd, UpdateShapes, WrittenAreMerged, CopiesStand, RowStands,
     RowFits, Favour, Against, UpdatesAreConsistent, Done, Votes, Quiet
<1>2. ASSUME NEW u \in Update, ReadEvidence(u) \/ ReadOutcome(u) \/ ReadIdentity(u) PROVE UpdateInd'
  BY <1>2, ReadKeepsInd DEF ReadEvidence, ReadOutcome, ReadIdentity, Vote
<1> QED
  BY <1>1, <1>2, WriteKeepsInd DEF UpdateNext

\* Evidence has the status its own counts call for, and what is counted and
\* stored is at most, and without a race exactly, what requests have done: for
\* any requests and fields.
THEOREM UpdatesStayConsistent == UpdateSpec => []UpdatesAreConsistent
<1>1. UpdateInd => UpdatesAreConsistent
  BY DEF UpdateInd
<1> QED
  BY <1>1, UpdateInitInd, UpdateStepInd, PTL DEF UpdateSpec

-----------------------------------------------------------------------------
(* What a reader of the graph has found while others write. *)

\* The state of a read: what it queues, the paths it found, what it has seen
\* and what was there before it are whatever they are.
ReadsWith(q, p, n, b) ==
  [op : Walks \cup {"none", "pages"}, pc : {"idle", "walk", "consent", "page", "done", "refused"},
   frontier : SUBSET Node, seen : {n}, queue : {q}, paths : {p}, edges : SUBSET Edge,
   depth : Nat, admitted : SUBSET Node, shown : Seq(Nat), before : {b},
   met : SUBSET Edge, valid : SUBSET Consent]
ReadShape(s) == \E q, p, n, b : s \in ReadsWith(q, p, n, b)

\* Every operation has steps of its own.
OwnSteps(s) == (s.pc = "walk" => s.op \in Walks) /\ (s.pc = "page" => s.op = "pages")
\* What a projection under way has noted of the consents in force.
NotesConsent(s, now) == s.op = "project" /\ s.pc \in {"walk", "consent"} => now \subseteq s.valid
Projects(s) ==
  s.op = "project" =>
    /\ s.seen \in SUBSET Node
    /\ s.pc = "done" =>
         /\ s.admitted # {} => s.valid # {}
         /\ Cardinality(s.admitted) <= Budget
         /\ \A e \in s.edges : From[e] \in s.admitted /\ To[e] \in s.admitted
\* The pages are in order and complete as far as they go.
Upto(shown) == IF shown = <<>> THEN 0 ELSE Last(shown)
Rising(shown) == \A i, j \in DOMAIN shown : i < j => shown[i] < shown[j]
Pages(s, there) ==
  s.op = "pages" =>
    /\ s.before \subseteq there /\ Rising(s.shown)
    /\ \A o \in s.before : o <= Upto(s.shown) => o \in Range(s.shown)
    /\ s.pc = "done" => s.before \subseteq Range(s.shown)

ReadInv(r) ==
  /\ ReadShape(rd[r]) /\ OwnSteps(rd[r]) /\ Projects(rd[r])
  /\ NotesConsent(rd[r], Covering) /\ Pages(rd[r], due)
GraphTypeOK ==
  /\ edge \in [Edge -> {"absent", "proposed", "certified", "forgotten"}]
  /\ consent \in [Consent -> {"absent", "active", "revoked"}]
  /\ expired \subseteq Consent /\ due \subseteq Due
  /\ rd = [r \in Reader |-> rd[r]]
GraphInd == GraphTypeOK /\ \A r \in Reader : ReadInv(r)

\* A read that takes a step, and nothing else does.
LEMMA ReaderMoves ==
  ASSUME GraphInd, NEW r \in Reader, NEW s, rd' = [rd EXCEPT ![r] = s],
         UNCHANGED <<edge, consent, expired, due>>,
         ReadShape(s), OwnSteps(s), Projects(s), NotesConsent(s, Covering), Pages(s, due)
  PROVE  GraphInd'
<1>1. rd' = [x \in Reader |-> IF x = r THEN s ELSE rd[x]]
  BY DEF GraphInd, GraphTypeOK
<1>2. rd'[r] = s /\ \A x \in Reader \ {r} : rd'[x] = rd[x]
  BY <1>1
<1>3. GraphTypeOK'
  BY <1>1 DEF GraphInd, GraphTypeOK
<1>4. Covering' = Covering
  BY DEF Covering
<1>5. ASSUME NEW x \in Reader PROVE ReadInv(x)'
  <2>1. CASE x = r
    BY <1>2, <1>4, <2>1 DEF ReadInv
  <2>2. CASE x # r
    BY <1>2, <1>4, <2>2 DEF GraphInd, ReadInv
  <2> QED
    BY <2>1, <2>2
<1> QED
  BY <1>3, <1>5 DEF GraphInd

\* The writers: a relationship, a consent, an obligation.
LEMMA WritersKeepReads ==
  ASSUME GraphAssumption, GraphInd,
         \/ \E e \in Edge : Relate(e) \/ ForgetEdge(e)
         \/ Consents
         \/ \E o \in Due : AddObligation(o)
  PROVE  GraphInd'
<1>1. PICK edges \in SUBSET Edge, covering \in SUBSET Consent :
        /\ \/ Note(edges, covering)
           \/ rd' = rd /\ edges = {} /\ covering = {}
        /\ Covering' \subseteq Covering \cup covering
        /\ due \subseteq due'
  <2>1. ASSUME NEW e \in Edge, Relate(e)
        PROVE  /\ Note({e}, {}) /\ Covering' \subseteq Covering /\ due \subseteq due'
    BY <2>1 DEF Relate, Covering
  <2>2. ASSUME NEW e \in Edge, ForgetEdge(e)
        PROVE  rd' = rd /\ Covering' \subseteq Covering /\ due \subseteq due'
    BY <2>2 DEF ForgetEdge, Covering
  <2>3. ASSUME NEW c \in Consent, Grant(c)
        PROVE  Note({}, {c}) /\ Covering' \subseteq Covering \cup {c} /\ due \subseteq due'
    BY <2>3 DEF Grant, Covering, GraphInd, GraphTypeOK
  <2>4. ASSUME Revoke PROVE rd' = rd /\ Covering' \subseteq Covering /\ due \subseteq due'
    BY <2>4 DEF Revoke, Covering
  <2>5. ASSUME NEW c \in Consent, Expire(c)
        PROVE  rd' = rd /\ Covering' \subseteq Covering /\ due \subseteq due'
    BY <2>5 DEF Expire, Covering
  <2>6. ASSUME NEW o \in Due, AddObligation(o)
        PROVE  rd' = rd /\ Covering' \subseteq Covering /\ due \subseteq due'
    BY <2>6 DEF AddObligation, Covering
  <2>7. CASE \E e \in Edge : Relate(e)
    <3>1. PICK e \in Edge : Relate(e)
      BY <2>7
    <3>2. {e} \in SUBSET Edge /\ {} \in SUBSET Consent /\ Covering \cup {} = Covering
      OBVIOUS
    <3>3. Note({e}, {}) /\ Covering' \subseteq Covering \cup {} /\ due \subseteq due'
      BY <2>1, <3>1, <3>2
    <3> QED
      BY <3>2, <3>3, ZenonT(40)
  <2>8. CASE \E c \in Consent : Grant(c)
    <3>1. PICK c \in Consent : Grant(c)
      BY <2>8
    <3>2. {} \in SUBSET Edge /\ {c} \in SUBSET Consent
      OBVIOUS
    <3>3. Note({}, {c}) /\ Covering' \subseteq Covering \cup {c} /\ due \subseteq due'
      BY <2>3, <3>1
    <3> QED
      BY <3>2, <3>3, ZenonT(40)
  <2>9. CASE \/ \E e \in Edge : ForgetEdge(e)
             \/ Revoke \/ \E c \in Consent : Expire(c)
             \/ \E o \in Due : AddObligation(o)
    <3>1. rd' = rd /\ Covering' \subseteq Covering /\ due \subseteq due'
      BY <2>2, <2>4, <2>5, <2>6, <2>9
    <3>2. /\ {} \in SUBSET Edge /\ {} \in SUBSET Consent
          /\ Covering' \subseteq Covering \cup {}
      BY <3>1
    <3> QED
      BY <3>1, <3>2, ZenonT(40)
  <2> QED
    BY <2>7, <2>8, <2>9 DEF Consents
<1>2. GraphTypeOK'
  <2>1. rd' = [r \in Reader |-> rd'[r]]
    BY <1>1 DEF Note, GraphInd, GraphTypeOK
  <2>2. GraphTypeOK
    BY DEF GraphInd
  <2>3. /\ edge' \in [Edge -> {"absent", "proposed", "certified", "forgotten"}]
        /\ due' \subseteq Due
    BY <2>2 DEF Relate, ForgetEdge, Consents, Grant, Revoke, Expire, AddObligation, GraphTypeOK
  <2>4. consent' \in [Consent -> {"absent", "active", "revoked"}] /\ expired' \subseteq Consent
    BY <2>2 DEF Relate, ForgetEdge, Consents, Grant, Revoke, Expire, AddObligation, GraphTypeOK,
                GraphAssumption
  <2> QED
    BY <2>1, <2>3, <2>4 DEF GraphTypeOK
<1>3. ASSUME NEW r \in Reader PROVE ReadInv(r)'
  <2>1. PICK t : t = rd'[r]
    OBVIOUS
  <2>2. PICK later : later = Covering'
    OBVIOUS
  <2>3. ReadInv(r)
    BY DEF GraphInd
  <2>4. /\ ReadShape(t) /\ OwnSteps(t) /\ Projects(t)
        /\ NotesConsent(t, later) /\ Pages(t, due')
    <3>1. CASE Note(edges, covering)
      <4>1. t = IF rd[r].pc \in {"idle", "done", "refused"} THEN rd[r]
                ELSE [rd[r] EXCEPT !.met = @ \cup edges, !.valid = @ \cup covering]
        BY <2>1, <3>1 DEF Note
      <4>2. /\ ReadShape(t)
            /\ t.op = rd[r].op /\ t.pc = rd[r].pc /\ t.seen = rd[r].seen
            /\ t.admitted = rd[r].admitted /\ t.edges = rd[r].edges
            /\ t.shown = rd[r].shown /\ t.before = rd[r].before
            /\ rd[r].valid \subseteq t.valid
            /\ rd[r].pc \notin {"idle", "done", "refused"} =>
                 t.valid = rd[r].valid \cup covering
        <5>1. PICK s : s = rd[r]
          OBVIOUS
        <5>2. /\ ReadShape(s)
              /\ t = IF s.pc \in {"idle", "done", "refused"} THEN s
                     ELSE [s EXCEPT !.met = @ \cup edges, !.valid = @ \cup covering]
          BY <2>3, <4>1, <5>1 DEF ReadInv
        <5>3. /\ ReadShape(t)
              /\ t.op = s.op /\ t.pc = s.pc /\ t.seen = s.seen /\ t.admitted = s.admitted
              /\ t.edges = s.edges /\ t.shown = s.shown /\ t.before = s.before
              /\ s.valid \subseteq t.valid
              /\ s.pc \notin {"idle", "done", "refused"} => t.valid = s.valid \cup covering
          <6>1. PICK q, p, n, b : s \in ReadsWith(q, p, n, b)
            BY <5>2 DEF ReadShape
          <6>2. t \in ReadsWith(q, p, n, b)
            BY <5>2, <6>1 DEF ReadsWith
          <6>3. ReadShape(t)
            BY <6>2 DEF ReadShape
          <6> QED
            BY <5>2, <6>1, <6>3 DEF ReadsWith
        <5> QED
          BY <5>1, <5>3
      <4>3. OwnSteps(t) /\ Projects(t)
        BY <2>3, <4>2 DEF ReadInv, OwnSteps, Projects
      <4>4. NotesConsent(t, later)
        BY <1>1, <2>2, <2>3, <4>2 DEF ReadInv, NotesConsent
      <4>5. Pages(t, due')
        BY <1>1, <2>3, <4>2 DEF ReadInv, Pages
      <4> QED
        BY <4>2, <4>3, <4>4, <4>5
    <3>2. CASE rd' = rd /\ covering = {}
      <4>1. t = rd[r] /\ later \subseteq Covering /\ due \subseteq due'
        BY <1>1, <2>1, <2>2, <3>2
      <4> QED
        BY <2>3, <4>1 DEF ReadInv, NotesConsent, Pages
    <3> QED
      BY <1>1, <3>1, <3>2
  <2> QED
    BY <2>1, <2>2, <2>4 DEF ReadInv
<1> QED
  BY <1>2, <1>3 DEF GraphInd

\* A reader that reads nothing.
LEMMA NoReadShape ==
  ASSUME GraphAssumption
  PROVE  /\ NoRead \in ReadsWith(<<>>, {}, {Origin}, {})
         /\ NoRead.op = "none" /\ NoRead.pc = "idle"
         /\ NoRead.seen = {Origin} /\ NoRead.shown = <<>>
<1>1. <<>> \in Seq(Nat) /\ 0 \in Nat
  OBVIOUS
<1> QED
  BY <1>1 DEF NoRead, ReadsWith

\* A walk that begins notes the consents in force.
LEMMA StartKeepsReads ==
  ASSUME GraphAssumption, GraphInd, NEW r \in Reader,
         (\E op \in Walks : StartRead(r, op)) \/ StartPages(r)
  PROVE  GraphInd'
<1>1. ASSUME NEW op \in Walks, StartRead(r, op) PROVE GraphInd'
  <2>1. PICK pc \in {"walk", "refused"} :
          rd' = [rd EXCEPT ![r] = [NoRead EXCEPT !.op = op, !.pc = pc, !.frontier = {Origin},
                   !.queue = <<[at |-> Origin, by |-> <<>>]>>, !.before = Followed(op),
                   !.met = Followed(op), !.valid = Covering]]
    BY <1>1 DEF StartRead
  <2>2. PICK q : q = <<[at |-> Origin, by |-> <<>>]>>
    OBVIOUS
  <2>3. PICK s : s = [NoRead EXCEPT !.op = op, !.pc = pc, !.frontier = {Origin},
                        !.queue = q, !.before = Followed(op),
                        !.met = Followed(op), !.valid = Covering]
    OBVIOUS
  <2>4. Followed(op) \in SUBSET Edge /\ Covering \in SUBSET Consent /\ Origin \in Node
    BY DEF Followed, Covering, GraphAssumption
  <2>5. /\ s \in ReadsWith(q, {}, {Origin}, Followed(op))
        /\ s.op = op /\ s.pc = pc /\ s.seen = {Origin} /\ s.valid = Covering
    <3>1. s \in ReadsWith(q, {}, {Origin}, Followed(op))
      BY <2>3, <2>4, NoReadShape DEF ReadsWith, Walks
    <3> QED
      BY <2>3, <3>1, NoReadShape DEF ReadsWith
  <2>6. ReadShape(s) /\ OwnSteps(s) /\ Projects(s) /\ NotesConsent(s, Covering) /\ Pages(s, due)
    BY <2>4, <2>5 DEF ReadShape, OwnSteps, Projects, NotesConsent, Pages, Walks
  <2> QED
    BY <1>1, <2>1, <2>2, <2>3, <2>6, ReaderMoves DEF StartRead
<1>2. ASSUME StartPages(r) PROVE GraphInd'
  <2>1. PICK s : s = [NoRead EXCEPT !.op = "pages", !.pc = "consent", !.before = due]
    OBVIOUS
  <2>2. /\ s \in ReadsWith(<<>>, {}, {Origin}, due)
        /\ s.op = "pages" /\ s.pc = "consent" /\ s.shown = <<>> /\ s.before = due
    <3>1. s \in ReadsWith(<<>>, {}, {Origin}, due)
      BY <2>1, NoReadShape DEF ReadsWith
    <3> QED
      BY <2>1, <3>1, NoReadShape DEF ReadsWith
  <2>3. \A o \in due : ~ (o <= 0)
    BY DEF GraphInd, GraphTypeOK, GraphAssumption
  <2>4. ReadShape(s) /\ OwnSteps(s) /\ Projects(s) /\ NotesConsent(s, Covering)
    BY <2>2 DEF ReadShape, OwnSteps, Projects, NotesConsent
  <2>5. Pages(s, due)
    BY <2>2, <2>3 DEF Pages, Rising, Upto
  <2> QED
    BY <1>2, <2>1, <2>4, <2>5, ReaderMoves DEF StartPages
<1> QED
  BY <1>1, <1>2

\* A hop, and the end of a walk.
LEMMA WalkKeepsReads ==
  ASSUME GraphAssumption, GraphInd, NEW r \in Reader,
         Hop(r) \/ EndWalk(r) \/ SearchNode(r) \/ EndSearch(r) \/ AskConsent(r)
  PROVE  GraphInd'
<1>1. ReadInv(r)
  BY DEF GraphInd
<1>2. PICK q, p, n, b : rd[r] \in ReadsWith(q, p, n, b)
  BY <1>1 DEF ReadInv, ReadShape
<1>3. ASSUME Hop(r) PROVE GraphInd'
  <2>1. PICK next, touched :
          /\ touched = {e \in Followed(rd[r].op) : {From[e], To[e]} \cap rd[r].frontier # {}}
          /\ next = {OtherEnd(e, rd[r].frontier) : e \in touched} \ rd[r].seen
          /\ rd' = [rd EXCEPT ![r].frontier = next, ![r].seen = @ \cup next,
                              ![r].edges = @ \cup touched, ![r].depth = @ + 1]
    BY <1>3 DEF Hop
  <2>2. touched \in SUBSET Edge /\ next \in SUBSET Node
    BY <2>1 DEF Followed, OtherEnd, GraphAssumption
  <2>3. PICK s : s = [rd[r] EXCEPT !.frontier = next, !.seen = @ \cup next,
                        !.edges = @ \cup touched, !.depth = @ + 1]
    OBVIOUS
  <2>4. rd' = [rd EXCEPT ![r] = s]
    BY <2>1, <2>3
  <2>5. /\ s \in ReadsWith(q, p, n \cup next, b)
        /\ s.op = rd[r].op /\ s.pc = rd[r].pc /\ s.valid = rd[r].valid
        /\ s.seen = rd[r].seen \cup next
    <3>1. n = rd[r].seen /\ rd[r].depth + 1 \in Nat /\ rd[r].edges \cup touched \in SUBSET Edge
      BY <1>2, <2>2 DEF ReadsWith
    <3>2. s \in ReadsWith(q, p, n \cup next, b)
      BY <1>2, <2>2, <2>3, <3>1 DEF ReadsWith
    <3> QED
      BY <1>2, <2>3, <3>1, <3>2 DEF ReadsWith
  <2>6. rd[r].pc = "walk" /\ rd[r].op \in Walks
    BY <1>1, <1>3 DEF Hop, ReadInv, OwnSteps
  <2>7. ReadShape(s) /\ OwnSteps(s) /\ Projects(s) /\ NotesConsent(s, Covering) /\ Pages(s, due)
    BY <1>1, <2>2, <2>5, <2>6
    DEF ReadInv, ReadShape, OwnSteps, Projects, NotesConsent, Pages, Walks
  <2> QED
    BY <1>3, <2>4, <2>7, ReaderMoves DEF Hop
<1>4. ASSUME EndWalk(r) \/ EndSearch(r) \/ AskConsent(r) PROVE GraphInd'
  <2>1. PICK pc \in {"consent", "done", "page", "refused"} :
          /\ rd' = [rd EXCEPT ![r].pc = pc]
          /\ rd[r].op = "project" => pc = "consent"
          /\ pc = "page" => rd[r].op = "pages"
          /\ rd[r].op = "pages" => pc # "done"
          /\ rd[r].pc \in {"walk", "consent"}
    <3>1. CASE EndWalk(r)
      BY <1>1, <3>1 DEF EndWalk, ReadInv, OwnSteps, Walks
    <3>2. CASE EndSearch(r)
      BY <1>1, <3>2 DEF EndSearch, ReadInv, OwnSteps, Walks
    <3>3. CASE AskConsent(r)
      BY <3>3 DEF AskConsent
    <3> QED
      BY <1>4, <3>1, <3>2, <3>3
  <2>2. PICK s : s = [rd[r] EXCEPT !.pc = pc]
    OBVIOUS
  <2>3. rd' = [rd EXCEPT ![r] = s]
    BY <2>1, <2>2
  <2>4. /\ s \in ReadsWith(q, p, n, b) /\ s.pc = pc
        /\ s.op = rd[r].op /\ s.valid = rd[r].valid /\ s.seen = rd[r].seen
        /\ s.before = rd[r].before /\ s.shown = rd[r].shown
    BY <1>2, <2>1, <2>2 DEF ReadsWith
  <2>5. ReadShape(s) /\ OwnSteps(s) /\ Projects(s) /\ NotesConsent(s, Covering)
    BY <1>1, <2>1, <2>4 DEF ReadInv, ReadShape, OwnSteps, Projects, NotesConsent, Walks
  <2>6. Pages(s, due)
    BY <1>1, <2>1, <2>4 DEF ReadInv, Pages
  <2> QED
    BY <1>4, <2>3, <2>5, <2>6, ReaderMoves DEF EndWalk, EndSearch, AskConsent
<1>5. ASSUME SearchNode(r) PROVE GraphInd'
  <2>1. PICK queue, seen, paths :
          rd' = [rd EXCEPT ![r].queue = queue, ![r].seen = seen, ![r].paths = paths]
    BY <1>5 DEF SearchNode
  <2>2. PICK s : s = [rd[r] EXCEPT !.queue = queue, !.seen = seen, !.paths = paths]
    OBVIOUS
  <2>3. rd' = [rd EXCEPT ![r] = s]
    BY <2>1, <2>2
  <2>4. s \in ReadsWith(queue, paths, seen, b) /\ s.op = rd[r].op /\ s.pc = rd[r].pc
    BY <1>2, <2>2 DEF ReadsWith
  <2>5. rd[r].op = "paths" /\ rd[r].pc = "walk"
    BY <1>5 DEF SearchNode
  <2>6. ReadShape(s) /\ OwnSteps(s) /\ Projects(s) /\ NotesConsent(s, Covering) /\ Pages(s, due)
    BY <2>4, <2>5 DEF ReadShape, OwnSteps, Projects, NotesConsent, Pages, Walks
  <2> QED
    BY <1>5, <2>3, <2>6, ReaderMoves DEF SearchNode
<1> QED
  BY <1>3, <1>4, <1>5

\* A projection admits what passes the gates, within the budget.
LEMMA ProjectKeepsReads ==
  ASSUME GraphAssumption, GraphInd, NEW r \in Reader, Project(r)
  PROVE  GraphInd'
<1>1. ReadInv(r) /\ rd[r].op = "project" /\ rd[r].pc = "consent"
  BY DEF GraphInd, Project
<1>2. PICK q, p, n, b : rd[r] \in ReadsWith(q, p, n, b)
  BY <1>1 DEF ReadInv, ReadShape
<1> DEFINE passing == {x \in rd[r].seen : Passes(x, Covering # {})}
<1>3. PICK admitted \in SUBSET passing :
        /\ Cardinality(admitted) = IF Cardinality(passing) < Budget
                                   THEN Cardinality(passing) ELSE Budget
        /\ rd' = [rd EXCEPT ![r].pc = "done", ![r].admitted = admitted,
                    ![r].edges = {e \in @ : {From[e], To[e]} \subseteq admitted}]
  BY DEF Project
<1>4. passing \in SUBSET Node /\ admitted \in SUBSET Node
  BY <1>1, <1>3 DEF ReadInv, Projects
<1>5. Cardinality(admitted) <= Budget
  <2>1. IsFiniteSet(passing)
    BY <1>4, FS_Subset DEF GraphAssumption
  <2>2. Cardinality(passing) \in Nat /\ Budget \in Nat
    BY <2>1, FS_CardinalityType DEF GraphAssumption
  <2> QED
    BY <1>3, <2>2
<1>6. admitted # {} => Covering # {}
  BY <1>3 DEF Passes
<1> HIDE DEF passing
<1>7. PICK s : s = [rd[r] EXCEPT !.pc = "done", !.admitted = admitted,
                      !.edges = {e \in @ : {From[e], To[e]} \subseteq admitted}]
  OBVIOUS
<1>8. rd' = [rd EXCEPT ![r] = s]
  BY <1>3, <1>7
<1>9. /\ s \in ReadsWith(q, p, n, b) /\ s.op = "project" /\ s.pc = "done"
      /\ s.admitted = admitted /\ s.valid = rd[r].valid /\ s.seen = rd[r].seen
      /\ \A e \in s.edges : From[e] \in admitted /\ To[e] \in admitted
  BY <1>1, <1>2, <1>4, <1>7 DEF ReadsWith
<1>10. Covering \subseteq rd[r].valid
  BY <1>1 DEF ReadInv, NotesConsent
<1>11. Projects(s)
  BY <1>1, <1>5, <1>6, <1>9, <1>10 DEF Projects, ReadInv
<1>12. ReadShape(s) /\ OwnSteps(s) /\ NotesConsent(s, Covering) /\ Pages(s, due)
  BY <1>9 DEF ReadShape, OwnSteps, NotesConsent, Pages
<1> QED
  BY <1>8, <1>11, <1>12, ReaderMoves DEF Project

\* The rows after a cursor are in order, all of them, and beyond it.
LEMMA RowsAfter ==
  ASSUME GraphAssumption, GraphInd, NEW r \in Reader, NEW rows \in InOrder(After(r))
  PROVE  /\ rows \in Seq(Nat) /\ Len(rows) \in Nat /\ DOMAIN rows = 1 .. Len(rows)
         /\ Rising(rows)
         /\ \A o \in due : o > Cursor(r) => \E i \in 1 .. Len(rows) : rows[i] = o
         /\ \A i \in 1 .. Len(rows) : rows[i] \in Nat /\ rows[i] > Cursor(r)
<1> DEFINE S == After(r)
<1>1. /\ S \subseteq due /\ due \subseteq Nat /\ due \subseteq Due
      /\ \A o \in S : o \in Nat /\ o > Cursor(r)
  BY DEF After, GraphInd, GraphTypeOK, GraphAssumption
<1>2. IsFiniteSet(S)
  BY <1>1, FS_Subset DEF GraphAssumption
<1>3. PICK size \in Nat : size = Cardinality(S)
  BY <1>2, FS_CardinalityType
<1> HIDE DEF S
<1>4. rows \in [1 .. size -> S] /\ Range(rows) = S /\ Rising(rows)
  BY <1>3 DEF InOrder, RowOrders, Rising, S
<1>5. rows \in [1 .. size -> Nat]
  BY <1>1, <1>4
<1>6. rows \in Seq(Nat) /\ Len(rows) = size /\ DOMAIN rows = 1 .. size
  BY <1>5
<1>7. \A o \in due : o > Cursor(r) => \E i \in 1 .. size : rows[i] = o
  BY <1>4 DEF S, After, Range
<1> QED
  BY <1>1, <1>4, <1>6, <1>7

\* Where a place in the longer of two sequences comes from.
LEMMA PlaceIn ==
  ASSUME NEW n \in Nat, NEW m \in Nat, NEW x \in 1 .. n + m
  PROVE  x \in 1 .. n \/ \E k \in 1 .. m : x = n + k
<1>1. CASE x <= n
  BY <1>1
<1>2. CASE n < x
  <2>1. x - n \in 1 .. m /\ x = n + (x - n)
    BY <1>2
  <2> QED
    BY <2>1
<1> QED
  BY <1>1, <1>2

\* What rises beyond a rising sequence makes a longer one.
LEMMA RisingJoins ==
  ASSUME NEW shown \in Seq(Nat), NEW page \in Seq(Nat), Rising(shown), Rising(page),
         \A i \in 1 .. Len(page) : page[i] > Upto(shown)
  PROVE  /\ Rising(shown \o page)
         /\ Upto(shown \o page) = IF page = <<>> THEN Upto(shown) ELSE page[Len(page)]
         /\ Range(shown \o page) = Range(shown) \cup Range(page)
<1>1. PICK n \in Nat, m \in Nat : n = Len(shown) /\ m = Len(page)
  BY LenProperties
<1>2. /\ DOMAIN shown = 1 .. n /\ DOMAIN page = 1 .. m
      /\ \A i \in 1 .. n : shown[i] \in Nat
      /\ \A i \in 1 .. m : page[i] \in Nat
  BY <1>1, LenProperties, ElementOfSeq
<1>3. PICK all \in Seq(Nat) :
        /\ all = shown \o page /\ Len(all) = n + m /\ DOMAIN all = 1 .. n + m
        /\ \A i \in 1 .. n : all[i] = shown[i]
        /\ \A i \in 1 .. m : all[n + i] = page[i]
  <2>1. PICK all \in Seq(Nat) :
          /\ all = shown \o page /\ Len(all) = n + m
          /\ \A i \in 1 .. n + m : all[i] = IF i <= n THEN shown[i] ELSE page[i - n]
    <3>1. /\ shown \o page \in Seq(Nat) /\ Len(shown \o page) = Len(shown) + Len(page)
          /\ \A i \in 1 .. Len(shown) + Len(page) :
               (shown \o page)[i] = IF i <= Len(shown) THEN shown[i] ELSE page[i - Len(shown)]
      BY ConcatProperties
    <3>2. PICK all \in Seq(Nat) : all = shown \o page
      BY <3>1
    <3>3. /\ Len(all) = n + m
          /\ \A i \in 1 .. n + m : all[i] = IF i <= n THEN shown[i] ELSE page[i - n]
      BY <1>1, <3>1, <3>2
    <3> QED
      BY <3>2, <3>3
  <2>2. DOMAIN all = 1 .. n + m
    BY <2>1, LenProperties
  <2>3. ASSUME NEW i \in 1 .. n PROVE all[i] = shown[i]
    BY <2>1
  <2>4. ASSUME NEW i \in 1 .. m PROVE all[n + i] = page[i]
    <3>1. n + i \in 1 .. n + m /\ ~ (n + i <= n) /\ (n + i) - n = i
      OBVIOUS
    <3> QED
      BY <2>1, <3>1
  <2> QED
    BY <2>1, <2>2, <2>3, <2>4
<1>4. PICK last \in Nat :
        /\ last = Upto(shown) /\ (n > 0 => last = shown[n])
        /\ \A i \in 1 .. m : page[i] > last
  BY <1>1, <1>2 DEF Upto, Last
<1>5. ASSUME NEW i \in 1 .. n PROVE shown[i] <= last
  <2>1. n \in DOMAIN shown /\ i \in DOMAIN shown /\ last = shown[n] /\ shown[i] \in Nat
    BY <1>2, <1>4
  <2>2. i < n => shown[i] < shown[n]
    BY <2>1 DEF Rising
  <2> QED
    BY <2>1, <2>2
<1>6. ASSUME NEW i \in 1 .. n + m, NEW j \in 1 .. n + m, i < j PROVE all[i] < all[j]
  <2>1. CASE i \in 1 .. n /\ j \in 1 .. n
    BY <1>2, <1>3, <1>6, <2>1 DEF Rising
  <2>2. CASE i \in 1 .. n /\ \E k \in 1 .. m : j = n + k
    <3>1. all[i] <= last /\ all[i] \in Nat
      BY <1>2, <1>3, <1>5, <2>2
    <3>2. all[j] > last /\ all[j] \in Nat
      BY <1>2, <1>3, <1>4, <2>2
    <3> QED
      BY <3>1, <3>2
  <2>3. CASE (\E k \in 1 .. m : i = n + k) /\ \E k \in 1 .. m : j = n + k
    <3>1. PICK k \in 1 .. m : i = n + k
      BY <2>3
    <3>2. PICK l \in 1 .. m : j = n + l
      BY <2>3
    <3>3. k < l
      BY <1>6, <3>1, <3>2
    <3>4. all[i] = page[k] /\ all[j] = page[l] /\ page[k] < page[l]
      BY <1>2, <1>3, <3>1, <3>2, <3>3 DEF Rising
    <3> QED
      BY <3>4
  <2>4. CASE (\E k \in 1 .. m : i = n + k) /\ j \in 1 .. n
    BY <1>6, <2>4
  <2> QED
    BY <2>1, <2>2, <2>3, <2>4, PlaceIn
<1>7. Upto(all) = IF page = <<>> THEN Upto(shown) ELSE page[m]
  <2>1. CASE page = <<>>
    BY <1>3, <2>1, ConcatEmptySeq
  <2>2. CASE page # <<>>
    <3>1. m > 0 /\ m \in 1 .. m /\ all # <<>>
      BY <1>1, <1>3, <2>2, EmptySeq
    <3> QED
      BY <1>3, <2>2, <3>1 DEF Upto, Last
  <2> QED
    BY <2>1, <2>2
<1>8. Range(all) = Range(shown) \cup Range(page)
  <2>1. ASSUME NEW i \in 1 .. n + m PROVE all[i] \in Range(shown) \cup Range(page)
    <3>1. CASE i \in 1 .. n
      BY <1>2, <1>3, <3>1 DEF Range
    <3>2. CASE \E k \in 1 .. m : i = n + k
      BY <1>2, <1>3, <3>2 DEF Range
    <3> QED
      BY <3>1, <3>2, PlaceIn
  <2>2. ASSUME NEW i \in 1 .. n PROVE shown[i] \in Range(all)
    <3>1. i \in 1 .. n + m /\ all[i] = shown[i]
      BY <1>3
    <3> QED
      BY <1>3, <3>1 DEF Range
  <2>3. ASSUME NEW i \in 1 .. m PROVE page[i] \in Range(all)
    <3>1. n + i \in 1 .. n + m /\ all[n + i] = page[i]
      BY <1>3
    <3> QED
      BY <1>3, <3>1 DEF Range
  <2>4. Range(all) \subseteq Range(shown) \cup Range(page)
    BY <1>3, <2>1 DEF Range
  <2>5. Range(shown) \subseteq Range(all)
    BY <1>2, <2>2 DEF Range
  <2>6. Range(page) \subseteq Range(all)
    BY <1>2, <2>3 DEF Range
  <2> QED
    BY <2>4, <2>5, <2>6
<1>9. Rising(all)
  BY <1>3, <1>6 DEF Rising
<1> QED
  BY <1>1, <1>3, <1>7, <1>8, <1>9

\* The cursor is a number.
LEMMA UptoIsNat ==
  ASSUME NEW shown \in Seq(Nat)
  PROVE  Upto(shown) \in Nat
<1>1. CASE shown = <<>>
  BY <1>1 DEF Upto
<1>2. CASE shown # <<>>
  <2>1. Len(shown) \in 1 .. Len(shown)
    BY <1>2, LenProperties, EmptySeq
  <2>2. shown[Len(shown)] \in Nat
    BY <2>1, ElementOfSeq
  <2> QED
    BY <1>2, <2>2 DEF Upto, Last
<1> QED
  BY <1>1, <1>2

\* A page goes on where the last one ended.
LEMMA PageKeepsReads ==
  ASSUME GraphAssumption, GraphInd, NEW r \in Reader, NextPage(r)
  PROVE  GraphInd'
<1>1. ReadInv(r) /\ rd[r].op = "pages" /\ rd[r].pc = "page"
  BY DEF GraphInd, ReadInv, NextPage, OwnSteps
<1>2. PICK q, p, n, b : rd[r] \in ReadsWith(q, p, n, b)
  BY <1>1 DEF ReadInv, ReadShape
<1>3. PICK rows \in InOrder(After(r)) :
        rd' = [rd EXCEPT ![r].shown = @ \o (IF Len(rows) > PageSize THEN SubSeq(rows, 1, PageSize)
                                             ELSE rows),
                         ![r].pc = IF Len(rows) > PageSize THEN "consent" ELSE "done"]
  BY DEF NextPage
<1>4. PICK total \in Nat :
        /\ total = Len(rows) /\ rows \in Seq(Nat) /\ Rising(rows) /\ DOMAIN rows = 1 .. total
        /\ \A o \in due : o > Cursor(r) => \E i \in 1 .. total : rows[i] = o
        /\ \A i \in 1 .. total : rows[i] \in Nat /\ rows[i] > Cursor(r)
  BY <1>3, RowsAfter
<1>5. PICK limit \in Nat : limit = PageSize /\ limit > 0
  BY DEF GraphAssumption
<1>6. PICK page \in Seq(Nat) :
        page = IF Len(rows) > PageSize THEN SubSeq(rows, 1, PageSize) ELSE rows
  <2>1. \A i \in 1 .. limit : total > limit => rows[i] \in Nat
    BY <1>4
  <2>2. total > limit => SubSeq(rows, 1, limit) \in Seq(Nat)
    BY <2>1, SubSeqProperties
  <2> QED
    BY <1>4, <1>5, <2>2
<1>7. /\ Len(page) \in Nat /\ Len(page) = IF total > limit THEN limit ELSE total
      /\ \A i \in 1 .. Len(page) : i \in 1 .. total /\ page[i] = rows[i]
  <2>1. CASE total > limit
    <3>1. page = SubSeq(rows, 1, limit) /\ \A i \in 1 .. limit : rows[i] \in Nat
      BY <1>4, <1>5, <1>6, <2>1
    <3>2. Len(page) = limit /\ \A i \in 1 .. limit : page[i] = rows[1 + i - 1]
      BY <1>5, <3>1, SubSeqProperties
    <3> QED
      BY <1>4, <1>5, <2>1, <3>2
  <2>2. CASE total <= limit
    BY <1>4, <1>5, <1>6, <2>2
  <2> QED
    BY <2>1, <2>2
<1>8. PICK shown \in Seq(Nat) : shown = rd[r].shown /\ Cursor(r) = Upto(shown) /\ Rising(shown)
  BY <1>1, <1>2 DEF ReadsWith, Cursor, Upto, ReadInv, Pages
<1>9. Rising(page) /\ DOMAIN page = 1 .. Len(page)
  BY <1>4, <1>7, LenProperties DEF Rising
<1>10. /\ Rising(shown \o page) /\ shown \o page \in Seq(Nat)
       /\ Upto(shown \o page) = IF page = <<>> THEN Upto(shown) ELSE page[Len(page)]
       /\ Range(shown \o page) = Range(shown) \cup Range(page)
  BY <1>4, <1>7, <1>8, <1>9, RisingJoins, ConcatProperties
<1>11. ASSUME NEW o \in rd[r].before, o \notin Range(shown \o page)
       PROVE  total > limit /\ o > Upto(shown \o page)
  <2>1. o \in due /\ o \in Nat /\ ~ (o <= Upto(shown)) /\ Upto(shown) \in Nat
    <3>1. o \in due /\ o \in Nat
      BY <1>1 DEF ReadInv, Pages, GraphInd, GraphTypeOK, GraphAssumption
    <3>2. ~ (o <= Upto(shown))
      BY <1>1, <1>8, <1>10, <1>11 DEF ReadInv, Pages
    <3>3. Upto(shown) \in Nat
      BY <1>8, UptoIsNat
    <3> QED
      BY <3>1, <3>2, <3>3
  <2>2. PICK i \in 1 .. total : rows[i] = o
    <3>1. o > Cursor(r)
      BY <1>8, <2>1
    <3> QED
      BY <1>4, <2>1, <3>1
  <2>3. ~ (i <= Len(page))
    <3>1. ASSUME i <= Len(page) PROVE o \in Range(page)
      <4>1. i \in DOMAIN page /\ page[i] = o
        BY <1>7, <1>9, <2>2, <3>1
      <4> QED
        BY <4>1 DEF Range
    <3> QED
      BY <1>10, <1>11, <3>1
  <2>4. total > limit /\ Len(page) = limit /\ limit \in 1 .. total /\ limit < i
    BY <1>5, <1>7, <2>3
  <2>5. page[limit] = rows[limit] /\ rows[limit] < rows[i] /\ page # <<>>
    <3>1. limit \in DOMAIN rows /\ i \in DOMAIN rows
      BY <1>4, <2>2, <2>4
    <3>2. rows[limit] < rows[i]
      BY <1>4, <2>4, <3>1 DEF Rising
    <3>3. limit \in 1 .. Len(page) /\ Len(page) # 0
      BY <1>5, <2>4
    <3> QED
      BY <1>7, <3>2, <3>3
  <2>6. o > page[limit]
    BY <1>4, <2>1, <2>2, <2>4, <2>5
  <2> QED
    BY <1>10, <2>4, <2>5, <2>6
<1>12. PICK s : s = [rd[r] EXCEPT !.shown = shown \o page,
                       !.pc = IF total > limit THEN "consent" ELSE "done"]
  OBVIOUS
<1>13. rd' = [rd EXCEPT ![r] = s]
  <2>1. rd' = [rd EXCEPT ![r].shown = @ \o page,
                         ![r].pc = IF total > limit THEN "consent" ELSE "done"]
    BY <1>3, <1>4, <1>5, <1>6
  <2> QED
    BY <1>8, <1>12, <2>1
<1>14. /\ s \in ReadsWith(q, p, n, b) /\ s.op = "pages" /\ s.shown = shown \o page
       /\ s.before = rd[r].before /\ s.pc = IF total > limit THEN "consent" ELSE "done"
  BY <1>1, <1>2, <1>10, <1>12 DEF ReadsWith
<1>15. ReadShape(s) /\ OwnSteps(s) /\ Projects(s) /\ NotesConsent(s, Covering)
  BY <1>14 DEF ReadShape, OwnSteps, Projects, NotesConsent
<1>16. Pages(s, due)
  <2>1. \A o \in s.before : o > Upto(s.shown) => ~ (o <= Upto(s.shown))
    <3>1. ASSUME NEW o \in s.before PROVE o \in Nat
      BY <1>1, <1>14 DEF ReadInv, Pages, GraphInd, GraphTypeOK, GraphAssumption
    <3>2. Upto(shown \o page) \in Nat
      BY <1>10, UptoIsNat
    <3> QED
      BY <1>14, <3>1, <3>2
  <2> QED
    BY <1>1, <1>10, <1>11, <1>14, <2>1 DEF ReadInv, Pages
<1> QED
  BY <1>13, <1>15, <1>16, ReaderMoves DEF NextPage

\* No read has begun.
LEMMA InitGraphInd == GraphAssumption /\ GraphInit => GraphInd
<1> SUFFICES ASSUME GraphAssumption, GraphInit PROVE GraphInd
  OBVIOUS
<1>1. GraphTypeOK
  BY DEF GraphInit, GraphTypeOK
<1>2. ASSUME NEW r \in Reader PROVE ReadInv(r)
  <2>1. rd[r] = NoRead
    BY DEF GraphInit
  <2> QED
    BY <2>1, NoReadShape DEF ReadInv, ReadShape, OwnSteps, Projects, NotesConsent, Pages
<1> QED
  BY <1>1, <1>2 DEF GraphInd

\* Every step keeps what the readers have found.
LEMMA ReadsKept == GraphAssumption /\ GraphInd /\ [GraphNext]_graphVars => GraphInd'
<1> SUFFICES ASSUME GraphAssumption, GraphInd, [GraphNext]_graphVars PROVE GraphInd'
  OBVIOUS
<1>1. CASE UNCHANGED graphVars
  <2>1. Covering' = Covering
    BY <1>1 DEF graphVars, Covering
  <2> QED
    BY <1>1, <2>1 DEF graphVars, GraphInd, GraphTypeOK, ReadInv
<1>2. ASSUME NEW r \in Reader,
             \/ \E op \in Walks : StartRead(r, op)
             \/ Hop(r) \/ EndWalk(r) \/ SearchNode(r) \/ EndSearch(r) \/ Project(r)
             \/ StartPages(r) \/ AskConsent(r) \/ NextPage(r)
      PROVE  GraphInd'
  BY <1>2, StartKeepsReads, WalkKeepsReads, ProjectKeepsReads, PageKeepsReads
<1>3. CASE \/ \E e \in Edge : Relate(e) \/ ForgetEdge(e)
           \/ Consents
           \/ \E o \in Due : AddObligation(o)
  BY <1>3, WritersKeepReads
<1> QED
  BY <1>1, <1>2, <1>3 DEF GraphNext, WalkNext, PageNext

\* A projection shows nothing that no consent in force at some moment of the
\* request covered, whatever is granted, revoked and expired beside it.
THEOREM ProjectionsNeedConsent == GraphSpec => []ProjectionNeedsConsent
<1>1. GraphInd => ProjectionNeedsConsent
  BY DEF GraphInd, ReadInv, Projects, ProjectionNeedsConsent
<1> QED
  BY <1>1, InitGraphInd, ReadsKept, GraphAssumption, PTL DEF GraphSpec

\* A client that follows the cursor misses no obligation that was there when it
\* began and meets none twice.
THEOREM PagesStayComplete == GraphSpec => []PagesAreComplete
<1>1. GraphInd => PagesAreComplete
  BY DEF GraphInd, ReadInv, Pages, Rising, PagesAreComplete
<1> QED
  BY <1>1, InitGraphInd, ReadsKept, GraphAssumption, PTL DEF GraphSpec

-----------------------------------------------------------------------------
(* How far the walks see. *)

\* A set of numbers that is not empty has a least member.
LEMMA NatMin ==
  ASSUME NEW T \in SUBSET Nat, T # {}
  PROVE  \E x \in T : \A y \in T : x <= y
<1>1. IsWellFoundedOn(OpToRel(<, Nat), Nat)
  BY NatLessThanWellFounded
<1>2. PICK R : R = OpToRel(<, Nat)
  OBVIOUS
<1>3. \A m, n \in Nat : m < n => <<m, n>> \in R
  BY <1>2 DEF OpToRel
<1>4. PICK x \in T : \A y \in T : <<y, x>> \notin R
  BY <1>1, <1>2, WFMin
<1>5. ASSUME NEW y \in T PROVE x <= y
  <2>1. x \in Nat /\ y \in Nat /\ ~ (y < x)
    BY <1>3, <1>4
  <2> QED
    BY <2>1
<1> QED
  BY <1>5

\* What holds at the first place of a range, and at the next if at the one
\* before, fails nowhere in it: good is the set of places where it holds.
LEMMA HoldsThroughout ==
  ASSUME NEW n \in Nat, NEW good, 0 \in good,
         \A k \in 1 .. n : k - 1 \in good => k \in good
  PROVE  \A k \in 0 .. n : k \in good
<1> DEFINE Wrong == {k \in 0 .. n : k \notin good}
<1> SUFFICES ASSUME Wrong # {} PROVE FALSE
  OBVIOUS
<1>1. PICK k \in Wrong : \A o \in Wrong : k <= o
  <2>1. Wrong \in SUBSET Nat
    OBVIOUS
  <2> QED
    BY <2>1, NatMin
<1>2. k \in 0 .. n /\ k \notin good /\ k # 0
  OBVIOUS
<1>3. k \in 1 .. n /\ k - 1 \in 0 .. n /\ ~ (k <= k - 1)
  BY <1>2
<1>4. k - 1 \notin Wrong
  BY <1>1, <1>3
<1> QED
  BY <1>2, <1>3, <1>4

-----------------------------------------------------------------------------
(* The nodes near Origin. *)

\* The nodes that the edges lead to from a set of nodes.
Onward(op, edges, S) == {b \in Node : \E a \in S, e \in edges : Leads(op, e, a, b)}
Further(op, edges, S) == S \cup Onward(op, edges, S)

\* Nearness is what its definition says.
LEMMA NearIs ==
  ASSUME GraphAssumption, NEW op, NEW edges
  PROVE  /\ Near(op, edges)[0] = {Origin}
         /\ \A n \in 1 .. MaxHops :
              Near(op, edges)[n] = Near(op, edges)[n - 1] \cup Onward(op, edges, Near(op, edges)[n - 1])
<1> DEFINE Fits(f, m) ==
      f = [n \in 0 .. m |-> IF n = 0 THEN {Origin} ELSE Further(op, edges, f[n - 1])]
           Good == {m \in Nat : \E f : Fits(f, m)}
<1>0. MaxHops \in Nat
  BY DEF GraphAssumption
<1>1. 0 \in Good
  <2>1. PICK f : f = [k \in 0 .. 0 |-> {Origin}]
    OBVIOUS
  <2>2. Fits(f, 0)
    BY <2>1
  <2> QED
    BY <2>2
<1>2. ASSUME NEW m \in 1 .. MaxHops, m - 1 \in Good PROVE m \in Good
  <2>1. PICK l \in Nat : l = m - 1 /\ m = l + 1
    BY <1>0, <1>2
  <2>2. PICK f : Fits(f, l)
    BY <1>2, <2>1
  <2>3. PICK g : g = [k \in 0 .. m |-> IF k = 0 THEN {Origin} ELSE Further(op, edges, f[k - 1])]
    OBVIOUS
  <2>4. \A k \in 0 .. l : k \in 0 .. m /\ g[k] = f[k]
    <3>1. \A k \in 0 .. l : f[k] = IF k = 0 THEN {Origin} ELSE Further(op, edges, f[k - 1])
      BY <2>2, Zenon
    <3>2. \A k \in 0 .. m : g[k] = IF k = 0 THEN {Origin} ELSE Further(op, edges, f[k - 1])
      BY <2>3, Zenon
    <3>3. \A k \in 0 .. l : k \in 0 .. m
      BY <2>1
    <3> QED
      BY <3>1, <3>2, <3>3
  <2>5. \A k \in 0 .. m : k # 0 => k - 1 \in 0 .. l
    BY <2>1
  <2>6. \A k \in 0 .. m : g[k] = IF k = 0 THEN {Origin} ELSE Further(op, edges, g[k - 1])
    BY <2>3, <2>4, <2>5
  <2>7. Fits(g, m)
    BY <2>3, <2>6
  <2> QED
    BY <2>1, <2>7
<1>3. \E f : Fits(f, MaxHops)
  <2>1. MaxHops \in 0 .. MaxHops
    BY <1>0
  <2>2. \A k \in 0 .. MaxHops : k \in Good
    <3> HIDE DEF Good
    <3> QED
      BY <1>0, <1>1, <1>2, HoldsThroughout
  <2> QED
    BY <2>1, <2>2
<1>4. Near(op, edges) = CHOOSE f : Fits(f, MaxHops)
  BY DEF Near, Further, Onward
<1>5. Fits(CHOOSE f : Fits(f, MaxHops), MaxHops)
  <2> HIDE DEF Fits
  <2> QED
    BY <1>3, Zenon
<1>6. PICK h : h = Near(op, edges)
  OBVIOUS
<1>7. Fits(h, MaxHops)
  BY <1>4, <1>5, <1>6
<1>8. h[0] = {Origin}
  BY <1>0, <1>7
<1>9. \A n \in 1 .. MaxHops : h[n] = Further(op, edges, h[n - 1])
  <2>1. \A n \in 0 .. MaxHops : h[n] = IF n = 0 THEN {Origin} ELSE Further(op, edges, h[n - 1])
    BY <1>7, Zenon
  <2> QED
    BY <1>0, <2>1
<1> QED
  BY <1>6, <1>8, <1>9 DEF Further

\* Near nodes are nodes, Origin among them.
LEMMA NearAreNodes ==
  ASSUME GraphAssumption, NEW op, NEW edges
  PROVE  \A n \in 0 .. MaxHops : Near(op, edges)[n] \in SUBSET Node /\ Origin \in Near(op, edges)[n]
<1> DEFINE Good == {n \in Nat : Near(op, edges)[n] \in SUBSET Node /\ Origin \in Near(op, edges)[n]}
<1>0. MaxHops \in Nat /\ Origin \in Node
  BY DEF GraphAssumption
<1>1. 0 \in Good
  BY <1>0, NearIs
<1>2. ASSUME NEW n \in 1 .. MaxHops, n - 1 \in Good PROVE n \in Good
  <2>1. Near(op, edges)[n] = Near(op, edges)[n - 1] \cup Onward(op, edges, Near(op, edges)[n - 1])
    BY NearIs
  <2> QED
    BY <1>0, <1>2, <2>1 DEF Onward
<1>3. \A n \in 0 .. MaxHops : n \in Good
  <2> HIDE DEF Good
  <2> QED
    BY <1>0, <1>1, <1>2, HoldsThroughout
<1> QED
  BY <1>3

\* More hops lead no less far.
LEMMA NearRises ==
  ASSUME GraphAssumption, NEW op, NEW edges, NEW m \in 0 .. MaxHops
  PROVE  \A n \in 0 .. MaxHops : m <= n => Near(op, edges)[m] \subseteq Near(op, edges)[n]
<1> DEFINE Good == {n \in Nat : m <= n => Near(op, edges)[m] \subseteq Near(op, edges)[n]}
<1>0. MaxHops \in Nat /\ m \in Nat
  BY DEF GraphAssumption
<1>1. 0 \in Good
  BY <1>0
<1>2. ASSUME NEW n \in 1 .. MaxHops, n - 1 \in Good PROVE n \in Good
  <2>1. Near(op, edges)[n - 1] \subseteq Near(op, edges)[n]
    BY NearIs
  <2>2. n \in Nat /\ (m <= n => m <= n - 1 \/ m = n)
    BY <1>0
  <2> QED
    BY <1>2, <2>1, <2>2
<1>3. \A n \in 0 .. MaxHops : n \in Good
  <2> HIDE DEF Good
  <2> QED
    BY <1>0, <1>1, <1>2, HoldsThroughout
<1> QED
  BY <1>3

\* More edges lead no less far.
LEMMA NearGrows ==
  ASSUME GraphAssumption, NEW op, NEW E, NEW F, E \subseteq F
  PROVE  \A n \in 0 .. MaxHops : Near(op, E)[n] \subseteq Near(op, F)[n]
<1> DEFINE Good == {n \in Nat : Near(op, E)[n] \subseteq Near(op, F)[n]}
<1>0. MaxHops \in Nat
  BY DEF GraphAssumption
<1>1. 0 \in Good
  BY <1>0, NearIs
<1>2. ASSUME NEW n \in 1 .. MaxHops, n - 1 \in Good PROVE n \in Good
  <2>1. /\ Near(op, E)[n] = Near(op, E)[n - 1] \cup Onward(op, E, Near(op, E)[n - 1])
        /\ Near(op, F)[n] = Near(op, F)[n - 1] \cup Onward(op, F, Near(op, F)[n - 1])
    BY NearIs
  <2> QED
    BY <1>0, <1>2, <2>1 DEF Onward
<1>3. \A n \in 0 .. MaxHops : n \in Good
  <2> HIDE DEF Good
  <2> QED
    BY <1>0, <1>1, <1>2, HoldsThroughout
<1> QED
  BY <1>3

\* The edges lead from a node to members of S only.
Closed(op, edges, v, S) == \A e \in edges, w \in Node : Leads(op, e, v, w) => w \in S

\* A set that the edges do not lead out of has all that is near.
LEMMA ClosedHolds ==
  ASSUME GraphAssumption, NEW op, NEW edges, NEW S, Origin \in S,
         \A v \in S : Closed(op, edges, v, S)
  PROVE  \A n \in 0 .. MaxHops : Near(op, edges)[n] \subseteq S
<1> DEFINE Good == {n \in Nat : Near(op, edges)[n] \subseteq S}
<1>0. MaxHops \in Nat
  BY DEF GraphAssumption
<1>1. 0 \in Good
  BY <1>0, NearIs
<1>2. ASSUME NEW n \in 1 .. MaxHops, n - 1 \in Good PROVE n \in Good
  <2>1. Near(op, edges)[n] = Near(op, edges)[n - 1] \cup Onward(op, edges, Near(op, edges)[n - 1])
    BY NearIs
  <2> QED
    BY <1>0, <1>2, <2>1 DEF Onward, Closed
<1>3. \A n \in 0 .. MaxHops : n \in Good
  <2> HIDE DEF Good
  <2> QED
    BY <1>0, <1>1, <1>2, HoldsThroughout
<1> QED
  BY <1>3

\* One hop further: from the nodes that are near, to where their edges lead.
LEMMA NearNext ==
  ASSUME GraphAssumption, NEW op, NEW edges, NEW S, NEW n \in 0 .. MaxHops - 1,
         \A v \in Near(op, edges)[n] : v \in S /\ Closed(op, edges, v, S)
  PROVE  Near(op, edges)[n + 1] \subseteq S
<1>1. n + 1 \in 1 .. MaxHops /\ (n + 1) - 1 = n
  BY DEF GraphAssumption
<1>2. Near(op, edges)[n + 1] = Near(op, edges)[n] \cup Onward(op, edges, Near(op, edges)[n])
  BY <1>1, NearIs
<1> QED
  BY <1>2 DEF Onward, Closed

-----------------------------------------------------------------------------
(* Hops. *)

\* A walk of d hops: it saw what is near over edges that stayed, nothing that is
\* not near over those it could have met, and only the frontier is still open.
Hops(op, stayed, met, seen, frontier, d) ==
  /\ d \in 0 .. MaxHops /\ seen \in SUBSET Node /\ Origin \in seen /\ frontier \subseteq seen
  /\ seen \subseteq Near(op, met)[d] /\ Near(op, stayed)[d] \subseteq seen
  /\ \A v \in seen \ frontier : Closed(op, stayed, v, seen)

\* A walk begins at Origin.
LEMMA HopsBegin ==
  ASSUME GraphAssumption, NEW op, NEW stayed, NEW met
  PROVE  Hops(op, stayed, met, {Origin}, {Origin}, 0)
BY NearIs DEF Hops, GraphAssumption

\* Fewer edges stay and more are met while a walk is under way.
LEMMA HopsStay ==
  ASSUME GraphAssumption, NEW op, NEW stayed, NEW met, NEW seen, NEW frontier, NEW d,
         Hops(op, stayed, met, seen, frontier, d),
         NEW stayed2, NEW met2, stayed2 \subseteq stayed, met \subseteq met2
  PROVE  Hops(op, stayed2, met2, seen, frontier, d)
<1>1. d \in 0 .. MaxHops
  BY DEF Hops
<1>2. Near(op, stayed2)[d] \subseteq Near(op, stayed)[d] /\ Near(op, met)[d] \subseteq Near(op, met2)[d]
  BY <1>1, NearGrows
<1> QED
  BY <1>2 DEF Hops, Closed

\* One SELECT: the relationships that touch the frontier, and where they lead.
Hopped(F, seen, frontier, touched, next) ==
  /\ touched = {e \in F : {From[e], To[e]} \cap frontier # {}}
  /\ next = {OtherEnd(e, frontier) : e \in touched} \ seen

\* One SELECT is one hop.
LEMMA HopsGoOn ==
  ASSUME GraphAssumption, NEW op, op # "paths", NEW F \in SUBSET Edge, NEW stayed \in SUBSET F,
         NEW met, F \subseteq met, NEW seen, NEW frontier, NEW d, d < MaxHops,
         Hops(op, stayed, met, seen, frontier, d),
         NEW touched, NEW next, Hopped(F, seen, frontier, touched, next)
  PROVE  Hops(op, stayed, met, seen \cup next, next, d + 1)
<1>0. /\ MaxHops \in Nat /\ d \in 0 .. MaxHops /\ d \in 0 .. MaxHops - 1 /\ d + 1 \in 1 .. MaxHops
      /\ d + 1 \in 0 .. MaxHops /\ (d + 1) - 1 = d
  BY DEF Hops, GraphAssumption
<1>1. \A e \in F : From[e] \in Node /\ To[e] \in Node
  BY DEF GraphAssumption
<1>a. /\ touched = {e \in F : {From[e], To[e]} \cap frontier # {}}
      /\ next = {OtherEnd(e, frontier) : e \in touched} \ seen
  BY DEF Hopped
<1>2. next \in SUBSET Node
  BY <1>1, <1>a DEF OtherEnd
<1>3. next \subseteq Onward(op, met, seen)
  <2>1. ASSUME NEW e \in touched PROVE OtherEnd(e, frontier) \in Onward(op, met, seen)
    BY <1>1, <1>a, <2>1 DEF OtherEnd, Onward, Leads, Hops
  <2> QED
    BY <1>a, <2>1
<1>4. seen \cup next \subseteq Near(op, met)[d + 1]
  <2>1. Near(op, met)[d + 1] = Near(op, met)[d] \cup Onward(op, met, Near(op, met)[d])
    BY <1>0, NearIs
  <2>2. Onward(op, met, seen) \subseteq Onward(op, met, Near(op, met)[d])
    BY DEF Hops, Onward
  <2> QED
    BY <1>3, <2>1, <2>2 DEF Hops
<1>5. ASSUME NEW v \in seen PROVE Closed(op, stayed, v, seen \cup next)
  <2>1. CASE v \notin frontier
    BY <2>1 DEF Hops, Closed
  <2>2. CASE v \in frontier
    <3> SUFFICES ASSUME NEW e \in stayed, NEW w \in Node, Leads(op, e, v, w)
                 PROVE  w \in seen \cup next
      BY DEF Closed
    <3>1. e \in touched
      BY <1>a, <2>2 DEF Leads
    <3>2. w = OtherEnd(e, frontier) \/ w \in frontier
      BY <2>2 DEF Leads, OtherEnd
    <3> QED
      BY <1>a, <3>1, <3>2 DEF Hops
  <2> QED
    BY <2>1, <2>2
<1>6. Near(op, stayed)[d + 1] \subseteq seen \cup next
  <2>1. \A v \in Near(op, stayed)[d] : v \in seen \cup next /\ Closed(op, stayed, v, seen \cup next)
    BY <1>5 DEF Hops
  <2>2. PICK S : S = seen \cup next
    OBVIOUS
  <2> QED
    BY <1>0, <2>1, <2>2, NearNext
<1> QED
  BY <1>0, <1>2, <1>4, <1>5, <1>6 DEF Hops

\* At the end all is seen that is within reach over edges that stayed.
LEMMA HopsEnd ==
  ASSUME GraphAssumption, NEW op, NEW stayed, NEW met, NEW seen, NEW frontier, NEW d,
         Hops(op, stayed, met, seen, frontier, d), d = MaxHops \/ frontier = {}
  PROVE  Within(op, stayed) \subseteq seen /\ seen \subseteq Within(op, met)
<1>0. MaxHops \in 0 .. MaxHops /\ d \in 0 .. MaxHops /\ d <= MaxHops
  BY DEF Hops, GraphAssumption
<1>1. Near(op, met)[d] \subseteq Near(op, met)[MaxHops]
  BY <1>0, NearRises
<1>2. CASE d = MaxHops
  BY <1>2 DEF Hops, Within
<1>3. CASE frontier = {}
  <2>1. Origin \in seen /\ \A v \in seen : Closed(op, stayed, v, seen)
    BY <1>3 DEF Hops
  <2>2. Near(op, stayed)[MaxHops] \subseteq seen
    BY <1>0, <2>1, ClosedHolds
  <2> QED
    BY <1>1, <2>2 DEF Hops, Within
<1> QED
  BY <1>2, <1>3

-----------------------------------------------------------------------------
(* Trails. *)

\* A way of at most MaxHops edges from Origin to a node.
Stops(p, n, stops) ==
  /\ stops \in [0 .. Len(p) -> Node] /\ stops[0] = Origin /\ stops[Len(p)] = n
  /\ \A i \in 1 .. Len(p) : Leads("paths", p[i], stops[i - 1], stops[i])
Trail(p, n, edges) ==
  /\ p \in Seq(Edge) /\ Len(p) <= MaxHops /\ \A i \in 1 .. Len(p) : p[i] \in edges
  /\ \E stops : Stops(p, n, stops)

\* A trail over some edges is one over more.
LEMMA TrailGrows ==
  ASSUME NEW p, NEW n, NEW E, NEW F, E \subseteq F, Trail(p, n, E)
  PROVE  Trail(p, n, F)
BY DEF Trail

\* No edge at all is the trail to Origin.
LEMMA TrailBegins ==
  ASSUME GraphAssumption, NEW E
  PROVE  Trail(<<>>, Origin, E)
<1>1. Origin \in Node /\ MaxHops \in Nat
  BY DEF GraphAssumption
<1>2. <<>> \in Seq(Edge) /\ Len(<<>>) = 0 /\ Len(<<>>) <= MaxHops
  BY <1>1, EmptySeq
<1>3. PICK stops : stops = [i \in 0 .. 0 |-> Origin]
  OBVIOUS
<1>4. Stops(<<>>, Origin, stops)
  BY <1>1, <1>2, <1>3 DEF Stops
<1> QED
  BY <1>2, <1>4 DEF Trail

\* A trail goes on over an edge from where it led.
LEMMA TrailExtends ==
  ASSUME GraphAssumption, NEW p, NEW n, NEW E, Trail(p, n, E), Len(p) < MaxHops,
         NEW e \in Edge, e \in E, NEW m \in Node, Leads("paths", e, n, m)
  PROVE  Trail(Append(p, e), m, E) /\ Len(Append(p, e)) = Len(p) + 1
<1>1. PICK stops : Stops(p, n, stops)
  BY DEF Trail
<1>2. PICK l \in Nat : l = Len(p)
  BY LenProperties DEF Trail
<1>3. p \in Seq(Edge) /\ l + 1 <= MaxHops /\ l < MaxHops
  BY <1>2 DEF Trail, GraphAssumption
<1>4. PICK q : q = Append(p, e)
  OBVIOUS
<1>5. /\ q \in Seq(Edge) /\ Len(q) = l + 1 /\ q[l + 1] = e
      /\ \A i \in 1 .. l : q[i] = p[i]
  BY <1>2, <1>3, <1>4, AppendProperties
<1>6. PICK far : far = [i \in 0 .. l + 1 |-> IF i = l + 1 THEN m ELSE stops[i]]
  OBVIOUS
<1>7. /\ far \in [0 .. l + 1 -> Node] /\ far[l + 1] = m
      /\ \A i \in 0 .. l : far[i] = stops[i]
  <2>1. \A i \in 0 .. l : i \in 0 .. l + 1 /\ i # l + 1 /\ stops[i] \in Node
    BY <1>1, <1>2 DEF Stops
  <2>2. \A i \in 0 .. l + 1 : i # l + 1 => i \in 0 .. l
    OBVIOUS
  <2>3. l + 1 \in 0 .. l + 1
    OBVIOUS
  <2> QED
    BY <1>6, <2>1, <2>2, <2>3
<1>8. Stops(q, m, far)
  <2>1. far[0] = Origin /\ stops[l] = n
    BY <1>1, <1>2, <1>7 DEF Stops
  <2>2. ASSUME NEW i \in 1 .. l + 1 PROVE Leads("paths", q[i], far[i - 1], far[i])
    <3>1. CASE i = l + 1
      <4>1. i - 1 = l /\ l \in 0 .. l
        BY <3>1
      <4>2. far[i - 1] = n /\ far[i] = m /\ q[i] = e
        BY <1>5, <1>7, <2>1, <3>1, <4>1
      <4> QED
        BY <4>2
    <3>2. CASE i # l + 1
      <4>1. i \in 1 .. l /\ i \in 0 .. l /\ i - 1 \in 0 .. l
        BY <3>2
      <4>2. far[i - 1] = stops[i - 1] /\ far[i] = stops[i] /\ q[i] = p[i]
        BY <1>5, <1>7, <4>1
      <4> QED
        BY <1>1, <1>2, <4>1, <4>2 DEF Stops
    <3> QED
      BY <3>1, <3>2
  <2> QED
    BY <1>5, <1>7, <2>1, <2>2 DEF Stops
<1>9. \A i \in 1 .. Len(q) : q[i] \in E
  <2>1. \A i \in 1 .. l + 1 : i \in 1 .. l \/ i = l + 1
    OBVIOUS
  <2>2. \A i \in 1 .. l : p[i] \in E
    BY <1>2 DEF Trail
  <2> QED
    BY <1>5, <2>1, <2>2
<1> QED
  BY <1>2, <1>3, <1>4, <1>5, <1>8, <1>9 DEF Trail

\* Where a trail leads is near.
LEMMA TrailIsNear ==
  ASSUME GraphAssumption, NEW p, NEW n, NEW E, Trail(p, n, E)
  PROVE  n \in Near("paths", E)[Len(p)] /\ n \in Within("paths", E)
<1>1. PICK stops : Stops(p, n, stops)
  BY DEF Trail
<1>2. PICK l \in Nat : l = Len(p)
  BY LenProperties DEF Trail
<1>3. l \in 0 .. MaxHops /\ MaxHops \in 0 .. MaxHops /\ l <= MaxHops
  BY <1>2 DEF Trail, GraphAssumption
<1> DEFINE Good == {k \in Nat : stops[k] \in Near("paths", E)[k]}
<1>4. 0 \in Good
  BY <1>1, NearIs DEF Stops
<1>5. ASSUME NEW k \in 1 .. l, k - 1 \in Good PROVE k \in Good
  <2>1. k \in 1 .. MaxHops /\ k \in 0 .. l /\ k \in Nat
    BY <1>3
  <2>2. Near("paths", E)[k] = Near("paths", E)[k - 1] \cup Onward("paths", E, Near("paths", E)[k - 1])
    BY <2>1, NearIs
  <2>3. Leads("paths", p[k], stops[k - 1], stops[k]) /\ p[k] \in E /\ stops[k] \in Node
    BY <1>1, <1>2, <2>1 DEF Stops, Trail
  <2>4. stops[k - 1] \in Near("paths", E)[k - 1]
    BY <1>5
  <2> QED
    BY <2>1, <2>2, <2>3, <2>4 DEF Onward
<1>6. l \in Good
  <2> HIDE DEF Good
  <2>1. l \in 0 .. l
    OBVIOUS
  <2> QED
    BY <1>4, <1>5, <2>1, HoldsThroughout
<1>7. n \in Near("paths", E)[l]
  BY <1>1, <1>2, <1>6 DEF Stops
<1> QED
  BY <1>2, <1>3, <1>7, NearRises DEF Within

-----------------------------------------------------------------------------
(* Searches. *)

\* The ways that are queued, and the length of the one at the head.
Way == [at : Node, by : Seq(Edge)]
Ahead(q) == IF q = <<>> THEN MaxHops ELSE Len(q[1].by)
Queued(q, v) == \E i \in 1 .. Len(q) : q[i].at = v

\* A queue that is empty is past every depth.
LEMMA AheadOfNone == Ahead(<<>>) = MaxHops
BY DEF Ahead

\* Queued ways lead where they say, in order of their length, which differs by
\* at most one.
Lined(met, seen, q) ==
  /\ q \in Seq(Way)
  /\ \A i \in 1 .. Len(q) : q[i].at \in seen /\ Trail(q[i].by, q[i].at, met)
  /\ \A i, j \in 1 .. Len(q) :
       i <= j => Len(q[i].by) <= Len(q[j].by) /\ Len(q[j].by) <= Len(q[i].by) + 1

\* While no path is found all is seen that is as near as the head of the queue,
\* a queued way is no longer than the nearest over edges that stayed, and what
\* is seen is queued or has been left by all edges that stayed.
Open(stayed, seen, q) ==
  /\ Goal \notin seen
  /\ Near("paths", stayed)[Ahead(q)] \subseteq seen
  /\ \A i \in 1 .. Len(q), k \in 0 .. MaxHops :
       q[i].at \in Near("paths", stayed)[k] => Len(q[i].by) <= k
  /\ Ahead(q) < MaxHops =>
       \A v \in seen : Queued(q, v) \/ Closed("paths", stayed, v, seen)

Search(stayed, met, seen, q, paths) ==
  /\ seen \in SUBSET Node /\ Origin \in seen
  /\ Lined(met, seen, q)
  /\ \A p \in paths : Trail(p, Goal, met)
  /\ Goal # Origin /\ paths = {} => Open(stayed, seen, q)

\* A search begins at Origin.
LEMMA SearchBegins ==
  ASSUME GraphAssumption, NEW stayed, NEW met
  PROVE  Search(stayed, met, {Origin}, <<[at |-> Origin, by |-> <<>>]>>, {})
<1>0. Origin \in Node /\ MaxHops \in Nat /\ 0 \in 0 .. MaxHops
  BY DEF GraphAssumption
<1>1. PICK way : way = [at |-> Origin, by |-> <<>>]
  OBVIOUS
<1>2. way \in Way /\ way.at = Origin /\ way.by = <<>> /\ Len(way.by) = 0
  BY <1>0, <1>1, EmptySeq DEF Way
<1>3. PICK q : q = <<way>>
  OBVIOUS
<1>4. q \in Seq(Way) /\ Len(q) = 1 /\ q[1] = way /\ q # <<>>
  BY <1>2, <1>3
<1>5. \A i \in 1 .. Len(q) : i = 1
  BY <1>4
<1>6. Lined(met, {Origin}, q)
  <2>1. Trail(way.by, Origin, met)
    BY <1>2, TrailBegins
  <2> QED
    BY <1>2, <1>4, <1>5, <2>1 DEF Lined
<1>7. ASSUME Goal # Origin PROVE Open(stayed, {Origin}, q)
  <2>1. Ahead(q) = 0 /\ Near("paths", stayed)[0] = {Origin}
    BY <1>2, <1>4, NearIs DEF Ahead
  <2>2. Queued(q, Origin)
    BY <1>2, <1>4 DEF Queued
  <2>3. \A i \in 1 .. Len(q), k \in 0 .. MaxHops : Len(q[i].by) <= k
    BY <1>2, <1>4, <1>5
  <2> QED
    BY <1>7, <2>1, <2>2, <2>3 DEF Open
<1> QED
  BY <1>0, <1>1, <1>3, <1>6, <1>7 DEF Search

\* Fewer edges stay and more are met while a search is under way.
LEMMA SearchStays ==
  ASSUME GraphAssumption, NEW stayed, NEW met, NEW seen, NEW q, NEW paths,
         Search(stayed, met, seen, q, paths),
         NEW stayed2, NEW met2, stayed2 \subseteq stayed, met \subseteq met2
  PROVE  Search(stayed2, met2, seen, q, paths)
<1>1. Lined(met2, seen, q)
  BY TrailGrows DEF Search, Lined
<1>2. \A p \in paths : Trail(p, Goal, met2)
  BY TrailGrows DEF Search
<1>3. ASSUME Open(stayed, seen, q) PROVE Open(stayed2, seen, q)
  <2>1. \A k \in 0 .. MaxHops : Near("paths", stayed2)[k] \subseteq Near("paths", stayed)[k]
    BY NearGrows
  <2>2. Ahead(q) \in 0 .. MaxHops
    <3>1. MaxHops \in 0 .. MaxHops
      BY DEF GraphAssumption
    <3>2. ASSUME q # <<>> PROVE Len(q[1].by) \in 0 .. MaxHops
      <4>1. 1 \in 1 .. Len(q)
        BY <1>1, <3>2, EmptySeq, LenProperties DEF Lined
      <4>2. Trail(q[1].by, q[1].at, met2)
        BY <1>1, <4>1 DEF Lined
      <4> QED
        BY <4>2, LenProperties DEF Trail, GraphAssumption
    <3> QED
      BY <3>1, <3>2 DEF Ahead
  <2>3. \A v \in seen : Closed("paths", stayed, v, seen) => Closed("paths", stayed2, v, seen)
    BY DEF Closed
  <2> QED
    BY <1>3, <2>1, <2>2, <2>3 DEF Open
<1> QED
  BY <1>1, <1>2, <1>3 DEF Search

\* The queue after a step: its tail, then the ways that are added.
Moved(q, ext, next) ==
  /\ next \in Seq(Way)
  /\ \A i \in 1 .. Len(next) :
       \/ i + 1 \in 2 .. Len(q) /\ next[i] = q[i + 1]
       \/ \E j \in 1 .. Len(ext) : i = Len(q) - 1 + j /\ next[i] = ext[j]
  /\ \A i \in 2 .. Len(q) : i - 1 \in 1 .. Len(next) /\ next[i - 1] = q[i]
  /\ \A j \in 1 .. Len(ext) :
       Len(q) - 1 + j \in 1 .. Len(next) /\ next[Len(q) - 1 + j] = ext[j]

\* A queue goes on by one way.
LEMMA QueueGoesOn ==
  ASSUME NEW q \in Seq(Way), q # <<>>, NEW ext \in Seq(Way), NEW next, next = Tail(q) \o ext
  PROVE  Moved(q, ext, next)
<1>1. PICK l \in Nat : Len(q) = l + 1
  <2>1. Len(q) \in Nat /\ Len(q) # 0
    BY EmptySeq, LenProperties
  <2>2. PICK m : m = Len(q) - 1
    OBVIOUS
  <2>3. m \in Nat /\ Len(q) = m + 1
    BY <2>1, <2>2
  <2> QED
    BY <2>3
<1>2. PICK c \in Nat : c = Len(ext)
  BY LenProperties
<1>3. PICK t \in Seq(Way) : t = Tail(q)
  BY HeadTailProperties
<1>4. Len(t) = l /\ \A i \in 1 .. l : t[i] = q[i + 1]
  BY <1>1, <1>3, HeadTailProperties
<1>5. /\ next \in Seq(Way) /\ Len(next) = l + c
      /\ \A i \in 1 .. l + c : next[i] = IF i <= l THEN t[i] ELSE ext[i - l]
  <2>1. next = t \o ext
    BY <1>3
  <2>2. /\ t \o ext \in Seq(Way) /\ Len(t \o ext) = Len(t) + Len(ext)
        /\ \A i \in 1 .. Len(t) + Len(ext) :
             (t \o ext)[i] = IF i <= Len(t) THEN t[i] ELSE ext[i - Len(t)]
    BY ConcatProperties
  <2> QED
    BY <1>2, <1>4, <2>1, <2>2, Zenon
<1>6. \A i \in 1 .. l : i \in 1 .. l + c /\ next[i] = q[i + 1] /\ i + 1 \in 2 .. Len(q)
  BY <1>1, <1>4, <1>5
<1>7. ASSUME NEW j \in 1 .. c PROVE l + j \in 1 .. l + c /\ next[l + j] = ext[j] /\ Len(q) - 1 + j = l + j
  <2>1. l + j \in 1 .. l + c /\ ~ (l + j <= l) /\ (l + j) - l = j
    OBVIOUS
  <2> QED
    BY <1>1, <1>5, <2>1
<1>8. ASSUME NEW i \in 1 .. l + c, i \notin 1 .. l PROVE \E j \in 1 .. c : i = l + j
  <2>1. PICK j : j = i - l
    OBVIOUS
  <2>2. j \in 1 .. c /\ i = l + j
    BY <1>8, <2>1
  <2> QED
    BY <2>2
<1>9. \A i \in 2 .. Len(q) : i - 1 \in 1 .. l /\ (i - 1) + 1 = i
  BY <1>1
<1>10. ASSUME NEW i \in 1 .. Len(next)
       PROVE  \/ i + 1 \in 2 .. Len(q) /\ next[i] = q[i + 1]
              \/ \E j \in 1 .. Len(ext) : i = Len(q) - 1 + j /\ next[i] = ext[j]
  <2>1. CASE i \in 1 .. l
    BY <1>6, <2>1
  <2>2. CASE i \notin 1 .. l
    <3>1. i \in 1 .. l + c
      BY <1>5
    <3>2. PICK j \in 1 .. c : i = l + j
      BY <1>8, <2>2, <3>1
    <3>3. i = Len(q) - 1 + j /\ next[i] = ext[j] /\ j \in 1 .. Len(ext)
      BY <1>2, <1>7, <3>2
    <3> QED
      BY <3>3
  <2> QED
    BY <2>1, <2>2
<1>11. \A i \in 2 .. Len(q) : i - 1 \in 1 .. Len(next) /\ next[i - 1] = q[i]
  BY <1>5, <1>6, <1>9
<1>12. \A j \in 1 .. Len(ext) :
         Len(q) - 1 + j \in 1 .. Len(next) /\ next[Len(q) - 1 + j] = ext[j]
  BY <1>2, <1>5, <1>7
<1> QED
  BY <1>5, <1>10, <1>11, <1>12 DEF Moved

\* One step of the search: the way at the head is left over every edge that is
\* followed, and each node that is new is queued with a way that is one longer.
Left(seen, q, paths, way, rows, new, first, order, ext, next, seen2, paths2) ==
  /\ q # <<>> /\ way = q[1]
  /\ rows = IF Len(way.by) < MaxHops THEN Ways(way.at) ELSE {}
  /\ new = {e \in rows : Far(e, way.at) \notin seen \cup {Goal}}
  /\ first \in Firsts(new, way.at) /\ order \in RowOrders(first)
  /\ ext = [i \in DOMAIN order |->
              [at |-> Far(order[i], way.at), by |-> Append(way.by, order[i])]]
  /\ next = Tail(q) \o ext
  /\ seen2 = seen \cup {Far(e, way.at) : e \in new}
  /\ paths2 = paths \cup {Append(way.by, e) : e \in {e \in rows : Far(e, way.at) = Goal}}

\* A search goes on by one way.
LEMMA SearchGoesOn ==
  ASSUME GraphAssumption, NEW F, F = Followed("paths"), NEW stayed, stayed \subseteq F,
         NEW met, F \subseteq met, NEW seen, NEW q, NEW paths,
         Search(stayed, met, seen, q, paths),
         NEW way, NEW rows, NEW new, NEW first, NEW order, NEW ext, NEW next, NEW seen2, NEW paths2,
         Left(seen, q, paths, way, rows, new, first, order, ext, next, seen2, paths2)
  PROVE  Search(stayed, met, seen2, next, paths2)
<1>a. q # <<>> /\ way = q[1]
  BY DEF Left
<1>b. rows = IF Len(way.by) < MaxHops THEN Ways(way.at) ELSE {}
  BY DEF Left
<1>c. new = {e \in rows : Far(e, way.at) \notin seen \cup {Goal}}
  BY DEF Left
<1>d. first \in Firsts(new, way.at) /\ order \in RowOrders(first)
  BY DEF Left
<1>e. ext = [i \in DOMAIN order |-> [at |-> Far(order[i], way.at), by |-> Append(way.by, order[i])]]
  BY DEF Left
<1>f. next = Tail(q) \o ext
  BY DEF Left
<1>g. seen2 = seen \cup {Far(e, way.at) : e \in new}
  BY DEF Left
<1>h. paths2 = paths \cup {Append(way.by, e) : e \in {e \in rows : Far(e, way.at) = Goal}}
  BY DEF Left
<1>0. /\ MaxHops \in Nat /\ F \in SUBSET Edge /\ seen \in SUBSET Node
      /\ \A e \in Edge : From[e] \in Node /\ To[e] \in Node /\ From[e] # To[e]
  BY DEF GraphAssumption, Followed, Search
<1>1. /\ q \in Seq(Way) /\ 1 \in 1 .. Len(q) /\ way.at \in seen /\ way.at \in Node
      /\ Trail(way.by, way.at, met)
  <2>1. q \in Seq(Way)
    BY DEF Search, Lined
  <2>2. 1 \in 1 .. Len(q)
    BY <1>a, <2>1, EmptySeq, LenProperties
  <2> QED
    BY <1>0, <1>a, <2>1, <2>2 DEF Search, Lined
<1>2. PICK h \in Nat : h = Len(way.by) /\ h <= MaxHops
  BY <1>1, LenProperties DEF Trail
<1>3. ASSUME NEW e \in rows
      PROVE  /\ e \in F /\ e \in Edge /\ e \in met /\ h < MaxHops /\ Far(e, way.at) \in Node
             /\ Leads("paths", e, way.at, Far(e, way.at))
  <2>1. h < MaxHops /\ e \in Ways(way.at)
    BY <1>2, <1>b
  <2>2. e \in F /\ (From[e] = way.at \/ (To[e] = way.at /\ e \notin Directed))
    BY <2>1 DEF Ways
  <2>3. Far(e, way.at) = IF From[e] = way.at THEN To[e] ELSE From[e]
    BY DEF Far, OtherEnd
  <2> QED
    BY <1>0, <2>1, <2>2, <2>3 DEF Leads
<1>4. ASSUME NEW e \in rows
      PROVE  /\ Append(way.by, e) \in Seq(Edge) /\ Len(Append(way.by, e)) = h + 1
             /\ Trail(Append(way.by, e), Far(e, way.at), met)
  <2>1. Trail(Append(way.by, e), Far(e, way.at), met) /\ Len(Append(way.by, e)) = Len(way.by) + 1
    <3>1. PICK m : m = Far(e, way.at)
      OBVIOUS
    <3>2. m \in Node /\ Leads("paths", e, way.at, m) /\ e \in Edge /\ e \in met /\ Len(way.by) < MaxHops
      BY <1>2, <1>3, <3>1
    <3>3. Trail(Append(way.by, e), m, met) /\ Len(Append(way.by, e)) = Len(way.by) + 1
      BY <1>1, <3>2, TrailExtends
    <3> QED
      BY <3>1, <3>3
  <2> QED
    BY <1>2, <2>1 DEF Trail
<1>5. first \subseteq new /\ new \subseteq rows /\ {Far(e, way.at) : e \in first} = {Far(e, way.at) : e \in new}
  BY <1>c, <1>d DEF Firsts
<1>6. PICK c \in Nat : order \in [1 .. c -> first] /\ Range(order) = first
  <2>1. first \in SUBSET Edge
    BY <1>3, <1>5
  <2>2. Cardinality(first) \in Nat
    BY <2>1, FS_Subset, FS_CardinalityType DEF GraphAssumption
  <2> QED
    BY <1>d, <2>2 DEF RowOrders
<1>7. /\ ext \in Seq(Way) /\ Len(ext) = c
      /\ \A j \in 1 .. c : order[j] \in new /\ ext[j].at = Far(order[j], way.at)
                           /\ ext[j].by = Append(way.by, order[j])
  <2>1. \A j \in 1 .. c : order[j] \in new /\ order[j] \in rows
    BY <1>6, <1>5
  <2>2. DOMAIN order = 1 .. c
    BY <1>6
  <2>3. \A j \in 1 .. c : ext[j] = [at |-> Far(order[j], way.at), by |-> Append(way.by, order[j])]
    BY <1>e, <2>2
  <2>4. ASSUME NEW j \in 1 .. c PROVE ext[j] \in Way
    <3>1. Far(order[j], way.at) \in Node /\ Append(way.by, order[j]) \in Seq(Edge)
      BY <1>3, <1>4, <2>1
    <3>2. PICK m, b : m = Far(order[j], way.at) /\ b = Append(way.by, order[j])
      OBVIOUS
    <3>3. ext[j] = [at |-> m, by |-> b]
      BY <2>3, <3>2
    <3> QED
      BY <3>1, <3>2, <3>3 DEF Way
  <2>5. DOMAIN ext = 1 .. c /\ ext \in [1 .. c -> Way]
    BY <1>e, <2>2, <2>4
  <2>6. ext \in Seq(Way)
    BY <2>5, SeqDef
  <2>7. PICK m \in Nat : m = Len(ext) /\ DOMAIN ext = 1 .. m
    BY <2>6, LenProperties
  <2>8. m = c
    BY <2>5, <2>7
  <2> QED
    BY <2>1, <2>3, <2>6, <2>7, <2>8
<1>8. /\ next \in Seq(Way)
      /\ \A i \in 1 .. Len(next) :
           \/ i + 1 \in 2 .. Len(q) /\ next[i] = q[i + 1]
           \/ \E j \in 1 .. c : i = Len(q) - 1 + j /\ next[i] = ext[j]
      /\ \A i \in 2 .. Len(q) : i - 1 \in 1 .. Len(next) /\ next[i - 1] = q[i]
      /\ \A j \in 1 .. c : Len(q) - 1 + j \in 1 .. Len(next) /\ next[Len(q) - 1 + j] = ext[j]
  <2>1. Moved(q, ext, next)
    BY <1>1, <1>7, <1>a, <1>f, QueueGoesOn
  <2> QED
    BY <1>7, <2>1 DEF Moved
<1>9. PICK z \in Nat : z = Len(q)
  BY <1>1, LenProperties
<1>10. ASSUME NEW i \in 2 .. Len(q)
       PROVE  /\ q[i].at \in seen /\ Trail(q[i].by, q[i].at, met) /\ Len(q[i].by) \in Nat
              /\ h <= Len(q[i].by) /\ Len(q[i].by) <= h + 1
  <2>1. i \in 1 .. Len(q) /\ 1 <= i
    BY <1>9
  <2>2. Trail(q[i].by, q[i].at, met) /\ q[i].at \in seen
    BY <2>1 DEF Search, Lined
  <2>3. Len(q[1].by) <= Len(q[i].by) /\ Len(q[i].by) <= Len(q[1].by) + 1
    BY <1>1, <2>1 DEF Search, Lined
  <2> QED
    BY <1>2, <1>a, <2>2, <2>3, LenProperties DEF Trail
<1>11. ASSUME NEW j \in 1 .. c
       PROVE  /\ ext[j].at \in seen2 /\ Trail(ext[j].by, ext[j].at, met) /\ Len(ext[j].by) = h + 1
              /\ ext[j].at \notin seen
  BY <1>4, <1>5, <1>7, <1>c, <1>g
<1>12. ASSUME NEW i \in 1 .. Len(next)
       PROVE  /\ next[i].at \in seen2 /\ Trail(next[i].by, next[i].at, met)
              /\ Len(next[i].by) \in Nat /\ h <= Len(next[i].by) /\ Len(next[i].by) <= h + 1
  <2>1. CASE i + 1 \in 2 .. Len(q) /\ next[i] = q[i + 1]
    BY <1>10, <1>g, <2>1
  <2>2. ASSUME NEW j \in 1 .. c, next[i] = ext[j]
        PROVE  /\ next[i].at \in seen2 /\ Trail(next[i].by, next[i].at, met)
               /\ Len(next[i].by) \in Nat /\ h <= Len(next[i].by) /\ Len(next[i].by) <= h + 1
    <3>1. h + 1 \in Nat /\ h <= h + 1 /\ h + 1 <= h + 1
      OBVIOUS
    <3> QED
      BY <1>11, <2>2, <3>1
  <2> QED
    BY <1>8, <2>1, <2>2
<1>13. ASSUME NEW i \in 1 .. Len(next), NEW j \in 1 .. Len(next), i <= j
       PROVE  Len(next[i].by) <= Len(next[j].by) /\ Len(next[j].by) <= Len(next[i].by) + 1
  <2>1. Len(next[j].by) <= Len(next[i].by) + 1
    <3>1. PICK a \in Nat : a = Len(next[i].by) /\ h <= a
      BY <1>12
    <3>2. PICK b \in Nat : b = Len(next[j].by) /\ b <= h + 1
      BY <1>12
    <3>3. b <= a + 1
      BY <3>1, <3>2
    <3> QED
      BY <3>1, <3>2, <3>3
  <2>2. CASE j + 1 \in 2 .. Len(q) /\ next[j] = q[j + 1]
    <3>1. i \in Nat /\ j \in Nat /\ i + 1 \in 2 .. Len(q) /\ i + 1 <= j + 1
      <4>1. Len(next) \in Nat
        BY <1>8, LenProperties
      <4>2. i \in Nat /\ 1 <= i /\ j \in Nat
        BY <4>1
      <4> QED
        BY <1>9, <1>13, <2>2, <4>2
    <3>2. next[i] = q[i + 1]
      <4>1. (i + 1) - 1 = i
        BY <3>1
      <4> QED
        BY <1>8, <3>1, <4>1
    <3>3. i + 1 \in 1 .. Len(q) /\ j + 1 \in 1 .. Len(q)
      BY <1>9, <2>2, <3>1
    <3>4. Len(q[i + 1].by) <= Len(q[j + 1].by)
      BY <3>1, <3>3 DEF Search, Lined
    <3> QED
      BY <2>1, <2>2, <3>2, <3>4
  <2>3. ASSUME NEW k \in 1 .. c, next[j] = ext[k] PROVE Len(next[i].by) <= Len(next[j].by)
    BY <1>11, <1>12, <2>3
  <2> QED
    BY <1>8, <2>1, <2>2, <2>3
<1>14. Lined(met, seen2, next)
  BY <1>8, <1>12, <1>13 DEF Lined
<1>15. \A p \in paths2 : Trail(p, Goal, met)
  BY <1>4, <1>h DEF Search
<1>16. seen2 \in SUBSET Node /\ Origin \in seen2 /\ seen \subseteq seen2
  BY <1>0, <1>3, <1>5, <1>g DEF Search
<1>17. ASSUME Goal # Origin, paths2 = {} PROVE Open(stayed, seen2, next)
  <2>1. Open(stayed, seen, q) /\ Ahead(q) = h
    BY <1>2, <1>17, <1>a, <1>h DEF Search, Ahead
  <2>2. Goal \notin seen2
    BY <1>c, <1>g, <2>1 DEF Open
  <2>3. ASSUME NEW e \in rows, Far(e, way.at) = Goal PROVE FALSE
    <3>1. Append(way.by, e) \in paths2
      BY <1>h, <2>3
    <3> QED
      BY <1>17, <3>1
  <2>4. h \in 0 .. MaxHops
    BY <1>0, <1>2
  <2>5. ASSUME NEW i \in 1 .. Len(next), NEW k \in 0 .. MaxHops, next[i].at \in Near("paths", stayed)[k]
        PROVE  Len(next[i].by) <= k
    <3>1. CASE i + 1 \in 2 .. Len(q) /\ next[i] = q[i + 1]
      <4>1. i + 1 \in 1 .. Len(q)
        BY <1>9, <3>1
      <4> QED
        BY <2>1, <2>5, <3>1, <4>1 DEF Open
    <3>2. ASSUME NEW j \in 1 .. c, next[i] = ext[j] PROVE Len(next[i].by) <= k
      <4>1. next[i].at \notin Near("paths", stayed)[h]
        BY <1>11, <2>1, <3>2 DEF Open
      <4>2. ~ (k <= h)
        BY <2>4, <2>5, <4>1, NearRises
      <4>3. h + 1 <= k
        BY <4>2
      <4> QED
        BY <1>11, <3>2, <4>3
    <3> QED
      BY <1>8, <3>1, <3>2
  <2>6. ASSUME h < MaxHops, NEW v \in seen2
        PROVE  Queued(next, v) \/ Closed("paths", stayed, v, seen2)
    <3>1. CASE v = way.at
      <4> SUFFICES ASSUME NEW e \in stayed, NEW w \in Node, Leads("paths", e, v, w)
                   PROVE  w \in seen2
        BY DEF Closed
      <4>1. e \in F /\ e \in Edge
        BY <1>0
      <4>2. e \in rows
        BY <1>2, <1>b, <2>6, <3>1, <4>1 DEF Ways, Leads
      <4>3. w = Far(e, way.at)
        BY <1>0, <3>1, <4>1 DEF Far, OtherEnd, Leads
      <4> QED
        BY <1>c, <1>g, <2>3, <4>2, <4>3
    <3>2. CASE v \in seen /\ v # way.at
      <4>1. CASE Closed("paths", stayed, v, seen)
        BY <1>16, <4>1 DEF Closed
      <4>2. CASE Queued(q, v)
        <5>1. PICK i \in 1 .. Len(q) : q[i].at = v
          BY <4>2 DEF Queued
        <5>2. i \in 2 .. Len(q)
          <6>1. i # 1
            BY <1>a, <3>2, <5>1
          <6> QED
            BY <1>9, <6>1
        <5>3. PICK j \in 1 .. Len(next) : next[j] = q[i]
          BY <1>8, <5>2
        <5> QED
          BY <5>1, <5>3 DEF Queued
      <4> QED
        BY <2>1, <2>6, <3>2, <4>1, <4>2 DEF Open
    <3>3. CASE v \notin seen
      <4>1. PICK e \in first : v = Far(e, way.at)
        BY <1>5, <1>g, <3>3
      <4>2. PICK j \in 1 .. c : order[j] = e
        BY <1>6 DEF Range
      <4>3. ext[j].at = v
        BY <1>7, <4>1, <4>2
      <4>4. PICK i \in 1 .. Len(next) : next[i] = ext[j]
        BY <1>8
      <4> QED
        BY <4>3, <4>4 DEF Queued
    <3> QED
      BY <3>1, <3>2, <3>3
  <2>7. PICK g : g = Ahead(next)
    OBVIOUS
  <2>8. g < MaxHops => h < MaxHops /\ (g = h \/ g = h + 1) /\ next # <<>>
    <3>1. CASE next = <<>>
      BY <1>0, <2>7, <3>1, AheadOfNone
    <3>2. CASE next # <<>>
      <4>1. g = Len(next[1].by) /\ 1 \in 1 .. Len(next)
        BY <1>8, <2>7, <3>2, EmptySeq, LenProperties DEF Ahead
      <4>2. g \in Nat /\ h <= g /\ g <= h + 1
        BY <1>12, <4>1
      <4> QED
        BY <1>0, <3>2, <4>2
    <3> QED
      BY <3>1, <3>2
  <2>9. Near("paths", stayed)[g] \subseteq seen2
    <3>1. CASE h = MaxHops
      <4>1. g = MaxHops
        <5>1. CASE next = <<>>
          BY <2>7, <5>1, AheadOfNone
        <5>2. CASE next # <<>>
          <6>1. g = Len(next[1].by) /\ 1 \in 1 .. Len(next)
            BY <1>8, <2>7, <5>2, EmptySeq, LenProperties DEF Ahead
          <6>2. g \in Nat /\ h <= g /\ g <= MaxHops
            BY <1>12, <6>1 DEF Trail
          <6> QED
            BY <1>0, <3>1, <6>2
        <5> QED
          BY <5>1, <5>2
      <4> QED
        BY <1>16, <2>1, <3>1, <4>1 DEF Open
    <3>2. CASE h < MaxHops /\ next = <<>>
      <4>1. g = MaxHops /\ MaxHops \in 0 .. MaxHops
        BY <1>0, <2>7, <3>2, AheadOfNone
      <4>2. ~ \E i \in 1 .. Len(next) : TRUE
        BY <3>2, EmptySeq
      <4>3. \A v \in seen2 : Closed("paths", stayed, v, seen2)
        BY <2>6, <3>2, <4>2 DEF Queued
      <4> QED
        BY <1>16, <4>1, <4>3, ClosedHolds
    <3>3. CASE h < MaxHops /\ next # <<>>
      <4>1. g = Len(next[1].by) /\ 1 \in 1 .. Len(next)
        BY <1>8, <2>7, <3>3, EmptySeq, LenProperties DEF Ahead
      <4>2. g \in Nat /\ (g = h \/ g = h + 1)
        <5>1. g \in Nat /\ h <= g /\ g <= h + 1
          BY <1>12, <4>1
        <5> QED
          BY <5>1
      <4>3. CASE g = h
        BY <1>16, <2>1, <4>3 DEF Open
      <4>4. CASE g = h + 1
        <5>1. h \in 0 .. MaxHops - 1
          BY <1>0, <3>3
        <5>2. ASSUME NEW v \in Near("paths", stayed)[h]
              PROVE  v \in seen2 /\ Closed("paths", stayed, v, seen2)
          <6>1. v \in seen2
            BY <1>16, <2>1, <5>2 DEF Open
          <6>2. ~ Queued(next, v)
            <7> SUFFICES ASSUME NEW i \in 1 .. Len(next), next[i].at = v PROVE FALSE
              BY DEF Queued
            <7>1. Len(next[i].by) <= h
              BY <2>4, <2>5, <5>2
            <7>2. g <= Len(next[i].by)
              <8>1. 1 <= i
                BY <1>8, LenProperties
              <8> QED
                BY <1>13, <4>1, <8>1
            <7> QED
              BY <1>12, <4>4, <7>1, <7>2
          <6> QED
            BY <2>6, <3>3, <6>1, <6>2
        <5> QED
          BY <4>4, <5>1, <5>2, NearNext
      <4> QED
        BY <4>2, <4>3, <4>4
    <3> QED
      BY <1>0, <1>2, <3>1, <3>2, <3>3
  <2> QED
    BY <2>2, <2>5, <2>6, <2>7, <2>8, <2>9 DEF Open
<1> QED
  BY <1>14, <1>15, <1>16, <1>17 DEF Search

\* At the end of a search a path is found if one stayed all along, and every
\* path that is found is one.
LEMMA SearchEnds ==
  ASSUME GraphAssumption, NEW stayed, NEW met, NEW seen, NEW q, NEW paths,
         Search(stayed, met, seen, q, paths), q = <<>> \/ paths # {}
  PROVE  /\ Origin # Goal /\ Goal \in Within("paths", stayed) => paths # {}
         /\ paths # {} => Goal \in Within("paths", met)
         /\ \A p \in paths :
              /\ Len(p) <= MaxHops /\ Range(p) \subseteq met
              /\ \E stops \in [0 .. Len(p) -> Node] :
                   /\ stops[0] = Origin /\ stops[Len(p)] = Goal
                   /\ \A i \in 1 .. Len(p) : {stops[i - 1], stops[i]} = {From[p[i]], To[p[i]]}
<1>1. ASSUME Origin # Goal, Goal \in Within("paths", stayed), paths = {} PROVE FALSE
  <2>1. Open(stayed, seen, <<>>)
    BY <1>1 DEF Search
  <2> QED
    BY <1>1, <2>1, AheadOfNone DEF Open, Within
<1>2. ASSUME NEW p \in paths
      PROVE  /\ Goal \in Within("paths", met)
             /\ Len(p) <= MaxHops /\ Range(p) \subseteq met
             /\ \E stops \in [0 .. Len(p) -> Node] :
                  /\ stops[0] = Origin /\ stops[Len(p)] = Goal
                  /\ \A i \in 1 .. Len(p) : {stops[i - 1], stops[i]} = {From[p[i]], To[p[i]]}
  <2>1. Trail(p, Goal, met)
    BY DEF Search
  <2>2. Goal \in Within("paths", met)
    BY <2>1, TrailIsNear
  <2>3. Len(p) <= MaxHops /\ Range(p) \subseteq met
    <3>1. p \in Seq(Edge) /\ DOMAIN p = 1 .. Len(p)
      BY <2>1, LenProperties DEF Trail
    <3> QED
      BY <2>1, <3>1 DEF Trail, Range
  <2>4. PICK stops : Stops(p, Goal, stops)
    BY <2>1 DEF Trail
  <2>5. \A i \in 1 .. Len(p) : {stops[i - 1], stops[i]} = {From[p[i]], To[p[i]]}
    BY <2>4 DEF Stops, Leads
  <2> QED
    BY <2>2, <2>3, <2>4, <2>5 DEF Stops
<1> QED
  BY <1>1, <1>2

-----------------------------------------------------------------------------
(* The walks of the readers. *)

\* A walk goes by what stayed of the relationships it began with, and by all it
\* could have met; once over, it has no hop left or nothing to go on from.
WalkFits(s, F, there) ==
  s.op \in Walks /\ s.pc \in {"walk", "consent", "done"} =>
    /\ s.before \subseteq there
    /\ s.pc = "walk" => F \subseteq s.met
    /\ s.op = "paths" =>
         /\ Search(s.before \cap F, s.met, s.seen, s.queue, s.paths)
         /\ s.pc # "walk" => s.queue = <<>> \/ s.paths # {}
    /\ s.op # "paths" =>
         /\ Hops(s.op, s.before \cap F, s.met, s.seen, s.frontier, s.depth)
         /\ s.pc # "walk" => s.depth = MaxHops \/ s.frontier = {}

Present == {e \in Edge : edge[e] # "absent"}
WalkInd == \A r \in Reader : WalkFits(rd[r], Followed(rd[r].op), Present)

\* What a walk has found stands while fewer edges stay and more are met.
LEMMA FitStays ==
  ASSUME GraphAssumption, NEW s, NEW F, NEW there, WalkFits(s, F, there),
         NEW t, NEW F2, NEW there2, there \subseteq there2,
         t.op = s.op, t.pc = s.pc, t.seen = s.seen, t.queue = s.queue, t.paths = s.paths,
         t.frontier = s.frontier, t.depth = s.depth, t.before = s.before, s.met \subseteq t.met,
         F2 \cap there \subseteq F, s.pc = "walk" => F2 \subseteq t.met
  PROVE  WalkFits(t, F2, there2)
<1> SUFFICES ASSUME s.op \in Walks, s.pc \in {"walk", "consent", "done"}
             PROVE  /\ s.before \subseteq there2
                    /\ s.pc = "walk" => F2 \subseteq t.met
                    /\ s.op = "paths" =>
                         /\ Search(s.before \cap F2, t.met, s.seen, s.queue, s.paths)
                         /\ s.pc # "walk" => s.queue = <<>> \/ s.paths # {}
                    /\ s.op # "paths" =>
                         /\ Hops(s.op, s.before \cap F2, t.met, s.seen, s.frontier, s.depth)
                         /\ s.pc # "walk" => s.depth = MaxHops \/ s.frontier = {}
  BY DEF WalkFits
<1>1. s.before \subseteq there /\ s.before \cap F2 \subseteq s.before \cap F
  BY DEF WalkFits
<1>2. ASSUME s.op = "paths" PROVE Search(s.before \cap F2, t.met, s.seen, s.queue, s.paths)
  <2>1. Search(s.before \cap F, s.met, s.seen, s.queue, s.paths)
    BY <1>2 DEF WalkFits
  <2> QED
    BY <1>1, <2>1, SearchStays
<1>3. ASSUME s.op # "paths"
      PROVE  Hops(s.op, s.before \cap F2, t.met, s.seen, s.frontier, s.depth)
  <2>1. Hops(s.op, s.before \cap F, s.met, s.seen, s.frontier, s.depth)
    BY <1>3 DEF WalkFits
  <2> QED
    BY <1>1, <2>1, HopsStay
<1> QED
  BY <1>1, <1>2, <1>3 DEF WalkFits

\* A read that takes a step, and nothing else does.
LEMMA WalkMoves ==
  ASSUME GraphInd, WalkInd, NEW r \in Reader, NEW s, rd' = [rd EXCEPT ![r] = s],
         edge' = edge, WalkFits(s, Followed(s.op), Present)
  PROVE  WalkInd'
<1>1. rd' = [x \in Reader |-> IF x = r THEN s ELSE rd[x]]
  BY DEF GraphInd, GraphTypeOK
<1>2. rd'[r] = s /\ \A x \in Reader \ {r} : rd'[x] = rd[x]
  BY <1>1
<1>3. Present' = Present
  BY DEF Present
<1>4. ASSUME NEW x \in Reader PROVE WalkFits(rd[x], Followed(rd[x].op), Present)'
  <2>1. PICK t : t = rd'[x]
    OBVIOUS
  <2>2. WalkFits(t, Followed(t.op), Present)
    BY <1>2, <2>1 DEF WalkInd
  <2>3. PICK op : op = t.op
    OBVIOUS
  <2>4. Followed(op)' = Followed(op)
    BY DEF Followed
  <2>5. Followed(rd[x].op)' = Followed(op)'
    BY <2>1, <2>3 DEF Followed
  <2> QED
    BY <1>3, <2>1, <2>2, <2>3, <2>4, <2>5
<1> QED
  BY <1>4 DEF WalkInd

\* A walk begins at Origin, with what is there.
LEMMA StartKeepsWalks ==
  ASSUME GraphAssumption, GraphInd, WalkInd, NEW r \in Reader,
         (\E op \in Walks : StartRead(r, op)) \/ StartPages(r)
  PROVE  WalkInd'
<1>1. ASSUME NEW op \in Walks, StartRead(r, op) PROVE WalkInd'
  <2>1. PICK pc \in {"walk", "refused"} :
          rd' = [rd EXCEPT ![r] = [NoRead EXCEPT !.op = op, !.pc = pc, !.frontier = {Origin},
                   !.queue = <<[at |-> Origin, by |-> <<>>]>>, !.before = Followed(op),
                   !.met = Followed(op), !.valid = Covering]]
    BY <1>1 DEF StartRead
  <2>2. PICK q : q = <<[at |-> Origin, by |-> <<>>]>>
    OBVIOUS
  <2>3. PICK F : F = Followed(op)
    OBVIOUS
  <2>4. PICK s : s = [NoRead EXCEPT !.op = op, !.pc = pc, !.frontier = {Origin}, !.queue = q,
                        !.before = F, !.met = F, !.valid = Covering]
    OBVIOUS
  <2>5. /\ s.op = op /\ s.seen = {Origin} /\ s.queue = q /\ s.paths = {} /\ s.frontier = {Origin}
        /\ s.depth = 0 /\ s.before = F /\ s.met = F /\ s.pc \in {"walk", "refused"}
    BY <2>4 DEF NoRead
  <2>6. F \subseteq Present
    BY <2>3 DEF Followed, Present
  <2>7. Search(F, F, {Origin}, q, {}) /\ Hops(op, F, F, {Origin}, {Origin}, 0) /\ F \cap F = F
    BY <2>2, SearchBegins, HopsBegin
  <2>8. WalkFits(s, F, Present)
    BY <2>5, <2>6, <2>7 DEF WalkFits
  <2> QED
    BY <1>1, <2>1, <2>2, <2>3, <2>4, <2>5, <2>8, WalkMoves DEF StartRead
<1>2. ASSUME StartPages(r) PROVE WalkInd'
  <2>1. PICK s : s = [NoRead EXCEPT !.op = "pages", !.pc = "consent", !.before = due]
    OBVIOUS
  <2>2. s.op = "pages"
    BY <2>1 DEF NoRead
  <2>3. WalkFits(s, Followed(s.op), Present)
    BY <2>2 DEF WalkFits, Walks
  <2> QED
    BY <1>2, <2>1, <2>3, WalkMoves DEF StartPages
<1> QED
  BY <1>1, <1>2

\* A hop follows one more relationship from every node of the frontier.
LEMMA HopKeepsWalks ==
  ASSUME GraphAssumption, GraphInd, WalkInd, NEW r \in Reader, Hop(r)
  PROVE  WalkInd'
<1>1. ReadInv(r) /\ WalkFits(rd[r], Followed(rd[r].op), Present)
  BY DEF GraphInd, WalkInd
<1>2. PICK q, p, n, b : rd[r] \in ReadsWith(q, p, n, b)
  BY <1>1 DEF ReadInv, ReadShape
<1>3. PICK s, op, F : s = rd[r] /\ op = s.op /\ F = Followed(op)
  OBVIOUS
<1>4. PICK touched, next :
        /\ touched = {e \in F : {From[e], To[e]} \cap s.frontier # {}}
        /\ next = {OtherEnd(e, s.frontier) : e \in touched} \ s.seen
        /\ rd' = [rd EXCEPT ![r].frontier = next, ![r].seen = @ \cup next,
                            ![r].edges = @ \cup touched, ![r].depth = @ + 1]
  <2>1. PICK touched, next :
          /\ touched = {e \in Followed(rd[r].op) : {From[e], To[e]} \cap rd[r].frontier # {}}
          /\ next = {OtherEnd(e, rd[r].frontier) : e \in touched} \ rd[r].seen
          /\ rd' = [rd EXCEPT ![r].frontier = next, ![r].seen = @ \cup next,
                              ![r].edges = @ \cup touched, ![r].depth = @ + 1]
    BY DEF Hop
  <2>2. /\ touched = {e \in F : {From[e], To[e]} \cap s.frontier # {}}
        /\ next = {OtherEnd(e, s.frontier) : e \in touched} \ s.seen
    BY <1>3, <2>1, Zenon
  <2> QED
    BY <2>1, <2>2, Zenon
<1>5. PICK t : t = [s EXCEPT !.frontier = next, !.seen = @ \cup next,
                      !.edges = @ \cup touched, !.depth = @ + 1]
  OBVIOUS
<1>6. rd' = [rd EXCEPT ![r] = t]
  BY <1>3, <1>4, <1>5
<1>7. /\ t.op = op /\ t.pc = s.pc /\ t.seen = s.seen \cup next /\ t.frontier = next
      /\ t.depth = s.depth + 1 /\ t.before = s.before /\ t.met = s.met
  BY <1>2, <1>3, <1>5 DEF ReadsWith
<1>8. s.pc = "walk" /\ op # "paths" /\ op \in Walks /\ s.depth < MaxHops
  BY <1>1, <1>3 DEF Hop, ReadInv, OwnSteps
<1>9. /\ s.before \subseteq Present /\ F \subseteq s.met
      /\ Hops(op, s.before \cap F, s.met, s.seen, s.frontier, s.depth)
  BY <1>1, <1>3, <1>8 DEF WalkFits
<1>10. Hops(op, s.before \cap F, s.met, s.seen \cup next, next, s.depth + 1)
  <2>1. F \in SUBSET Edge /\ s.before \cap F \in SUBSET F
    BY <1>3 DEF Followed
  <2>2. PICK stayed, met, seen, frontier, d :
          stayed = s.before \cap F /\ met = s.met /\ seen = s.seen /\ frontier = s.frontier /\ d = s.depth
    OBVIOUS
  <2>3. Hopped(F, seen, frontier, touched, next)
    BY <1>4, <2>2, Zenon DEF Hopped
  <2>4. Hops(op, stayed, met, seen, frontier, d) /\ F \subseteq met /\ d < MaxHops
    BY <1>8, <1>9, <2>2, Zenon
  <2>5. stayed \in SUBSET F
    BY <2>1, <2>2
  <2>6. Hops(op, stayed, met, seen \cup next, next, d + 1)
    BY <1>8, <2>1, <2>3, <2>4, <2>5, HopsGoOn
  <2> QED
    BY <2>2, <2>6, Zenon
<1>11. WalkFits(t, F, Present)
  BY <1>7, <1>8, <1>9, <1>10 DEF WalkFits
<1> QED
  BY <1>3, <1>6, <1>7, <1>11, WalkMoves DEF Hop

\* A search takes the way at the head of its queue.
LEMMA SearchKeepsWalks ==
  ASSUME GraphAssumption, GraphInd, WalkInd, NEW r \in Reader, SearchNode(r)
  PROVE  WalkInd'
<1>1. ReadInv(r) /\ WalkFits(rd[r], Followed(rd[r].op), Present)
  BY DEF GraphInd, WalkInd
<1>2. PICK q, p, n, b : rd[r] \in ReadsWith(q, p, n, b)
  BY <1>1 DEF ReadInv, ReadShape
<1>3. PICK s, F : s = rd[r] /\ F = Followed("paths")
  OBVIOUS
<1>4. s.pc = "walk" /\ s.op = "paths" /\ s.queue # <<>>
  BY <1>3 DEF SearchNode
<1>5. /\ s.before \subseteq Present /\ F \subseteq s.met
      /\ Search(s.before \cap F, s.met, s.seen, s.queue, s.paths)
  BY <1>1, <1>3, <1>4 DEF WalkFits, Walks
<1> DEFINE way == Head(rd[r].queue)
           rows == IF Len(way.by) < MaxHops THEN Ways(way.at) ELSE {}
           new == {e \in rows : Far(e, way.at) \notin rd[r].seen \cup {Goal}}
<1>6. PICK first, order :
        /\ first \in Firsts(new, way.at) /\ order \in RowOrders(first)
        /\ rd' = [rd EXCEPT
             ![r].queue = Tail(@) \o
                [i \in DOMAIN order |->
                   [at |-> Far(order[i], way.at), by |-> Append(way.by, order[i])]],
             ![r].seen = @ \cup {Far(e, way.at) : e \in new},
             ![r].paths = @ \cup {Append(way.by, e) : e \in {e \in rows : Far(e, way.at) = Goal}}]
  <2>1. PICK first \in Firsts(new, way.at) :
          \E order \in RowOrders(first) :
            rd' = [rd EXCEPT
              ![r].queue = Tail(@) \o
                 [i \in DOMAIN order |->
                    [at |-> Far(order[i], way.at), by |-> Append(way.by, order[i])]],
              ![r].seen = @ \cup {Far(e, way.at) : e \in new},
              ![r].paths = @ \cup {Append(way.by, e) : e \in {e \in rows : Far(e, way.at) = Goal}}]
    BY DEF SearchNode
  <2>2. PICK order \in RowOrders(first) :
          rd' = [rd EXCEPT
            ![r].queue = Tail(@) \o
               [i \in DOMAIN order |->
                  [at |-> Far(order[i], way.at), by |-> Append(way.by, order[i])]],
            ![r].seen = @ \cup {Far(e, way.at) : e \in new},
            ![r].paths = @ \cup {Append(way.by, e) : e \in {e \in rows : Far(e, way.at) = Goal}}]
    BY <2>1
  <2> QED
    BY <2>2
<1>7. /\ way = s.queue[1]
      /\ rows = IF Len(way.by) < MaxHops THEN Ways(way.at) ELSE {}
      /\ new = {e \in rows : Far(e, way.at) \notin s.seen \cup {Goal}}
  <2>1. Head(s.queue) = s.queue[1]
    BY <1>4, <1>5, HeadTailProperties DEF Search, Lined
  <2> QED
    BY <1>3, <2>1
<1> HIDE DEF way, rows, new
<1>8. PICK ext, next, seen2, paths2 :
        /\ ext = [i \in DOMAIN order |->
                    [at |-> Far(order[i], way.at), by |-> Append(way.by, order[i])]]
        /\ next = Tail(s.queue) \o ext
        /\ seen2 = s.seen \cup {Far(e, way.at) : e \in new}
        /\ paths2 = s.paths \cup {Append(way.by, e) : e \in {e \in rows : Far(e, way.at) = Goal}}
  OBVIOUS
<1>9. PICK t : t = [s EXCEPT !.queue = next, !.seen = seen2, !.paths = paths2]
  OBVIOUS
<1>10. rd' = [rd EXCEPT ![r] = t]
  BY <1>3, <1>6, <1>8, <1>9
<1>11. /\ t.op = "paths" /\ t.pc = "walk" /\ t.seen = seen2 /\ t.queue = next /\ t.paths = paths2
       /\ t.before = s.before /\ t.met = s.met
  BY <1>2, <1>3, <1>4, <1>9 DEF ReadsWith
<1>12. Left(s.seen, s.queue, s.paths, way, rows, new, first, order, ext, next, seen2, paths2)
  BY <1>4, <1>6, <1>7, <1>8 DEF Left
<1>13. Search(s.before \cap F, s.met, seen2, next, paths2)
  <2>1. s.before \cap F \subseteq F
    OBVIOUS
  <2> QED
    BY <1>3, <1>5, <1>12, <2>1, SearchGoesOn
<1>14. WalkFits(t, F, Present)
  BY <1>5, <1>11, <1>13 DEF WalkFits
<1> QED
  BY <1>3, <1>10, <1>11, <1>14, WalkMoves DEF SearchNode

\* A walk ends, and what follows it reads what it found.
LEMMA EndKeepsWalks ==
  ASSUME GraphAssumption, GraphInd, WalkInd, NEW r \in Reader,
         EndWalk(r) \/ EndSearch(r) \/ Project(r) \/ AskConsent(r) \/ NextPage(r)
  PROVE  WalkInd'
<1>1. ReadInv(r) /\ WalkFits(rd[r], Followed(rd[r].op), Present)
  BY DEF GraphInd, WalkInd
<1>2. PICK q, p, n, b : rd[r] \in ReadsWith(q, p, n, b)
  BY <1>1 DEF ReadInv, ReadShape
<1>3. PICK s, op, F : s = rd[r] /\ op = s.op /\ F = Followed(op)
  OBVIOUS
<1>4. CASE EndWalk(r) \/ EndSearch(r)
  <2>1. PICK pc \in {"consent", "done"} : rd' = [rd EXCEPT ![r].pc = pc]
    BY <1>4 DEF EndWalk, EndSearch
  <2>2. PICK t : t = [s EXCEPT !.pc = pc]
    OBVIOUS
  <2>3. /\ t.op = op /\ t.pc = pc /\ t.seen = s.seen /\ t.frontier = s.frontier /\ t.depth = s.depth
        /\ t.before = s.before /\ t.met = s.met /\ t.queue = s.queue /\ t.paths = s.paths
    BY <1>2, <1>3, <2>2 DEF ReadsWith
  <2>4. /\ s.pc = "walk"
        /\ op # "paths" => s.depth = MaxHops \/ s.frontier = {}
        /\ op = "paths" => s.queue = <<>> \/ s.paths # {}
    <3>1. ~ (0 >= PathLimit) /\ Cardinality({}) = 0
      BY FS_EmptySet DEF PathLimit
    <3>2. CASE EndWalk(r)
      BY <1>3, <3>2 DEF EndWalk
    <3>3. CASE EndSearch(r)
      BY <1>3, <3>1, <3>3 DEF EndSearch
    <3> QED
      BY <1>4, <3>2, <3>3
  <2>5. WalkFits(t, F, Present)
    BY <1>1, <1>3, <2>3, <2>4 DEF WalkFits
  <2>6. rd' = [rd EXCEPT ![r] = t]
    BY <1>3, <2>1, <2>2
  <2> QED
    BY <1>3, <1>4, <2>3, <2>5, <2>6, WalkMoves DEF EndWalk, EndSearch
<1>5. CASE Project(r)
  <2>1. PICK admitted :
          rd' = [rd EXCEPT ![r].pc = "done", ![r].admitted = admitted,
                   ![r].edges = {e \in @ : {From[e], To[e]} \subseteq admitted}]
    BY <1>5 DEF Project
  <2>2. PICK t : t = [s EXCEPT !.pc = "done", !.admitted = admitted,
                        !.edges = {e \in @ : {From[e], To[e]} \subseteq admitted}]
    OBVIOUS
  <2>3. /\ t.op = op /\ t.pc = "done" /\ t.seen = s.seen /\ t.frontier = s.frontier
        /\ t.depth = s.depth /\ t.before = s.before /\ t.met = s.met
    BY <1>2, <1>3, <2>2 DEF ReadsWith
  <2>4. s.pc = "consent" /\ op = "project"
    BY <1>3, <1>5 DEF Project
  <2>5. WalkFits(t, F, Present)
    BY <1>1, <1>3, <2>3, <2>4 DEF WalkFits, Walks
  <2>6. rd' = [rd EXCEPT ![r] = t]
    BY <1>3, <2>1, <2>2
  <2> QED
    BY <1>3, <1>5, <2>3, <2>5, <2>6, WalkMoves DEF Project
<1>6. CASE AskConsent(r) \/ NextPage(r)
  <2>1. op = "pages"
    BY <1>1, <1>3, <1>6 DEF AskConsent, NextPage, ReadInv, OwnSteps
  <2>2. PICK shown, pc : rd' = [rd EXCEPT ![r].shown = shown, ![r].pc = pc]
    <3>1. CASE AskConsent(r)
      <4>1. PICK pc : rd' = [rd EXCEPT ![r].pc = pc]
        BY <3>1 DEF AskConsent
      <4>2. [s EXCEPT !.pc = pc] = [s EXCEPT !.shown = s.shown, !.pc = pc]
        BY <1>2, <1>3 DEF ReadsWith
      <4>3. rd' = [rd EXCEPT ![r].shown = s.shown, ![r].pc = pc]
        BY <1>3, <4>1, <4>2
      <4> QED
        BY <4>3
    <3>2. CASE NextPage(r)
      BY <3>2 DEF NextPage
    <3> QED
      BY <1>6, <3>1, <3>2
  <2>3. PICK t : t = [s EXCEPT !.shown = shown, !.pc = pc]
    OBVIOUS
  <2>4. t.op = "pages"
    BY <1>2, <1>3, <2>1, <2>3 DEF ReadsWith
  <2>5. WalkFits(t, Followed(t.op), Present)
    BY <2>4 DEF WalkFits, Walks
  <2>6. rd' = [rd EXCEPT ![r] = t]
    BY <1>3, <2>2, <2>3
  <2> QED
    BY <1>6, <2>5, <2>6, WalkMoves DEF AskConsent, NextPage
<1> QED
  BY <1>4, <1>5, <1>6

\* The writers: what they add is noted by every walk under way.
LEMMA WritersKeepWalks ==
  ASSUME GraphAssumption, GraphInd, WalkInd,
         \/ \E e \in Edge : Relate(e) \/ ForgetEdge(e)
         \/ Consents
         \/ \E o \in Due : AddObligation(o)
  PROVE  WalkInd'
<1>1. PICK edges, covering :
        /\ edges \in SUBSET Edge
        /\ Note(edges, covering) \/ (rd' = rd /\ edges = {})
        /\ Present \subseteq Present' /\ edges \cap Present = {}
        /\ \A op \in Walks : Followed(op)' \subseteq Followed(op) \cup edges
  <2>1. edge \in [Edge -> {"absent", "proposed", "certified", "forgotten"}]
    BY DEF GraphInd, GraphTypeOK
  <2>2. ASSUME edge' = edge
        PROVE  /\ Present \subseteq Present' /\ {} \cap Present = {}
               /\ \A op \in Walks : Followed(op)' \subseteq Followed(op) \cup {}
    BY <2>2 DEF Present, Followed
  <2>3. ASSUME NEW e \in Edge, Relate(e)
        PROVE  /\ Note({e}, {})
               /\ Present \subseteq Present' /\ {e} \cap Present = {}
               /\ \A op \in Walks : Followed(op)' \subseteq Followed(op) \cup {e}
    BY <2>1, <2>3 DEF Relate, Present, Followed
  <2>4. ASSUME NEW e \in Edge, ForgetEdge(e)
        PROVE  /\ rd' = rd
               /\ Present \subseteq Present' /\ {} \cap Present = {}
               /\ \A op \in Walks : Followed(op)' \subseteq Followed(op) \cup {}
    BY <2>1, <2>4 DEF ForgetEdge, Present, Followed
  <2>5. CASE \E e \in Edge : Relate(e)
    <3>1. PICK e \in Edge : Relate(e)
      BY <2>5
    <3>2. {e} \in SUBSET Edge
      OBVIOUS
    <3> QED
      BY <2>3, <3>1, <3>2, ZenonT(40)
  <2>6. CASE \E e \in Edge : ForgetEdge(e)
    BY <2>4, <2>6
  <2>7. CASE Consents \/ \E o \in Due : AddObligation(o)
    <3>1. edge' = edge /\ (rd' = rd \/ \E covering : Note({}, covering))
      BY <2>7 DEF Consents, Grant, Revoke, Expire, AddObligation
    <3> QED
      BY <2>2, <3>1
  <2> QED
    BY <2>5, <2>6, <2>7
<1>2. ASSUME NEW r \in Reader PROVE WalkFits(rd[r], Followed(rd[r].op), Present)'
  <2>1. PICK s, t, op : s = rd[r] /\ t = rd'[r] /\ op = s.op
    OBVIOUS
  <2>2. PICK q, p, n, b : s \in ReadsWith(q, p, n, b)
    BY <2>1 DEF GraphInd, ReadInv, ReadShape
  <2>3. /\ t.op = s.op /\ t.pc = s.pc /\ t.seen = s.seen /\ t.queue = s.queue /\ t.paths = s.paths
        /\ t.frontier = s.frontier /\ t.depth = s.depth /\ t.before = s.before
        /\ s.met \subseteq t.met
        /\ s.pc = "walk" => t.met = s.met \cup edges
    <3>1. CASE Note(edges, covering)
      <4>1. t = IF s.pc \in {"idle", "done", "refused"} THEN s
                ELSE [s EXCEPT !.met = @ \cup edges, !.valid = @ \cup covering]
        BY <2>1, <3>1 DEF Note
      <4> QED
        BY <2>2, <4>1 DEF ReadsWith
    <3>2. CASE rd' = rd /\ edges = {}
      BY <2>1, <3>2
    <3> QED
      BY <1>1, <3>1, <3>2
  <2>4. PICK F2, there2 : F2 = Followed(op)' /\ there2 = Present'
    OBVIOUS
  <2>5. WalkFits(s, Followed(op), Present)
    BY <2>1 DEF WalkInd
  <2>6. WalkFits(t, F2, there2)
    <3>1. CASE op \notin Walks
      BY <2>1, <2>3, <3>1 DEF WalkFits
    <3>2. CASE op \in Walks /\ s.pc \notin {"walk", "consent", "done"}
      BY <2>1, <2>3, <3>2 DEF WalkFits
    <3>3. CASE op \in Walks /\ s.pc \in {"walk", "consent", "done"}
      <4>1. F2 \subseteq Followed(op) \cup edges /\ Present \subseteq there2 /\ edges \cap Present = {}
        BY <1>1, <2>4, <3>3
      <4>2. F2 \cap Present \subseteq Followed(op)
        BY <4>1
      <4>3. s.pc = "walk" => F2 \subseteq t.met
        BY <2>1, <2>3, <2>5, <3>3, <4>1 DEF WalkFits
      <4> QED
        BY <2>3, <2>5, <4>1, <4>2, <4>3, FitStays
    <3> QED
      BY <3>1, <3>2, <3>3
  <2>7. Followed(rd[r].op)' = Followed(op)'
    BY <2>1, <2>3 DEF Followed
  <2> QED
    BY <2>1, <2>4, <2>6, <2>7
<1> QED
  BY <1>2 DEF WalkInd

\* Every step keeps what the walks have found.
LEMMA WalksKept ==
  GraphAssumption /\ GraphInd /\ WalkInd /\ [GraphNext]_graphVars => WalkInd'
<1> SUFFICES ASSUME GraphAssumption, GraphInd, WalkInd, [GraphNext]_graphVars PROVE WalkInd'
  OBVIOUS
<1>1. CASE UNCHANGED graphVars
  BY <1>1 DEF graphVars, WalkInd, Present, Followed
<1>2. ASSUME NEW r \in Reader,
             \/ \E op \in Walks : StartRead(r, op)
             \/ Hop(r) \/ EndWalk(r) \/ SearchNode(r) \/ EndSearch(r) \/ Project(r)
             \/ StartPages(r) \/ AskConsent(r) \/ NextPage(r)
      PROVE  WalkInd'
  BY <1>2, StartKeepsWalks, HopKeepsWalks, SearchKeepsWalks, EndKeepsWalks
<1>3. CASE \/ \E e \in Edge : Relate(e) \/ ForgetEdge(e)
           \/ Consents
           \/ \E o \in Due : AddObligation(o)
  BY <1>3, WritersKeepWalks
<1> QED
  BY <1>1, <1>2, <1>3 DEF GraphNext, WalkNext, PageNext

\* However relationships come and go beside it, a walk sees all that is within
\* reach over those that stayed and nothing that none it could have met leads to.
THEOREM WalksStayBracketed == GraphSpec => []WalksAreBracketed
<1>1. GraphAssumption /\ GraphInit => WalkInd
  <2>1. NoRead.op \notin Walks
    BY DEF NoRead, Walks
  <2>2. \A F, there : WalkFits(NoRead, F, there)
    BY <2>1 DEF WalkFits
  <2> QED
    BY <2>2 DEF GraphInit, WalkInd
<1>2. GraphAssumption /\ WalkInd => WalksAreBracketed
  <2> SUFFICES ASSUME GraphAssumption, WalkInd, NEW r \in Reader,
                      rd[r].op \in Walks, rd[r].pc = "done"
               PROVE  LET stayed == rd[r].before \cap Followed(rd[r].op) IN
                      IF rd[r].op = "paths"
                      THEN /\ Origin # Goal /\ Goal \in Within("paths", stayed) => rd[r].paths # {}
                           /\ rd[r].paths # {} => Goal \in Within("paths", rd[r].met)
                           /\ \A p \in rd[r].paths :
                                /\ Len(p) <= MaxHops /\ Range(p) \subseteq rd[r].met
                                /\ \E stops \in [0 .. Len(p) -> Node] :
                                     /\ stops[0] = Origin /\ stops[Len(p)] = Goal
                                     /\ \A i \in 1 .. Len(p) :
                                          {stops[i - 1], stops[i]} = {From[p[i]], To[p[i]]}
                      ELSE /\ Within(rd[r].op, stayed) \subseteq rd[r].seen
                           /\ rd[r].seen \subseteq Within(rd[r].op, rd[r].met)
    BY DEF WalksAreBracketed
  <2>1. WalkFits(rd[r], Followed(rd[r].op), Present)
    BY DEF WalkInd
  <2>2. PICK stayed : stayed = rd[r].before \cap Followed(rd[r].op)
    OBVIOUS
  <2>3. CASE rd[r].op = "paths"
    <3>1. /\ Search(stayed, rd[r].met, rd[r].seen, rd[r].queue, rd[r].paths)
          /\ rd[r].queue = <<>> \/ rd[r].paths # {}
      BY <2>1, <2>2, <2>3 DEF WalkFits
    <3>2. PICK met, seen, queue, paths :
            met = rd[r].met /\ seen = rd[r].seen /\ queue = rd[r].queue /\ paths = rd[r].paths
      OBVIOUS
    <3>3. Search(stayed, met, seen, queue, paths) /\ (queue = <<>> \/ paths # {})
      BY <3>1, <3>2, Zenon
    <3>4. /\ Origin # Goal /\ Goal \in Within("paths", stayed) => paths # {}
          /\ paths # {} => Goal \in Within("paths", met)
          /\ \A p \in paths :
               /\ Len(p) <= MaxHops /\ Range(p) \subseteq met
               /\ \E stops \in [0 .. Len(p) -> Node] :
                    /\ stops[0] = Origin /\ stops[Len(p)] = Goal
                    /\ \A i \in 1 .. Len(p) : {stops[i - 1], stops[i]} = {From[p[i]], To[p[i]]}
      BY <3>3, SearchEnds
    <3> QED
      BY <2>2, <2>3, <3>2, <3>4, Zenon
  <2>4. CASE rd[r].op # "paths"
    <3>1. /\ Hops(rd[r].op, stayed, rd[r].met, rd[r].seen, rd[r].frontier, rd[r].depth)
          /\ rd[r].depth = MaxHops \/ rd[r].frontier = {}
      BY <2>1, <2>2, <2>4 DEF WalkFits
    <3> QED
      BY <2>2, <2>4, <3>1, HopsEnd
  <2> QED
    BY <2>3, <2>4
<1> QED
  BY <1>1, <1>2, InitGraphInd, ReadsKept, WalksKept, GraphAssumption, PTL DEF GraphSpec

==============================================================================
