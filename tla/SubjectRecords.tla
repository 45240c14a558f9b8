--------------------------- MODULE SubjectRecords ---------------------------
(***************************************************************************)
(* platform/api: the controls a person holds over what is learned about    *)
(* them (src/lib/subject.js) and the operations that learn (handlers.js):  *)
(* pause and resume, context entries, facts and relationships, forget,     *)
(* reset and export.                                                       *)
(*                                                                         *)
(* Requests run side by side in any number of isolates over one D1         *)
(* database.  Nothing is held in a transaction: each statement awaited is  *)
(* a step of its own, and any of them may throw, which ends the request.   *)
(* A policy decision with its receipts and chain entries is one step here; *)
(* AuditChain models what can go wrong inside it.                          *)
(***************************************************************************)
EXTENDS Naturals, Sequences, FiniteSets, Functions

CONSTANTS
  Request,        \* requests, each of one operation
  Fact,           \* facts a request may create
  Relationship,   \* relationships a request may create
  Entry,          \* context entries a request may append
  About,          \* About[x]: the identities x is about, in checking order
  Self,           \* the identity whose context column is modelled
  Targets,        \* the target lists a forget may carry, repeats dropped
  MaxThrows       \* bound: requests that end because a statement threw

Row == Fact \cup Relationship
Rec == Row \cup Entry
Identity == UNION {Range(About[x]) : x \in Rec}

ASSUME RecordAssumption ==
  /\ Fact \cap Relationship = {} /\ Row \cap Entry = {} /\ IsFiniteSet(Rec)
  /\ About \in [Rec -> Seq(Identity) \ {<<>>}]
  /\ \A e \in Entry : About[e] = <<Self>>
  /\ Self \in Identity
  /\ Targets \subseteq Seq(Rec)
  /\ MaxThrows \in Nat

VARIABLES
  row,        \* row[x]: the fact or relationship, by its status column
  context,    \* the context column of Self: an array, read and written whole
  paused,     \* paused[i]: the learning_state row of i
  tombs,      \* the tombstones table
  req,        \* req[r]: the local state of a request
  overtaken,  \* history: <<r, i>>, i was paused after r had checked it
  lost        \* history: some context write overwrote another

subjectVars == <<row, context, paused, tombs, req, overtaken, lost>>

Status == {"absent", "live", "forgotten"}
Op == {"none", "pause", "resume", "append", "create", "forget", "reset", "export"}
Step == {"idle", "decide", "check", "read", "write", "insert", "set", "gather",
         "target", "empty", "rewrite", "tomb", "stones", "done", "failed",
         "refused"}
Kinds == <<"fact", "relationship", "context">>

NoRequest ==
  [op |-> "none", pc |-> "idle", who |-> Self, todo |-> <<>>, left |-> <<>>,
   saw |-> [e \in Entry |-> "absent"], hash |-> "absent", emptied |-> FALSE,
   dirty |-> FALSE, base |-> {}, found |-> {}, stones |-> {}, gap |-> {}]

State(x) == IF x \in Row THEN row[x] ELSE context[x]
Learned(i) == {x \in Rec : State(x) = "live" /\ i \in Range(About[x])}
OfKind(kind) ==
  CASE kind = "fact" -> Fact
    [] kind = "relationship" -> Relationship
    [] kind = "context" -> Entry
Item(r) == Head(req[r].todo)

\* A SELECT without ORDER BY gives its rows in any order.
Orders(S) == {s \in [1 .. Cardinality(S) -> S] : Range(s) = S}

SubjectInit ==
  /\ row \in [Row -> {"absent", "live"}]
  /\ context \in [Entry -> {"absent", "live"}]
  /\ paused = [i \in Identity |-> FALSE]
  /\ tombs = {}
  /\ req = [r \in Request |-> NoRequest]
  /\ overtaken = {}
  /\ lost = FALSE

-----------------------------------------------------------------------------
(* The first statement of each handler. *)

Start(r, op, i, step, todo, left) ==
  /\ req[r].pc = "idle"
  /\ req' = [req EXCEPT ![r] = [NoRequest EXCEPT !.op = op, !.who = i,
               !.pc = step, !.todo = todo, !.left = left, !.base = Learned(i)]]
  /\ UNCHANGED <<row, context, paused, tombs, overtaken, lost>>

SetLearningState(r) ==
  \E i \in Identity, op \in {"pause", "resume"} : Start(r, op, i, "decide", <<>>, <<>>)
\* Ids are fresh: no two requests bring the same record.
Fresh(x) == State(x) = "absent" /\ \A q \in Request : x \notin Range(req[q].todo)
AppendIdentityContext(r) ==
  \E e \in Entry : Fresh(e) /\ Start(r, "append", Self, "check", <<e>>, About[e])
CreateFact(r) ==
  \E x \in Fact : Fresh(x) /\ Start(r, "create", Self, "check", <<x>>, About[x])
CreateRelationship(r) ==
  \E x \in Relationship :
    Fresh(x) /\ Start(r, "create", Self, "check", <<x>>, About[x])
ForgetRecords(r) ==
  \E i \in Identity, s \in Targets : Start(r, "forget", i, "decide", s, <<>>)
ResetLearned(r) ==
  \E i \in Identity : Start(r, "reset", i, "gather", <<>>, Kinds)
ExportIdentity(r) ==
  \E i \in Identity :
    Start(r, "export", i, "decide", <<>>, <<"context", "fact", "relationship">>)

-----------------------------------------------------------------------------
(* The statements that follow. *)

At(r, step) == req[r].pc = step
Goto(r, step) == req' = [req EXCEPT ![r].pc = step]

\* decide(): the policies let the operation go on, or it is refused.
AfterDecide(r) ==
  CASE req[r].op \in {"pause", "resume"} -> "set"
    [] req[r].op \in {"forget", "reset"} -> "target"
    [] OTHER -> "gather"
SubjectDecide(r) ==
  /\ At(r, "decide")
  /\ \/ Goto(r, AfterDecide(r))
     \/ Goto(r, "refused")
  /\ UNCHANGED <<row, context, paused, tombs, overtaken, lost>>

\* The identities a learning request has already seen to be unpaused.
Checked(r) ==
  IF req[r].pc \in {"check", "read", "write", "insert"}
  THEN Range(About[Item(r)]) \ Range(req[r].left) ELSE {}
SetLearning(r) ==
  /\ At(r, "set")
  /\ paused' = [paused EXCEPT ![req[r].who] = (req[r].op = "pause")]
  /\ overtaken' = IF req[r].op = "resume" THEN overtaken
       ELSE overtaken \cup {<<q, req[r].who>> : q \in {q \in Request : req[r].who \in Checked(q)}}
  /\ Goto(r, "done")
  /\ UNCHANGED <<row, context, tombs, lost>>

\* One identity after the other, each by a SELECT of its own.
AssertFirst(r) ==   \* Mutant: only the first identity is asked about.
  /\ At(r, "check")
  /\ IF paused[Head(req[r].left)] THEN Goto(r, "refused")
     ELSE req' = [req EXCEPT ![r].left = <<>>,
                    ![r].pc = IF req[r].op = "append" THEN "read" ELSE "insert"]
  /\ UNCHANGED <<row, context, paused, tombs, overtaken, lost>>
AssertLearning(r) ==
  /\ At(r, "check")
  /\ IF paused[Head(req[r].left)] THEN Goto(r, "refused")
     ELSE req' = [req EXCEPT ![r].left = Tail(@),
                    ![r].pc = IF Len(req[r].left) > 1 THEN "check"
                              ELSE IF req[r].op = "append" THEN "read" ELSE "insert"]
  /\ UNCHANGED <<row, context, paused, tombs, overtaken, lost>>

InsertRow(r) ==
  /\ At(r, "insert")
  /\ row' = [row EXCEPT ![Item(r)] = "live"]
  /\ Goto(r, "done")
  /\ UNCHANGED <<context, paused, tombs, overtaken, lost>>

\* The column as r read it goes back with one entry changed.  Whoever else
\* has read it in the meantime will overwrite this.
WriteContext(r, status) ==
  /\ context' = [e \in Entry |-> IF e = Item(r) THEN status ELSE req[r].saw[e]]
  /\ lost' = (lost \/ req[r].dirty)
Overtake(r, step, emptied) ==
  req' = [q \in Request |->
    IF q = r THEN [req[q] EXCEPT !.pc = step, !.emptied = emptied]
    ELSE [req[q] EXCEPT !.dirty = @ \/ req[q].pc \in {"write", "rewrite"}]]

ReadContext(r) ==
  /\ At(r, "read")
  /\ req' = [req EXCEPT ![r].saw = context, ![r].dirty = FALSE, ![r].pc = "write"]
  /\ UNCHANGED <<row, context, paused, tombs, overtaken, lost>>
AppendEntry(r) ==
  /\ At(r, "write")
  /\ WriteContext(r, "live")
  /\ Overtake(r, "done", FALSE)
  /\ UNCHANGED <<row, paused, tombs, overtaken>>

ReadAnyTarget(r) ==   \* Mutant: a forgotten record is found again.
  /\ At(r, "target")
  /\ IF req[r].todo = <<>> THEN Goto(r, "done")
     ELSE req' = [req EXCEPT ![r].hash = State(Item(r)), ![r].saw = context,
                    ![r].dirty = FALSE, ![r].pc = "empty"]
  /\ UNCHANGED <<row, context, paused, tombs, overtaken, lost>>
\* readTarget(): an unknown, forgotten or foreign record is not found and the
\* list goes on; otherwise its content is hashed as it stands.
ReadTarget(r) ==
  /\ At(r, "target")
  /\ IF req[r].todo = <<>> THEN Goto(r, "done")
     ELSE IF Item(r) \in Learned(req[r].who)
     THEN req' = [req EXCEPT ![r].hash = State(Item(r)), ![r].saw = context,
                    ![r].dirty = FALSE, ![r].pc = "empty"]
     ELSE req' = [req EXCEPT ![r].todo = Tail(@)]
  /\ UNCHANGED <<row, context, paused, tombs, overtaken, lost>>
\* emptyTarget(): a row by its id; a context entry by reading the column once
\* more and writing it back.
EmptyRow(r) ==
  /\ At(r, "empty") /\ Item(r) \in Row
  /\ row' = [row EXCEPT ![Item(r)] = "forgotten"]
  /\ req' = [req EXCEPT ![r].emptied = TRUE, ![r].pc = "tomb"]
  /\ UNCHANGED <<context, paused, tombs, overtaken, lost>>
KeepContext(r) ==   \* Mutant: the array read for the hash is written back.
  /\ At(r, "empty") /\ Item(r) \in Entry
  /\ Goto(r, "rewrite")
  /\ UNCHANGED <<row, context, paused, tombs, overtaken, lost>>
ReadContextAgain(r) ==
  /\ At(r, "empty") /\ Item(r) \in Entry
  /\ req' = [req EXCEPT ![r].saw = context, ![r].dirty = FALSE, ![r].pc = "rewrite"]
  /\ UNCHANGED <<row, context, paused, tombs, overtaken, lost>>
EmptyEntry(r) ==
  /\ At(r, "rewrite")
  /\ WriteContext(r, IF req[r].saw[Item(r)] = "absent" THEN "absent" ELSE "forgotten")
  /\ Overtake(r, "tomb", TRUE)
  /\ UNCHANGED <<row, paused, tombs, overtaken>>
\* The id of the record is the primary key of its tombstone.
LeaveTombstone(r) ==
  /\ At(r, "tomb")
  /\ IF \E t \in tombs : t.id = Item(r)
     THEN Goto(r, "failed") /\ UNCHANGED tombs
     ELSE /\ tombs' = tombs \cup {[id |-> Item(r), who |-> req[r].who, hash |-> req[r].hash]}
          /\ req' = [req EXCEPT ![r].todo = Tail(@), ![r].emptied = FALSE, ![r].pc = "target"]
  /\ UNCHANGED <<row, context, paused, overtaken, lost>>

TargetsAsSubject(r) ==   \* Mutant: records about two identities are left out for the second.
  /\ At(r, "gather") /\ req[r].op = "reset"
  /\ \E s \in Orders({x \in Learned(req[r].who) \cap OfKind(Head(req[r].left)) :
                        Head(About[x]) = req[r].who}) :
       req' = [req EXCEPT ![r].todo = @ \o s, ![r].left = Tail(@),
                 ![r].pc = IF Len(req[r].left) > 1 THEN "gather" ELSE "decide"]
  /\ UNCHANGED <<row, context, paused, tombs, overtaken, lost>>
\* learnedTargets(): the targets of a reset, one table after the other, all of
\* them before the policies are asked.
LearnedTargets(r) ==
  /\ At(r, "gather") /\ req[r].op = "reset"
  /\ \E s \in Orders(Learned(req[r].who) \cap OfKind(Head(req[r].left))) :
       req' = [req EXCEPT ![r].todo = @ \o s, ![r].left = Tail(@),
                 ![r].pc = IF Len(req[r].left) > 1 THEN "gather" ELSE "decide"]
  /\ UNCHANGED <<row, context, paused, tombs, overtaken, lost>>
\* exportRecord(): one table after the other, then the tombstones left under
\* this identity.
ExportRecords(r) ==
  /\ At(r, "gather") /\ req[r].op = "export"
  /\ req' = [req EXCEPT
       ![r].found = @ \cup (Learned(req[r].who) \cap OfKind(Head(req[r].left))),
       ![r].left = Tail(@),
       ![r].pc = IF Len(req[r].left) > 1 THEN "gather" ELSE "stones"]
  /\ UNCHANGED <<row, context, paused, tombs, overtaken, lost>>
Buried == {t.id : t \in tombs}
TombstonesAsSubject(r) ==   \* Mutant: by the record's identity, not by whose forget it was.
  /\ At(r, "stones")
  /\ req' = [req EXCEPT ![r].pc = "done",
       ![r].stones = {t.id : t \in {t \in tombs : Head(About[t.id]) = req[r].who}},
       ![r].gap = {x \in Rec : State(x) = "forgotten"} \ Buried]
  /\ UNCHANGED <<row, context, paused, tombs, overtaken, lost>>
TombstonesFor(r) ==
  /\ At(r, "stones")
  /\ req' = [req EXCEPT ![r].pc = "done",
       ![r].stones = {t.id : t \in {t \in tombs : t.who = req[r].who}},
       ![r].gap = {x \in Rec : State(x) = "forgotten"} \ Buried]
  /\ UNCHANGED <<row, context, paused, tombs, overtaken, lost>>

\* A statement throws and the request is answered with a 500.  One that never
\* answers is a request that takes no further step.
Throw(r) ==
  /\ Cardinality({q \in Request : req[q].pc = "failed"}) < MaxThrows
  /\ req[r].pc \notin {"idle", "done", "failed", "refused"}
  /\ Goto(r, "failed")
  /\ UNCHANGED <<row, context, paused, tombs, overtaken, lost>>

SubjectNext ==
  \E r \in Request :
    \/ SetLearningState(r) \/ AppendIdentityContext(r) \/ CreateFact(r)
    \/ CreateRelationship(r) \/ ForgetRecords(r) \/ ResetLearned(r) \/ ExportIdentity(r)
    \/ SubjectDecide(r) \/ SetLearning(r) \/ AssertLearning(r) \/ InsertRow(r)
    \/ ReadContext(r) \/ AppendEntry(r) \/ ReadTarget(r) \/ EmptyRow(r)
    \/ ReadContextAgain(r) \/ EmptyEntry(r) \/ LeaveTombstone(r)
    \/ LearnedTargets(r) \/ ExportRecords(r) \/ TombstonesFor(r) \/ Throw(r)

SubjectSpec == SubjectInit /\ [][SubjectNext]_subjectVars

-----------------------------------------------------------------------------
(* Properties. *)

RequestState ==
  [op : Op, pc : Step, who : Identity, todo : Seq(Rec),
   left : Seq(Identity) \cup Seq(Range(Kinds)), saw : [Entry -> Status], hash : Status,
   emptied : BOOLEAN, dirty : BOOLEAN, base : SUBSET Rec, found : SUBSET Rec,
   stones : SUBSET Rec, gap : SUBSET Rec]
SubjectTypes ==
  /\ row \in [Row -> Status]
  /\ context \in [Entry -> Status]
  /\ paused \in [Identity -> BOOLEAN]
  /\ tombs \subseteq [id : Rec, who : Identity, hash : Status]
  /\ req \in [Request -> RequestState]
  /\ overtaken \subseteq Request \X Identity
  /\ lost \in BOOLEAN

\* Whatever order forgets, resets and failures come in, an emptied record has
\* a tombstone, or the request that emptied it has not written it yet, or it
\* died in that one gap of forget().
EmptiedIsAccounted ==
  \A x \in Rec : State(x) = "forgotten" =>
    x \in Buried \/ \E r \in Request : req[r].emptied /\ Item(r) = x

\* A tombstone's hash is that of the record as it was, never of an emptied one,
\* even when two requests forget the same record; and a fact or relationship
\* with a tombstone stays empty.
TombstoneIsOfTheRecord ==
  \A t \in tombs : t.hash = "live" /\ (t.id \in Row => row[t.id] = "forgotten")

\* While learning about an identity is paused nothing new is recorded about it,
\* except by a request that had checked the identity before the pause.
PauseHoldsBackRecords ==
  [][\A r \in Request : req[r].pc \in {"insert", "write"} /\ req'[r].pc = "done" =>
       \A i \in Range(About[Item(r)]) : paused[i] => <<r, i>> \in overtaken]_subjectVars

\* The context column loses or revives an entry only when two writers of the
\* whole array overlap: a write that nobody overtook changes its own entry.
OnlyOverlapLosesContext ==
  [][\A r \in Request :
       req[r].pc \in {"write", "rewrite"} /\ req'[r].pc \in {"done", "tomb"} /\ ~req[r].dirty
         => \A e \in Entry \ {Item(r)} : context'[e] = context[e]]_subjectVars

\* A reset that answers 200 has emptied everything that was learned about the
\* identity when it began, whoever emptied it.  (An entry revived by the
\* overlap above is the one exception.)
ResetForgetsWhatItFound ==
  \A r \in Request : req[r].op = "reset" /\ req[r].pc = "done" =>
    \A x \in req[r].base : State(x) = "forgotten" \/ (lost /\ x \in Entry)

\* What was learned when an export began is in it as a record or as a
\* tombstone, or it was emptied in the gap of a forget, or the tombstone
\* stands under the other identity the record is about.
ExportAccountsForRecords ==
  \A r \in Request : req[r].op = "export" /\ req[r].pc = "done" =>
    \A x \in req[r].base :
      \/ x \in req[r].found \cup req[r].stones \cup req[r].gap
      \/ \E t \in tombs : t.id = x /\ t.who # req[r].who
      \/ lost /\ x \in Entry

SubjectInv == SubjectTypes /\ EmptiedIsAccounted /\ TombstoneIsOfTheRecord

=============================================================================
