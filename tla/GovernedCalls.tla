--------------------------- MODULE GovernedCalls ---------------------------
(***************************************************************************)
(* src/mcp.js: tool calls governed over one IOSRuntime, whose journal is a *)
(* D1Journal.  Each call is admitted or refused, runs its tool, and then   *)
(* traces it and flushes.  Calls run side by side and share the journal's  *)
(* queue and ios.staged: a flush works on what is there when it gets to    *)
(* each line, whoever put it there.                                        *)
(*                                                                         *)
(* The process is the only writer of the table.  An entry is the history   *)
(* it ends, as in D1Journal, and a body is the call it is of.              *)
(***************************************************************************)
EXTENDS Naturals, Sequences, FiniteSets, SequencesExt

CONSTANTS
  ToolCall,    \* tool calls
  MaxFlaws     \* bound: database calls that fail, and times the process dies

ASSUME CallAssumption == MaxFlaws \in Nat

VARIABLES
  table,       \* rows of igl_journal
  list,        \* the chain in memory
  durable,     \* how much of it counts as durable
  queue,       \* D1Journal.pending
  staged,      \* ios.staged, by call
  visible,     \* ios.traces, by call
  tc,          \* tc[c]: where a call is
  effects,     \* calls whose tool has run
  shared,      \* history: something was appended while a flush was under way
  flaws        \* bound: faults so far

callVars == <<table, list, durable, queue, staged, visible, tc, effects, shared, flaws>>

NoToolCall == [at |-> "idle", prev |-> <<>>, batch |-> {}]
Flushing == {"select", "insert", "stored"}

CallsInit ==
  /\ table = {} /\ list = <<>> /\ durable = 0 /\ queue = {}
  /\ staged = {} /\ visible = {} /\ effects = {}
  /\ tc = [c \in ToolCall |-> NoToolCall]
  /\ shared = FALSE /\ flaws = 0

TableHeads == {h \in table \cup {<<>>} : \A r \in table : Len(r) <= Len(h)}
FirstQueued == CHOOSE e \in queue : \A o \in queue : Len(e) <= Len(o)

AppendBody(c) ==
  /\ list' = Append(list, c)
  /\ queue' = queue \cup {list'}
  /\ shared' = (shared \/ \E o \in ToolCall : tc[o].at \in Flushing)

-----------------------------------------------------------------------------
(* governedCall() *)

\* admit(): the refusal is journaled, and thrown without a flush.
RefuseCall(c) ==
  /\ tc[c].at = "idle"
  /\ AppendBody(c)
  /\ tc' = [tc EXCEPT ![c].at = "refused"]
  /\ UNCHANGED <<table, durable, staged, visible, effects, flaws>>
Forward(c) ==
  /\ tc[c].at = "idle"
  /\ effects' = effects \cup {c}
  /\ tc' = [tc EXCEPT ![c].at = "tool"]
  /\ UNCHANGED <<table, list, durable, queue, staged, visible, shared, flaws>>
\* writeTrace(), of a result or an error, and the flush to its first await.
TraceCall(c) ==
  /\ tc[c].at = "tool"
  /\ AppendBody(c)
  /\ staged' = staged \cup {c}
  /\ tc' = [tc EXCEPT ![c].at = "select", ![c].prev = Front(FirstQueued')]
  /\ UNCHANGED <<table, durable, visible, effects, flaws>>

-----------------------------------------------------------------------------
(* ios.flush() over journal.flush() *)

FlushThrowsStaged(c) ==   \* Mutant: the staged traces are kept for the next flush.
  /\ list' = SubSeq(list, 1, durable)
  /\ queue' = {}
  /\ tc' = [tc EXCEPT ![c].at = "failed"]
  /\ UNCHANGED <<durable, staged, visible, effects, shared>>
\* The journal rolls back, the staged traces are dropped, the caller is told.
FlushThrows(c) ==
  /\ list' = SubSeq(list, 1, durable)
  /\ queue' = {} /\ staged' = {}
  /\ tc' = [tc EXCEPT ![c].at = "failed"]
  /\ UNCHANGED <<durable, visible, effects, shared>>
SelectHead(c) ==
  /\ tc[c].at = "select"
  /\ IF queue # {} /\ tc[c].prev \in TableHeads
     THEN /\ tc' = [tc EXCEPT ![c].at = "insert", ![c].batch = queue]
          /\ UNCHANGED <<list, durable, queue, staged, visible, effects, shared>>
     ELSE FlushThrows(c)
  /\ UNCHANGED <<table, flaws>>
InsertBatch(c) ==
  /\ tc[c].at = "insert"
  /\ IF \E e \in tc[c].batch, r \in table : Len(e) = Len(r)
     THEN FlushThrows(c) /\ UNCHANGED table
     ELSE /\ table' = table \cup tc[c].batch
          /\ tc' = [tc EXCEPT ![c].at = "stored"]
          /\ UNCHANGED <<list, durable, queue, staged, visible, effects, shared>>
  /\ UNCHANGED flaws
\* The call is answered, with its result or the error of its tool.
AnswerCall(c) ==
  /\ tc[c].at = "stored"
  /\ queue' = {} /\ durable' = Len(list)
  /\ visible' = visible \cup staged /\ staged' = {}
  /\ tc' = [tc EXCEPT ![c].at = "answered"]
  /\ UNCHANGED <<table, list, effects, shared, flaws>>
\* The SELECT or the INSERT throws, before or after it ran.
CallFails(c) ==
  /\ flaws < MaxFlaws /\ flaws' = flaws + 1
  /\ tc[c].at \in Flushing
  /\ FlushThrows(c)
  /\ UNCHANGED table
\* The process dies; the next one takes the table, if it verifies.
ProcessDies ==
  /\ flaws < MaxFlaws /\ flaws' = flaws + 1
  /\ \A r \in table : Len(r) > 1 => Front(r) \in table
  /\ list' \in TableHeads /\ durable' = Len(list')
  /\ queue' = {} /\ staged' = {}
  /\ visible' = {c \in effects : c \in Range(list')}
  /\ tc' = [c \in ToolCall |->
             IF tc[c].at \in Flushing \cup {"tool"} THEN [tc[c] EXCEPT !.at = "gone"] ELSE tc[c]]
  /\ UNCHANGED <<table, effects, shared>>

CallsNext ==
  \/ ProcessDies
  \/ \E c \in ToolCall :
       RefuseCall(c) \/ Forward(c) \/ TraceCall(c) \/ SelectHead(c) \/ InsertBatch(c)
         \/ AnswerCall(c) \/ CallFails(c)

CallsSpec == CallsInit /\ [][CallsNext]_callVars

-----------------------------------------------------------------------------
(* Properties. *)

InTable == UNION {Range(r) : r \in {r \in table : \A n \in 1 .. Len(r) : SubSeq(r, 1, n) \in table}}

\* As long as no call appends while the flush of another is under way: who is
\* answered has its trace in the table; what later calls see as a trace is one;
\* a tool that ran is traced, or its caller has no answer or an error; and the
\* record of a refusal is lost only by a fault, never by another call.
CallsAreTraced ==
  ~shared =>
    /\ {c \in ToolCall : tc[c].at = "answered"} \cup visible \subseteq InTable
    /\ \A c \in effects : c \in InTable \/ tc[c].at \in Flushing \cup {"tool", "failed", "gone"}
    /\ \A c \in ToolCall : tc[c].at = "refused" /\ flaws = 0 => c \in Range(list)
    /\ SubSeq(list, 1, durable) \in table \cup {<<>>}

\* Even when calls do share the queue and a flush, no trace is of a tool that
\* has not run, and a call that was refused has run none.
OnlyWhatRanIsTraced ==
  /\ visible \cup staged \subseteq effects
  /\ \A c \in effects : tc[c].at # "refused"
  /\ \A r \in table : \A c \in Range(r) : c \in effects \/ tc[c].at = "refused"

CallsInv == CallsAreTraced /\ OnlyWhatRanIsTraced

=============================================================================
