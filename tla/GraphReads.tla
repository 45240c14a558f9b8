----------------------------- MODULE GraphReads -----------------------------
(***************************************************************************)
(* platform/api: what a caller is shown of the graph.  A purpose-bound     *)
(* projection (lib/projection.js), the neighbours and the paths of an      *)
(* identity (handlers.js), the context given to the model                  *)
(* (lib/intelligence.js), and the pages of an identity's obligations.      *)
(*                                                                         *)
(* Each walks the relationships by one SELECT per hop (per node for the    *)
(* paths) and then reads the consents, while relationships are created and *)
(* forgotten and consents granted, revoked and expired by others.          *)
(***************************************************************************)
EXTENDS Naturals, Sequences, FiniteSets, Functions, SequencesExt

CONSTANTS
  Reader,       \* read requests, each of one operation
  Node,         \* identities
  Edge,         \* relationships
  From, To,     \* the ends of a relationship
  Directed,     \* relationships followed from From to To only, by the paths
  Weak,         \* relationships below the minimum confidence of a request
  Origin,       \* the identity asked about, and Goal: where paths should lead
  Goal,
  Consent,      \* consent rows for Origin and the purpose of the requests
  Expiring,     \* those with an expiry
  NodeType,     \* identities of a type the purpose permits
  Sensitive,    \* identities above the ceiling of the purpose
  Abroad,       \* identities the transfer policy keeps from the caller's country
  Budget,       \* nodes a projection may admit
  Due,          \* obligations of Origin, by their order of due date and id
  PageSize,     \* obligations on a page
  MaxHops       \* bound: depth of the walks

ASSUME GraphAssumption ==
  /\ From \in [Edge -> Node] /\ To \in [Edge -> Node]
  /\ \A e \in Edge : From[e] # To[e]
  /\ {Origin, Goal} \cup NodeType \cup Sensitive \cup Abroad \subseteq Node
  /\ Directed \cup Weak \subseteq Edge /\ Expiring \subseteq Consent
  /\ IsFiniteSet(Node) /\ IsFiniteSet(Edge)
  /\ Due \subseteq Nat /\ 0 \notin Due /\ IsFiniteSet(Due)
  /\ MaxHops \in Nat /\ Budget \in Nat \ {0} /\ PageSize \in Nat \ {0}

VARIABLES
  edge,       \* edge[e]: the status column of a relationship
  consent,    \* consent[c]: the status column of a consent
  expired,    \* consents whose expiry has passed
  due,        \* the obligations there are
  rd          \* rd[r]: the local state of a reader

graphVars == <<edge, consent, expired, due, rd>>

Walks == {"project", "neighbors", "context", "paths"}
NoRead == [op |-> "none", pc |-> "idle", frontier |-> {}, seen |-> {Origin}, queue |-> <<>>,
           paths |-> {}, edges |-> {}, depth |-> 0, admitted |-> {}, shown |-> <<>>, before |-> {}, met |-> {}, valid |-> {}]

GraphInit ==
  /\ edge \in [Edge -> {"absent", "proposed", "certified"}]
  /\ consent \in [Consent -> {"absent", "active"}]
  /\ expired = {}
  /\ due \in SUBSET Due
  /\ rd = [r \in Reader |-> NoRead]

\* The relationships an operation follows.
Followed(op) ==
  {e \in Edge : /\ edge[e] \in IF op = "project" THEN {"certified"}
                               ELSE {"proposed", "certified"}
                /\ op \in {"context", "paths"} => e \notin Weak}
Covering == {c \in Consent : consent[c] = "active" /\ c \notin expired}

-----------------------------------------------------------------------------
(* The others: every reader under way notes what it could have met. *)

Note(edges, covering) ==
  rd' = [r \in Reader |->
          IF rd[r].pc \in {"idle", "done", "refused"} THEN rd[r]
          ELSE [rd[r] EXCEPT !.met = @ \cup edges, !.valid = @ \cup covering]]
Relate(e) ==
  /\ edge[e] = "absent"
  /\ \E s \in {"proposed", "certified"} : edge' = [edge EXCEPT ![e] = s]
  /\ Note({e}, {})
  /\ UNCHANGED <<consent, expired, due>>
ForgetEdge(e) ==
  /\ edge[e] \in {"proposed", "certified"}
  /\ edge' = [edge EXCEPT ![e] = "forgotten"]
  /\ UNCHANGED <<consent, expired, due, rd>>
Grant(c) ==
  /\ consent[c] = "absent"
  /\ consent' = [consent EXCEPT ![c] = "active"]
  /\ Note({}, {c})
  /\ UNCHANGED <<edge, expired, due>>
\* A revocation ends every active consent for the purpose at once.
Revoke ==
  /\ \E c \in Consent : consent[c] = "active"
  /\ consent' = [c \in Consent |-> IF consent[c] = "active" THEN "revoked" ELSE consent[c]]
  /\ UNCHANGED <<edge, expired, due, rd>>
Expire(c) ==
  /\ c \in Expiring \ expired
  /\ expired' = expired \cup {c}
  /\ UNCHANGED <<edge, consent, due, rd>>
AddObligation(o) ==
  /\ o \notin due
  /\ due' = due \cup {o}
  /\ UNCHANGED <<edge, consent, expired, rd>>

-----------------------------------------------------------------------------
(* The walks. *)

\* serveProjection() asks the policies first: a deny ends it there.
StartRead(r, op) ==
  /\ rd[r].pc = "idle"
  /\ \E pc \in IF op = "project" THEN {"walk", "refused"} ELSE {"walk"} :
       rd' = [rd EXCEPT ![r] = [NoRead EXCEPT !.op = op, !.pc = pc, !.frontier = {Origin},
                !.queue = <<[at |-> Origin, by |-> <<>>]>>, !.before = Followed(op),
                !.met = Followed(op), !.valid = Covering]]
  /\ UNCHANGED <<edge, consent, expired, due>>

\* candidateNodes(), assembleContext() and the neighbours: one hop in one
\* SELECT.  For an edge between two nodes of the frontier the other end is in
\* the frontier, and seen.
FarEnd(e, frontier) == To[e]   \* Mutant: a relationship is only followed forwards.
OtherEnd(e, frontier) == IF From[e] \in frontier THEN To[e] ELSE From[e]
Hop(r) ==
  LET touched == {e \in Followed(rd[r].op) : {From[e], To[e]} \cap rd[r].frontier # {}}
      next == {OtherEnd(e, rd[r].frontier) : e \in touched} \ rd[r].seen
  IN /\ rd[r].pc = "walk" /\ rd[r].op # "paths"
     /\ rd[r].depth < MaxHops /\ rd[r].frontier # {}
     /\ rd' = [rd EXCEPT ![r].frontier = next, ![r].seen = @ \cup next,
                         ![r].edges = @ \cup touched, ![r].depth = @ + 1]
     /\ UNCHANGED <<edge, consent, expired, due>>
EndWalk(r) ==
  /\ rd[r].pc = "walk" /\ rd[r].op # "paths"
  /\ rd[r].depth = MaxHops \/ rd[r].frontier = {}
  /\ rd' = [rd EXCEPT ![r].pc = IF rd[r].op = "project" THEN "consent" ELSE "done"]
  /\ UNCHANGED <<edge, consent, expired, due>>

\* findGraphPaths(): breadth first from a queue, a SELECT for each node taken
\* off it; at most five paths.  A row that leads to the goal ends a path.  Of the
\* rows that lead to a node not seen before, in the order they come, the first
\* queues it; a way that is found later is never shorter.
PathLimit == 5
Ways(node) ==
  {e \in Followed("paths") : From[e] = node \/ (To[e] = node /\ e \notin Directed)}
Far(e, node) == OtherEnd(e, {node})
Firsts(rows, node) ==
  {first \in SUBSET rows :
     /\ {Far(e, node) : e \in first} = {Far(e, node) : e \in rows}
     /\ \A e, f \in first : Far(e, node) = Far(f, node) => e = f}
RowOrders(S) == {s \in [1 .. Cardinality(S) -> S] : Range(s) = S}
SearchNode(r) ==
  LET way == Head(rd[r].queue)
      rows == IF Len(way.by) < MaxHops THEN Ways(way.at) ELSE {}
      new == {e \in rows : Far(e, way.at) \notin rd[r].seen \cup {Goal}}
  IN /\ rd[r].pc = "walk" /\ rd[r].op = "paths" /\ rd[r].queue # <<>>
     /\ Cardinality(rd[r].paths) < PathLimit
     /\ \E first \in Firsts(new, way.at) : \E order \in RowOrders(first) :
          rd' = [rd EXCEPT
            ![r].queue = Tail(@) \o
               [i \in DOMAIN order |->
                  [at |-> Far(order[i], way.at), by |-> Append(way.by, order[i])]],
            ![r].seen = @ \cup {Far(e, way.at) : e \in new},
            ![r].paths = @ \cup {Append(way.by, e) : e \in {e \in rows : Far(e, way.at) = Goal}}]
     /\ UNCHANGED <<edge, consent, expired, due>>
EndSearch(r) ==
  /\ rd[r].pc = "walk" /\ rd[r].op = "paths"
  /\ rd[r].queue = <<>> \/ Cardinality(rd[r].paths) >= PathLimit
  /\ rd' = [rd EXCEPT ![r].pc = "done"]
  /\ UNCHANGED <<edge, consent, expired, due>>

\* project(): the consent is read after the walk, and every node passes the
\* four gates or is withheld; the budget admits the first that pass.
PassesUncovered(n, covered) ==   \* Mutant: the consent is not asked for.
  n \in NodeType /\ n \notin Sensitive /\ n \notin Abroad
Passes(n, covered) == n \in NodeType /\ n \notin Sensitive /\ covered /\ n \notin Abroad
Project(r) ==
  LET passing == {n \in rd[r].seen : Passes(n, Covering # {})}
  IN /\ rd[r].pc = "consent" /\ rd[r].op = "project"
     /\ \E admitted \in SUBSET passing :
          /\ Cardinality(admitted) = IF Cardinality(passing) < Budget
                                     THEN Cardinality(passing) ELSE Budget
          /\ Origin \in passing => Origin \in admitted
          /\ rd' = [rd EXCEPT ![r].pc = "done", ![r].admitted = admitted,
                      ![r].edges = {e \in @ : {From[e], To[e]} \subseteq admitted}]
     /\ UNCHANGED <<edge, consent, expired, due>>

-----------------------------------------------------------------------------
(* listObligations(): a client takes page after page, each a request of its *)
(* own that asks for an active consent, whose expiry it does not look at,   *)
(* before it reads the rows after the cursor.                               *)

StartPages(r) ==
  /\ rd[r].pc = "idle"
  /\ rd' = [rd EXCEPT ![r] = [NoRead EXCEPT !.op = "pages", !.pc = "consent", !.before = due]]
  /\ UNCHANGED <<edge, consent, expired, due>>
AskConsent(r) ==
  /\ rd[r].pc = "consent" /\ rd[r].op = "pages"
  /\ rd' = [rd EXCEPT ![r].pc = IF \E c \in Consent : consent[c] = "active"
                                THEN "page" ELSE "refused"]
  /\ UNCHANGED <<edge, consent, expired, due>>
CursorAhead(r) ==   \* Mutant: the cursor is the row read to see if there is more.
  LET more == {o \in due : o > (IF rd[r].shown = <<>> THEN 0 ELSE Last(rd[r].shown))}
  IN IF rd[r].shown = <<>> \/ more = {} THEN 0 ELSE CHOOSE o \in more : \A q \in more : o <= q
Cursor(r) == IF rd[r].shown = <<>> THEN 0 ELSE Last(rd[r].shown)
After(r) == {o \in due : o > Cursor(r)}
\* The rows after the cursor, ORDER BY due date and id.
InOrder(S) == {rows \in RowOrders(S) : \A i, j \in DOMAIN rows : i < j => rows[i] < rows[j]}
NextPage(r) ==
  \E rows \in InOrder(After(r)) :
    LET page == IF Len(rows) > PageSize THEN SubSeq(rows, 1, PageSize) ELSE rows
    IN /\ rd[r].pc = "page"
       /\ rd' = [rd EXCEPT ![r].shown = @ \o page,
                           ![r].pc = IF Len(rows) > PageSize THEN "consent" ELSE "done"]
       /\ UNCHANGED <<edge, consent, expired, due>>

Consents == Revoke \/ \E c \in Consent : Grant(c) \/ Expire(c)
WalkNext ==
  \/ \E r \in Reader :
       \/ \E op \in Walks : StartRead(r, op)
       \/ Hop(r) \/ EndWalk(r) \/ SearchNode(r) \/ EndSearch(r) \/ Project(r)
  \/ \E e \in Edge : Relate(e) \/ ForgetEdge(e)
  \/ Consents
PageNext ==
  \/ \E r \in Reader : StartPages(r) \/ AskConsent(r) \/ NextPage(r)
  \/ \E o \in Due : AddObligation(o)
  \/ Consents
GraphNext == WalkNext \/ PageNext

GraphSpec == GraphInit /\ [][GraphNext]_graphVars

-----------------------------------------------------------------------------
(* Properties. *)

\* The nodes within n hops of Origin over a set of edges.
Leads(op, e, from, to) ==
  \/ From[e] = from /\ To[e] = to
  \/ To[e] = from /\ From[e] = to /\ (op = "paths" => e \notin Directed)
Near(op, edges) ==
  LET near[n \in 0 .. MaxHops] ==
        IF n = 0 THEN {Origin}
        ELSE near[n - 1] \cup
               {b \in Node : \E a \in near[n - 1], e \in edges : Leads(op, e, a, b)}
  IN near
Within(op, edges) == Near(op, edges)[MaxHops]

\* However relationships come and go while a walk is under way, it sees every
\* identity within its depth over relationships that were there throughout, and
\* none that no relationship it could have met leads to.  A path is found on the
\* same terms, and each is a chain from Origin to Goal within the hop limit.
WalksAreBracketed ==
  \A r \in Reader : rd[r].op \in Walks /\ rd[r].pc = "done" =>
    LET stayed == rd[r].before \cap Followed(rd[r].op) IN
    IF rd[r].op = "paths"
    THEN /\ Origin # Goal /\ Goal \in Within("paths", stayed) => rd[r].paths # {}
         /\ rd[r].paths # {} => Goal \in Within("paths", rd[r].met)
         /\ \A p \in rd[r].paths :
              /\ Len(p) <= MaxHops /\ Range(p) \subseteq rd[r].met
              /\ \E stops \in [0 .. Len(p) -> Node] :
                   /\ stops[0] = Origin /\ stops[Len(p)] = Goal
                   /\ \A i \in 1 .. Len(p) : {stops[i - 1], stops[i]} = {From[p[i]], To[p[i]]}
    ELSE /\ Within(rd[r].op, stayed) \subseteq rd[r].seen
         /\ rd[r].seen \subseteq Within(rd[r].op, rd[r].met)

\* A projection shows anything only if a consent in force at some moment of the
\* request covers it (a revocation that was answered before it began leaves
\* nothing to show), never more than the budget, and no relationship that would
\* name a withheld identity.
ProjectionNeedsConsent ==
  \A r \in Reader : rd[r].op = "project" /\ rd[r].pc = "done" =>
    /\ rd[r].admitted # {} => rd[r].valid # {}
    /\ Cardinality(rd[r].admitted) <= Budget
    /\ \A e \in rd[r].edges : From[e] \in rd[r].admitted /\ To[e] \in rd[r].admitted

\* A client that follows the cursor to the end has every obligation that was
\* there when it began exactly once, in order, whatever is added meanwhile.
PagesAreComplete ==
  \A r \in Reader : rd[r].op = "pages" =>
    /\ \A i, j \in DOMAIN rd[r].shown : i < j => rd[r].shown[i] < rd[r].shown[j]
    /\ rd[r].pc = "done" => rd[r].before \subseteq Range(rd[r].shown)

=============================================================================
