---------------------------- MODULE PlatformEdge ----------------------------
(***************************************************************************)
(* platform/api: what every request passes before its handler: the signer  *)
(* of the isolate that takes it (src/index.js, lib/crypto.js) and the      *)
(* token bucket of its key (lib/auth.js), one bucket here.                 *)
(*                                                                         *)
(* Isolates come and go and share nothing but the database.  signerPromise *)
(* is a variable of an isolate, set by its first request and awaited by    *)
(* all: once it is rejected the isolate answers 500 until it is replaced.  *)
(* Without SIGNING_KEY_PEM the first isolate makes the key of the service. *)
(***************************************************************************)
EXTENDS Integers, FiniteSets

CONSTANTS
  Visit,       \* requests of one API key
  Isolate,
  NoSigner,
  Burst,       \* RATE_BURST
  Refill,      \* RATE_PER_SEC
  VisitCost,   \* what a request may cost: a read, a mutation, an MCP call
  MaxClock,    \* bound: seconds
  MaxCrashes   \* bound: statements that throw, isolates replaced

ASSUME EdgeAssumption ==
  /\ Burst \in Nat /\ Refill \in Nat /\ VisitCost \subseteq Nat
  /\ MaxClock \in Nat /\ MaxCrashes \in Nat /\ NoSigner \notin Isolate

VARIABLES
  stored,      \* settings.signing_key_pem: the isolate that made it, or NoSigner
  isolate,     \* isolate[i]: signerPromise
  visit,       \* visit[v]: a request
  rate,        \* the bucket's row, tokens and updated_at
  clock,
  used,        \* history: what the admitted requests cost
  collided,    \* history: a bucket was written by one who had read an older row
  crashes      \* bound

edgeVars == <<stored, isolate, visit, rate, clock, used, collided, crashes>>

NoLoad == [at |-> "none", signer |-> NoSigner]
NoVisit == [at |-> "idle", in |-> NoSigner, cost |-> 0, tokens |-> 0, now |-> 0, stale |-> FALSE]

EdgeInit ==
  /\ stored = NoSigner
  /\ isolate = [i \in Isolate |-> NoLoad]
  /\ visit = [v \in Visit |-> NoVisit]
  /\ rate = [tokens |-> Burst, at |-> 0]
  /\ clock = 0 /\ used = 0 /\ collided = FALSE /\ crashes = 0

-----------------------------------------------------------------------------
(* loadSigner() *)

\* A request reaches an isolate; the first one there begins to load.
Reach(v) ==
  /\ visit[v].at = "idle"
  /\ \E i \in Isolate, cost \in VisitCost :
       /\ visit' = [visit EXCEPT ![v].at = "signer", ![v].in = i, ![v].cost = cost]
       /\ isolate' = IF isolate[i].at = "none" THEN [isolate EXCEPT ![i].at = "select"] ELSE isolate
  /\ UNCHANGED <<stored, rate, clock, used, collided, crashes>>
SelectSigner(i) ==
  /\ isolate[i].at = "select"
  /\ isolate' = [isolate EXCEPT ![i] =
       IF stored # NoSigner THEN [at |-> "loaded", signer |-> stored]
       ELSE [at |-> "insert", signer |-> i]]
  /\ UNCHANGED <<stored, visit, rate, clock, used, collided, crashes>>
\* INSERT OR IGNORE: the first key stays.
InsertSigner(i) ==
  /\ isolate[i].at = "insert"
  /\ stored' = IF stored = NoSigner THEN isolate[i].signer ELSE stored
  /\ isolate' = [isolate EXCEPT ![i].at = "again"]
  /\ UNCHANGED <<visit, rate, clock, used, collided, crashes>>
SelectOwn(i) ==   \* Mutant: keeps the key it generated.
  /\ isolate[i].at = "again"
  /\ isolate' = [isolate EXCEPT ![i].at = "loaded"]
  /\ UNCHANGED <<stored, visit, rate, clock, used, collided, crashes>>
SelectAgain(i) ==
  /\ isolate[i].at = "again"
  /\ isolate' = [isolate EXCEPT ![i] = [at |-> "loaded", signer |-> stored]]
  /\ UNCHANGED <<stored, visit, rate, clock, used, collided, crashes>>
\* A statement throws; the insert may have been done.
LoadFails(i) ==
  /\ crashes < MaxCrashes /\ crashes' = crashes + 1
  /\ isolate[i].at \in {"select", "insert", "again"}
  /\ stored' \in IF isolate[i].at = "insert" /\ stored = NoSigner THEN {stored, i} ELSE {stored}
  /\ isolate' = [isolate EXCEPT ![i] = [at |-> "rejected", signer |-> NoSigner]]
  /\ UNCHANGED <<visit, rate, clock, used, collided>>
\* Its requests go with it; the key it may have generated is never made again.
ReplaceIsolate(i) ==
  /\ crashes < MaxCrashes /\ crashes' = crashes + 1
  /\ isolate[i].at \in {"loaded", "rejected"}
  /\ isolate' = [isolate EXCEPT ![i] = NoLoad]
  /\ visit' = [v \in Visit |-> IF visit[v].in = i /\ visit[v].at \in {"signer", "bucket", "store"}
                               THEN [visit[v] EXCEPT !.at = "gone"] ELSE visit[v]]
  /\ UNCHANGED <<stored, rate, clock, used, collided>>

-----------------------------------------------------------------------------
(* fetch() and rateLimit() *)

\* The principal is known, and rateLimit takes the time before it reads the row.
AwaitSigner(v) ==
  /\ visit[v].at = "signer"
  /\ isolate[visit[v].in].at \in {"loaded", "rejected"}
  /\ visit' = [visit EXCEPT
       ![v].at = IF isolate[visit[v].in].at = "loaded" THEN "bucket" ELSE "error", ![v].now = clock]
  /\ UNCHANGED <<stored, isolate, rate, clock, used, collided, crashes>>
Filled(now) ==
  IF rate.tokens + (now - rate.at) * Refill < Burst
  THEN rate.tokens + (now - rate.at) * Refill ELSE Burst
ReadBucket(v) ==
  /\ visit[v].at = "bucket"
  /\ LET filled == Filled(visit[v].now)
     IN  visit' = IF filled < visit[v].cost THEN [visit EXCEPT ![v].at = "limited"]
                  ELSE [visit EXCEPT ![v].at = "store", ![v].tokens = filled - visit[v].cost]
  /\ UNCHANGED <<stored, isolate, rate, clock, used, collided, crashes>>
StoreBucket(v, end) ==
  /\ rate' = [tokens |-> visit[v].tokens, at |-> visit[v].now]
  /\ collided' = (collided \/ visit[v].stale)
  /\ visit' = [w \in Visit |-> IF w = v THEN [visit[v] EXCEPT !.at = end]
                               ELSE [visit[w] EXCEPT !.stale = @ \/ visit[w].at = "store"]]
WriteBucket(v) ==
  /\ visit[v].at = "store"
  /\ StoreBucket(v, "admitted")
  /\ used' = used + visit[v].cost
  /\ UNCHANGED <<stored, isolate, clock, crashes>>
\* A statement throws; the write may have been done.
VisitFails(v) ==
  /\ crashes < MaxCrashes /\ crashes' = crashes + 1
  /\ \/ /\ visit[v].at \in {"bucket", "store"}
        /\ visit' = [visit EXCEPT ![v].at = "error"]
        /\ UNCHANGED <<rate, collided>>
     \/ visit[v].at = "store" /\ StoreBucket(v, "error")
  /\ UNCHANGED <<stored, isolate, clock, used>>
Second ==
  /\ clock < MaxClock
  /\ clock' = clock + 1
  /\ UNCHANGED <<stored, isolate, visit, rate, used, collided, crashes>>

EdgeNext ==
  \/ \E i \in Isolate : SelectSigner(i) \/ InsertSigner(i) \/ SelectAgain(i)
                          \/ LoadFails(i) \/ ReplaceIsolate(i)
  \/ \E v \in Visit : Reach(v) \/ AwaitSigner(v) \/ ReadBucket(v) \/ WriteBucket(v)
                        \/ VisitFails(v)
  \/ Second

EdgeSpec == EdgeInit /\ [][EdgeNext]_edgeVars

-----------------------------------------------------------------------------
(* Properties. *)

EdgeTypes ==
  /\ stored \in Isolate \cup {NoSigner}
  /\ \A i \in Isolate : isolate[i].signer \in Isolate \cup {NoSigner}
  /\ rate.tokens \in 0 .. Burst /\ rate.at \in 0 .. clock
\* However many isolates start at once, fail half way and are replaced, all
\* that sign do so with the one key that is stored: what one issues, each of
\* the others verifies.
SignersAgree ==
  \A i \in Isolate : isolate[i].at = "loaded" => isolate[i].signer = stored /\ stored # NoSigner
\* A key is never admitted more than its burst and what the time has refilled,
\* unless requests overlapped between the read of the bucket and its write.
OnlyOverlapOverspends == ~collided => used <= Burst + Refill * clock

EdgeInv == EdgeTypes /\ SignersAgree /\ OnlyOverlapOverspends

=============================================================================
