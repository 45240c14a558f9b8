--------------------------- MODULE ProvisionGate ---------------------------
(***************************************************************************)
(* provision/: the HTTP surface of the provisioning service (server.mjs)   *)
(* with its limits (auth.mjs): the token bucket of a principal and the     *)
(* semaphore in front of the model.                                        *)
(*                                                                         *)
(* One process, one event loop: what runs between two awaits is one step.  *)
(* A request awaits its body, a permit, and its work.  At /mcp the permit  *)
(* comes first and is held while the body arrives, and the promise of the  *)
(* request is returned without an await: an error goes past the catch of   *)
(* the handler, nobody handles it, and the process ends.                   *)
(***************************************************************************)
EXTENDS Naturals, Sequences, FiniteSets, Functions

CONSTANTS
  Client,      \* connections, each with one request at a time
  Principal,   \* who the gate finds behind a credential
  Permits,     \* PROVISION_MAX_CONCURRENT
  MaxWaiting,  \* PROVISION_MAX_QUEUE
  Capacity,    \* PROVISION_RATE_BURST
  PostCost,    \* tokens a POST takes; a GET takes one
  MaxTime,     \* bound: ticks, of one refilled token each
  MaxEnds      \* bound: times the process ends

ASSUME GateAssumption ==
  /\ Permits \in Nat \ {0} /\ MaxWaiting \in Nat
  /\ PostCost \in Nat \ {0} /\ Capacity \in Nat /\ PostCost <= Capacity
  /\ MaxTime \in Nat /\ MaxEnds \in Nat

VARIABLES
  alive,       \* the process runs
  active,      \* Semaphore.active
  waiting,     \* Semaphore.queue
  http,        \* http[c]: the request of a client
  bucket,      \* RateLimiter.buckets
  time,        \* the clock
  spent,       \* history: tokens a principal has taken from this process
  told,        \* history: what a refused principal was told, until it spends
  ends         \* bound: times the process has ended

gateVars == <<alive, active, waiting, http, bucket, time, spent, told, ends>>

\* The requests that get past the gate; "list" stands for the ones answered
\* without an await.  /api/provision and /mcp are POSTs.
Route == {"list", "whoami", "mcp", "provision"}
Cost(route) == IF route \in {"mcp", "provision"} THEN PostCost ELSE 1
Quiet == [route |-> "list", at |-> "idle"]
Full == [tokens |-> Capacity, since |-> 0]
NotTold == [cost |-> 0, by |-> 0]

GateInit ==
  /\ alive = TRUE /\ active = 0 /\ waiting = <<>>
  /\ http = [c \in Client |-> Quiet]
  /\ bucket = [p \in Principal |-> Full]
  /\ time = 0 /\ ends = 0
  /\ spent = [p \in Principal |-> 0]
  /\ told = [p \in Principal |-> NotTold]

Idle(hs, c) == [hs EXCEPT ![c].at = "idle"]

\* The process ends: every connection and everything in memory is gone.
Collapse ==
  /\ ends < MaxEnds
  /\ alive' = FALSE /\ ends' = ends + 1
  /\ active' = 0 /\ waiting' = <<>>
  /\ http' = [c \in Client |-> Quiet]
RestartProcess ==
  /\ ~alive /\ alive' = TRUE
  /\ bucket' = [p \in Principal |-> [Full EXCEPT !.since = time]]
  /\ spent' = [p \in Principal |-> 0]
  /\ told' = [p \in Principal |-> NotTold]
  /\ UNCHANGED <<active, waiting, http, time, ends>>
Tick ==
  /\ time < MaxTime
  /\ time' = time + 1
  /\ UNCHANGED <<alive, active, waiting, http, bucket, spent, told, ends>>

-----------------------------------------------------------------------------
(* The semaphore. *)

\* What a request does with its permit: /mcp still has to read its body.
Granted(route) == IF route = "mcp" THEN "held body" ELSE "work"
Acquire(c, route) ==
  \/ /\ active < Permits
     /\ active' = active + 1
     /\ http' = [http EXCEPT ![c] = [route |-> route, at |-> Granted(route)]]
     /\ UNCHANGED <<alive, waiting, ends>>
  \/ /\ active >= Permits /\ Len(waiting) < MaxWaiting
     /\ waiting' = Append(waiting, c)
     /\ http' = [http EXCEPT ![c] = [route |-> route, at |-> "wait"]]
     /\ UNCHANGED <<alive, active, ends>>
  \/ /\ active >= Permits /\ Len(waiting) >= MaxWaiting
     /\ IF route = "mcp" THEN Collapse
        ELSE http' = Idle(http, c) /\ UNCHANGED <<alive, active, waiting, ends>>
ReleaseKept(c) ==   \* Mutant: nobody in the queue is woken.
  /\ active' = active - 1
  /\ http' = Idle(http, c)
  /\ UNCHANGED waiting
ReleaseTwice(c) ==   \* Mutant: the permit is handed on and counted as free.
  /\ active' = active - 1
  /\ IF waiting = <<>> THEN http' = Idle(http, c) /\ UNCHANGED waiting
     ELSE LET next == Head(waiting) IN
          /\ waiting' = Tail(waiting)
          /\ http' = [Idle(http, c) EXCEPT ![next].at = Granted(http[next].route)]
\* A permit goes to the first in the queue.
Release(c) ==
  IF waiting = <<>>
  THEN /\ active' = active - 1
       /\ http' = Idle(http, c)
       /\ UNCHANGED waiting
  ELSE LET next == Head(waiting) IN
       /\ waiting' = Tail(waiting)
       /\ http' = [Idle(http, c) EXCEPT ![next].at = Granted(http[next].route)]
       /\ UNCHANGED active

-----------------------------------------------------------------------------
(* Requests. *)

Refilled(p) ==
  LET tokens == bucket[p].tokens + (time - bucket[p].since)
  IN IF tokens < Capacity THEN tokens ELSE Capacity
\* RateLimiter.take()
Refuse(p, cost) ==
  /\ Refilled(p) < cost
  /\ bucket' = [bucket EXCEPT ![p] = [tokens |-> Refilled(p), since |-> time]]
  /\ told' = [told EXCEPT ![p] = [cost |-> cost, by |-> time + cost - Refilled(p)]]
  /\ UNCHANGED spent
Take(p, cost) ==
  /\ Refilled(p) >= cost
  /\ bucket' = [bucket EXCEPT ![p] = [tokens |-> Refilled(p) - cost, since |-> time]]
  /\ spent' = [spent EXCEPT ![p] = @ + cost]
  /\ told' = [told EXCEPT ![p] = NotTold]

TooMany(c) ==
  /\ alive /\ http[c].at = "idle"
  /\ \E p \in Principal, route \in Route : Refuse(p, Cost(route))
  /\ UNCHANGED <<alive, active, waiting, http, time, ends>>
Arrive(c) ==
  /\ alive /\ http[c].at = "idle"
  /\ \E p \in Principal, route \in Route :
       /\ Take(p, Cost(route))
       /\ CASE route = "list" -> UNCHANGED <<alive, active, waiting, http, ends>>
            [] route = "provision" ->
                 /\ http' = [http EXCEPT ![c] = [route |-> route, at |-> "body"]]
                 /\ UNCHANGED <<alive, active, waiting, ends>>
            [] OTHER -> Acquire(c, route)
  /\ UNCHANGED time
\* readBody(): it is there, or is no JSON, too long or cut off.
Body(c) ==
  /\ http[c].at = "body"
  /\ \/ Acquire(c, http[c].route)
     \/ http' = Idle(http, c) /\ UNCHANGED <<alive, active, waiting, ends>>
  /\ UNCHANGED <<bucket, time, spent, told>>
HeldBody(c) ==
  /\ http[c].at = "held body"
  /\ http' = [http EXCEPT ![c].at = "work"]
  /\ UNCHANGED <<alive, active, waiting, bucket, time, spent, told, ends>>
BadHeldBody(c) ==
  /\ http[c].at = "held body"
  /\ Collapse
  /\ UNCHANGED <<bucket, time, spent, told>>
\* The work returns or throws, the permit goes back, the answer is sent.
Work(c) ==
  /\ http[c].at = "work"
  /\ Release(c)
  /\ UNCHANGED <<alive, bucket, time, spent, told, ends>>

GateNext ==
  \/ Tick \/ RestartProcess
  \/ \E c \in Client : TooMany(c) \/ Arrive(c) \/ Body(c) \/ HeldBody(c) \/ BadHeldBody(c) \/ Work(c)

\* The model answers or times out; a body comes, or node:http ends the request
\* by its requestTimeout.
GateFairness ==
  \A c \in Client : WF_gateVars(Work(c)) /\ WF_gateVars(HeldBody(c) \/ BadHeldBody(c))
GateSpec == GateInit /\ [][GateNext]_gateVars /\ GateFairness

-----------------------------------------------------------------------------
(* Properties. *)

Holders == {c \in Client : http[c].at \in {"held body", "work"}}
GateTypes ==
  /\ alive \in BOOLEAN /\ active \in Nat
  /\ waiting \in Seq(Client)
  /\ http \in [Client -> [route : Route, at : {"idle", "body", "held body", "wait", "work"}]]
  /\ bucket \in [Principal -> [tokens : Nat, since : Nat]]
  /\ time \in Nat /\ ends \in Nat
  /\ spent \in [Principal -> Nat]
  /\ told \in [Principal -> [cost : Nat, by : Nat]]

\* The counter is the number of requests that hold a permit, at most Permits of
\* them; who waits is in the queue once, within its limit, and waits only while
\* every permit is taken: a permit is neither lost nor given twice.
PermitsAreConserved ==
  /\ active = Cardinality(Holders) /\ active <= Permits
  /\ IsInjective(waiting) /\ Range(waiting) = {c \in Client : http[c].at = "wait"}
  /\ Len(waiting) <= MaxWaiting
  /\ waiting # <<>> => active = Permits

\* A principal never has more from a process than the burst and what the clock
\* refilled, and a bucket holds what that leaves or less.
RateIsBounded ==
  \A p \in Principal :
    /\ bucket[p].since <= time /\ bucket[p].tokens <= Capacity
    /\ spent[p] + bucket[p].tokens <= Capacity + bucket[p].since

\* What a refusal says holds: after the wait it names, a request of that cost
\* passes, unless the principal has spent tokens in between.
RetryAfterIsTrue ==
  \A p \in Principal : time >= told[p].by => Refilled(p) >= told[p].cost

GateInv == GateTypes /\ PermitsAreConserved /\ RateIsBounded /\ RetryAfterIsTrue

\* A request that waits for a permit gets one, unless the process ends.
WaitersRun == \A c \in Client : http[c].at = "wait" ~> http[c].at # "wait"

=============================================================================
