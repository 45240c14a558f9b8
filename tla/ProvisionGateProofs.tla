------------------------ MODULE ProvisionGateProofs ------------------------
(***************************************************************************)
(* The provisioning service: its limits, for any number of clients and     *)
(* principals, any number of permits, any queue and any burst; and the     *)
(* journal file of an identity with the proofs taken from it, for any      *)
(* calls, any seed and program and any faults.                             *)
(*                                                                         *)
(* GateInv is not inductive in one place: that a refused principal passes  *)
(* when it was told so follows from what its bucket holds now, not from    *)
(* what it will hold then.  The set of requests that hold a permit is      *)
(* finite although nothing bounds the clients: it is counted.              *)
(*                                                                         *)
(* FileInv is not inductive.  That an answer is a checkpoint needs that    *)
(* every chain a call holds is in the file or behind a line that no parser *)
(* takes; that a chain is seeded once needs that every line is.  Inclusion *)
(* proofs are a lemma for every length of chain: on the way up from an     *)
(* entry, the proof so far leads from its leaf to the digest above it.     *)
(***************************************************************************)
EXTENDS ProvisionGate, ProvisionFile, FiniteSetTheorems, SequenceTheorems, WellFoundedInduction,
        TLAPS

Places == {"idle", "body", "held body", "wait", "work"}

\* The wait a refusal names is what the bucket lacks, and the cost fits in it.
TellsWhatLacks ==
  \A p \in Principal :
    /\ told[p].cost <= Capacity
    /\ told[p].cost = 0 \/ told[p].cost <= bucket[p].tokens + (told[p].by - bucket[p].since)

Queue ==
  /\ waiting \in Seq(Client) /\ IsInjective(waiting) /\ Len(waiting) <= MaxWaiting
  /\ Range(waiting) = {c \in Client : http[c].at = "wait"}
  /\ waiting # <<>> => active = Permits
Counted == IsFiniteSet(Holders) /\ active = Cardinality(Holders) /\ active <= Permits

Semaphore ==
  /\ alive \in BOOLEAN /\ active \in Nat /\ ends \in Nat
  /\ http \in [Client -> [route : Route, at : Places]]
  /\ Queue /\ Counted
Buckets ==
  /\ bucket \in [Principal -> [tokens : Nat, since : Nat]]
  /\ time \in Nat
  /\ spent \in [Principal -> Nat]
  /\ told \in [Principal -> [cost : Nat, by : Nat]]
  /\ RateIsBounded /\ TellsWhatLacks

semaphoreVars == <<alive, active, waiting, http, ends>>
bucketVars == <<bucket, time, spent, told>>

-----------------------------------------------------------------------------
(* The queue. *)

\* A request joins the queue at its end.
LEMMA QueueGrows ==
  ASSUME NEW S, NEW s \in Seq(S), NEW c \in S, IsInjective(s), c \notin Range(s)
  PROVE  /\ Append(s, c) \in Seq(S) /\ Len(Append(s, c)) = Len(s) + 1
         /\ IsInjective(Append(s, c)) /\ Range(Append(s, c)) = Range(s) \cup {c}
<1> DEFINE t == Append(s, c)
<1>1. /\ t \in Seq(S) /\ Len(t) = Len(s) + 1 /\ Len(s) \in Nat
      /\ DOMAIN s = 1 .. Len(s) /\ DOMAIN t = 1 .. Len(s) + 1
      /\ \A i \in 1 .. Len(s) : t[i] = s[i]
      /\ t[Len(s) + 1] = c
  OBVIOUS
<1> HIDE DEF t
<1>2. \A i \in DOMAIN s : s[i] # c
  BY DEF Range
<1>3. IsInjective(t)
  <2>1. ASSUME NEW i \in DOMAIN t, NEW j \in DOMAIN t, t[i] = t[j] PROVE i = j
    <3>1. CASE i \in DOMAIN s /\ j \in DOMAIN s
      BY <1>1, <2>1, <3>1 DEF IsInjective
    <3>2. CASE i = Len(s) + 1 \/ j = Len(s) + 1
      BY <1>1, <1>2, <2>1, <3>2
    <3> QED
      BY <1>1, <3>1, <3>2
  <2> QED
    BY <2>1 DEF IsInjective
<1>4. Range(t) = Range(s) \cup {c}
  BY <1>1 DEF Range
<1> QED
  BY <1>1, <1>3, <1>4 DEF t

\* The first of the queue leaves it.
LEMMA QueueShrinks ==
  ASSUME NEW S, NEW s \in Seq(S), s # <<>>, IsInjective(s)
  PROVE  /\ Tail(s) \in Seq(S) /\ Len(Tail(s)) = Len(s) - 1
         /\ IsInjective(Tail(s)) /\ Head(s) \in Range(s)
         /\ Range(Tail(s)) = Range(s) \ {Head(s)}
<1> DEFINE t == Tail(s)
<1>1. /\ t \in Seq(S) /\ Len(t) = Len(s) - 1 /\ Len(s) \in Nat \ {0}
      /\ DOMAIN s = 1 .. Len(s) /\ DOMAIN t = 1 .. Len(s) - 1
      /\ \A i \in 1 .. Len(s) - 1 : t[i] = s[i + 1]
      /\ Head(s) = s[1]
  BY EmptySeq
<1> HIDE DEF t
<1>2. IsInjective(t)
  <2>1. ASSUME NEW i \in DOMAIN t, NEW j \in DOMAIN t, t[i] = t[j] PROVE i = j
    <3>1. i + 1 \in DOMAIN s /\ j + 1 \in DOMAIN s /\ s[i + 1] = s[j + 1]
      BY <1>1, <2>1
    <3>2. i + 1 = j + 1
      BY <3>1 DEF IsInjective
    <3> QED
      BY <1>1, <3>2
  <2> QED
    BY <2>1 DEF IsInjective
<1>3. Range(t) = Range(s) \ {Head(s)}
  <2>1. ASSUME NEW x \in Range(t) PROVE x \in Range(s) \ {Head(s)}
    <3>1. PICK i \in DOMAIN t : x = t[i]
      BY DEF Range
    <3>2. i + 1 \in DOMAIN s /\ 1 \in DOMAIN s /\ i + 1 # 1 /\ x = s[i + 1]
      BY <1>1, <3>1
    <3> QED
      BY <1>1, <3>2 DEF IsInjective, Range
  <2>2. ASSUME NEW x \in Range(s) \ {Head(s)} PROVE x \in Range(t)
    <3>1. PICK i \in DOMAIN s : x = s[i] /\ i # 1
      BY <1>1 DEF Range
    <3>2. i - 1 \in DOMAIN t /\ t[i - 1] = x
      BY <1>1, <3>1
    <3> QED
      BY <3>2 DEF Range
  <2> QED
    BY <2>1, <2>2
<1>4. Head(s) \in Range(s)
  BY <1>1 DEF Range
<1> QED
  BY <1>1, <1>2, <1>3, <1>4 DEF t

-----------------------------------------------------------------------------
(* The semaphore. *)

HoldsPermit(r) == r.at \in {"held body", "work"}

\* One request changes and is still in the same relation to the semaphore.
LEMMA RequestMoves ==
  ASSUME Semaphore, NEW c \in Client, NEW r \in [route : Route, at : Places],
         http' = [http EXCEPT ![c] = r], UNCHANGED <<alive, active, waiting, ends>>,
         HoldsPermit(r) <=> HoldsPermit(http[c]), r.at # "wait", http[c].at # "wait"
  PROVE  Semaphore'
<1>1. /\ http' \in [Client -> [route : Route, at : Places]] /\ http'[c] = r
      /\ \A d \in Client \ {c} : http'[d] = http[d]
  BY DEF Semaphore
<1>2. Holders' = Holders
  BY <1>1 DEF Holders, HoldsPermit
<1>3. {d \in Client : http'[d].at = "wait"} = {d \in Client : http[d].at = "wait"}
  BY <1>1
<1> QED
  BY <1>1, <1>2, <1>3 DEF Semaphore, Queue, Counted

\* The end of the process leaves no request, no waiter and no permit taken.
LEMMA CollapseKeeps ==
  ASSUME Semaphore, Collapse
  PROVE  Semaphore'
<1>1. /\ http' = [c \in Client |-> Quiet] /\ active' = 0 /\ waiting' = <<>>
      /\ alive' = FALSE /\ ends' \in Nat
  BY DEF Collapse, Semaphore
<1>2. Holders' = {}
  BY <1>1 DEF Holders, Quiet
<1>3. IsFiniteSet({}) /\ Cardinality({}) = 0
  BY FS_EmptySet
<1>4. Counted'
  BY <1>1, <1>2, <1>3, GateAssumption DEF Counted
<1>5. Queue'
  <2>1. waiting' \in Seq(Client) /\ IsInjective(waiting') /\ Len(waiting') = 0 /\ Range(waiting') = {}
    BY <1>1 DEF IsInjective, Range
  <2> QED
    BY <1>1, <2>1, GateAssumption DEF Queue, Quiet
<1> QED
  BY <1>1, <1>4, <1>5 DEF Semaphore, Quiet, Route, Places

\* A permit is taken while there is one; otherwise the request waits, or is turned
\* away from a full queue.
LEMMA AcquireKeeps ==
  ASSUME Semaphore, NEW c \in Client, NEW route \in Route, http[c].at \in {"idle", "body"},
         Acquire(c, route)
  PROVE  Semaphore'
<1>1. CASE active < Permits /\ active' = active + 1
  <2> DEFINE r == [route |-> route, at |-> Granted(route)]
  <2>1. http' = [http EXCEPT ![c] = r] /\ UNCHANGED <<alive, waiting, ends>>
    BY <1>1, GateAssumption DEF Acquire, Semaphore, Collapse
  <2>2. r \in [route : Route, at : Places] /\ HoldsPermit(r)
    BY DEF Granted, Places, HoldsPermit
  <2> HIDE DEF r
  <2>3. /\ http' \in [Client -> [route : Route, at : Places]] /\ http'[c] = r
        /\ \A d \in Client \ {c} : http'[d] = http[d]
    BY <2>1, <2>2 DEF Semaphore
  <2>4. Holders' = Holders \cup {c} /\ c \notin Holders
    BY <2>2, <2>3 DEF Holders, HoldsPermit
  <2>5. Counted'
    BY <1>1, <2>4, FS_AddElement, GateAssumption DEF Semaphore, Counted
  <2>6. waiting = <<>>
    BY <1>1, GateAssumption DEF Semaphore, Queue
  <2>7. {d \in Client : http'[d].at = "wait"} = {d \in Client : http[d].at = "wait"}
    BY <2>2, <2>3 DEF HoldsPermit
  <2>8. Queue'
    BY <2>1, <2>6, <2>7 DEF Semaphore, Queue
  <2> QED
    BY <1>1, <2>1, <2>3, <2>5, <2>8 DEF Semaphore
<1>2. CASE active >= Permits /\ waiting' = Append(waiting, c) /\ Len(waiting) < MaxWaiting
  <2> DEFINE r == [route |-> route, at |-> "wait"]
  <2>1. http' = [http EXCEPT ![c] = r] /\ UNCHANGED <<alive, active, ends>>
    BY <1>2, GateAssumption DEF Acquire, Semaphore, Queue, Collapse
  <2>2. r \in [route : Route, at : Places] /\ r.at = "wait"
    BY DEF Places
  <2> HIDE DEF r
  <2>3. /\ http' \in [Client -> [route : Route, at : Places]] /\ http'[c] = r
        /\ \A d \in Client \ {c} : http'[d] = http[d]
    BY <2>1, <2>2 DEF Semaphore
  <2>4. Holders' = Holders
    BY <2>2, <2>3 DEF Holders
  <2>5. Counted'
    BY <2>1, <2>4 DEF Semaphore, Counted
  <2>6. c \notin Range(waiting) /\ waiting \in Seq(Client) /\ IsInjective(waiting)
    BY DEF Semaphore, Queue
  <2>7. /\ waiting' \in Seq(Client) /\ IsInjective(waiting') /\ Len(waiting') <= MaxWaiting
        /\ Range(waiting') = Range(waiting) \cup {c}
    BY <1>2, <2>6, QueueGrows, GateAssumption, LenProperties
  <2>8. {d \in Client : http'[d].at = "wait"} = {d \in Client : http[d].at = "wait"} \cup {c}
    BY <2>2, <2>3
  <2>9. active' = Permits
    BY <1>2, <2>1, GateAssumption DEF Semaphore, Counted
  <2>10. Queue'
    BY <2>7, <2>8, <2>9 DEF Semaphore, Queue
  <2> QED
    BY <2>1, <2>3, <2>5, <2>10 DEF Semaphore
<1>3. CASE Collapse
  BY <1>3, CollapseKeeps
<1>4. CASE http' = Idle(http, c) /\ UNCHANGED <<alive, active, waiting, ends>>
  <2> DEFINE r == [http[c] EXCEPT !.at = "idle"]
  <2>1. r \in [route : Route, at : Places] /\ http' = [http EXCEPT ![c] = r]
    BY <1>4 DEF Semaphore, Idle, Places
  <2> QED
    BY <1>4, <2>1, RequestMoves DEF HoldsPermit
<1> QED
  BY <1>1, <1>2, <1>3, <1>4 DEF Acquire

\* A request that ends hands its permit to the first that waits, or gives it back.
LEMMA ReleaseKeeps ==
  ASSUME Semaphore, NEW c \in Client, http[c].at = "work", Release(c), UNCHANGED <<alive, ends>>
  PROVE  Semaphore'
<1> DEFINE r == [http[c] EXCEPT !.at = "idle"]
<1>1. r \in [route : Route, at : Places] /\ r.at = "idle" /\ Idle(http, c) = [http EXCEPT ![c] = r]
  BY DEF Semaphore, Idle, Places
<1> HIDE DEF r
<1>2. c \in Holders /\ IsFiniteSet(Holders) /\ active = Cardinality(Holders)
  BY DEF Holders, Semaphore, Counted
<1>3. /\ IsFiniteSet(Holders \ {c}) /\ Cardinality(Holders \ {c}) = active - 1
      /\ active \in Nat /\ active - 1 \in Nat /\ active <= Permits
  <2>1. /\ IsFiniteSet(Holders \ {c}) /\ Cardinality(Holders \ {c}) = active - 1
    BY <1>2, FS_RemoveElement
  <2>2. active - 1 \in Nat
    BY <2>1, FS_CardinalityType
  <2> QED
    BY <2>1, <2>2 DEF Semaphore, Counted
<1>4. CASE waiting = <<>>
  <2>1. active' = active - 1 /\ http' = [http EXCEPT ![c] = r] /\ UNCHANGED waiting
    BY <1>1, <1>4 DEF Release
  <2>2. /\ http' \in [Client -> [route : Route, at : Places]] /\ http'[c] = r
        /\ \A d \in Client \ {c} : http'[d] = http[d]
    BY <1>1, <2>1 DEF Semaphore
  <2>3. Holders' = Holders \ {c}
    BY <1>1, <2>2 DEF Holders
  <2>4. {d \in Client : http'[d].at = "wait"} = {d \in Client : http[d].at = "wait"}
    BY <1>1, <2>2
  <2>5. Counted'
    BY <1>3, <2>1, <2>3, GateAssumption DEF Counted
  <2>6. Queue'
    BY <1>4, <2>1, <2>4 DEF Semaphore, Queue
  <2> QED
    BY <1>3, <2>1, <2>2, <2>5, <2>6 DEF Semaphore
<1>5. CASE waiting # <<>>
  <2> DEFINE next == Head(waiting)
             g == [http[next] EXCEPT !.at = Granted(http[next].route)]
  <2>1. /\ waiting' = Tail(waiting) /\ UNCHANGED active
        /\ http' = [Idle(http, c) EXCEPT ![next].at = Granted(http[next].route)]
    BY <1>5 DEF Release
  <2>2. /\ waiting' \in Seq(Client) /\ Len(waiting') = Len(waiting) - 1 /\ IsInjective(waiting')
        /\ next \in Range(waiting) /\ Range(waiting') = Range(waiting) \ {next}
    BY <1>5, <2>1, QueueShrinks DEF Semaphore, Queue
  <2>3. next \in Client /\ http[next].at = "wait" /\ next # c
    BY <2>2 DEF Semaphore, Queue
  <2>4. g \in [route : Route, at : Places] /\ HoldsPermit(g)
    BY <2>3 DEF Semaphore, Granted, Places, HoldsPermit
  <2>5. http' = [http EXCEPT ![c] = r, ![next] = g]
    BY <1>1, <2>1, <2>3 DEF Semaphore
  <2> HIDE DEF next, g
  <2>6. /\ http' \in [Client -> [route : Route, at : Places]] /\ http'[c] = r /\ http'[next] = g
        /\ \A d \in Client \ {c, next} : http'[d] = http[d]
    BY <1>1, <2>3, <2>4, <2>5 DEF Semaphore
  <2>7. Holders' = (Holders \ {c}) \cup {next} /\ next \notin Holders \ {c}
    BY <1>1, <2>3, <2>4, <2>6 DEF Holders, HoldsPermit
  <2>8. Counted'
    <3>1. IsFiniteSet(Holders') /\ Cardinality(Holders') = (active - 1) + 1
      BY <1>3, <2>7, FS_AddElement
    <3> QED
      BY <1>3, <2>1, <3>1 DEF Counted
  <2>9. {d \in Client : http'[d].at = "wait"} = {d \in Client : http[d].at = "wait"} \ {next}
    BY <1>1, <2>3, <2>4, <2>6 DEF HoldsPermit
  <2>10. Queue'
    <3>1. Len(waiting) \in Nat /\ Len(waiting) <= MaxWaiting /\ active = Permits
      BY <1>5, LenProperties DEF Semaphore, Queue
    <3> QED
      BY <2>1, <2>2, <2>9, <3>1, GateAssumption DEF Semaphore, Queue
  <2> QED
    BY <2>1, <2>6, <2>8, <2>10 DEF Semaphore
<1> QED
  BY <1>4, <1>5

-----------------------------------------------------------------------------
(* The buckets. *)

\* Refilling fills a bucket to its brim and no further, and gives what time gives.
LEMMA RefilledIsBounded ==
  ASSUME Buckets, NEW p \in Principal
  PROVE  /\ Refilled(p) \in Nat /\ Refilled(p) <= Capacity
         /\ Refilled(p) <= bucket[p].tokens + (time - bucket[p].since)
         /\ \A n \in Nat :
              n <= Capacity /\ n <= bucket[p].tokens + (time - bucket[p].since) => n <= Refilled(p)
<1>1. /\ bucket[p].tokens \in Nat /\ bucket[p].since \in Nat /\ time \in Nat
      /\ bucket[p].since <= time /\ Capacity \in Nat
  BY GateAssumption DEF Buckets, RateIsBounded
<1> QED
  BY <1>1 DEF Refilled

\* A principal's new entries keep what is said of it, the others' are as before.
LEMMA BucketMoves ==
  ASSUME Buckets, NEW p \in Principal, NEW b \in [tokens : Nat, since : Nat],
         NEW s \in Nat, NEW t \in [cost : Nat, by : Nat],
         bucket' = [bucket EXCEPT ![p] = b], spent' = [spent EXCEPT ![p] = s],
         told' = [told EXCEPT ![p] = t], time' = time,
         b.since <= time, b.tokens <= Capacity, s + b.tokens <= Capacity + b.since,
         t.cost <= Capacity, t.cost = 0 \/ t.cost <= b.tokens + (t.by - b.since)
  PROVE  Buckets'
<1>1. /\ bucket' \in [Principal -> [tokens : Nat, since : Nat]]
      /\ spent' \in [Principal -> Nat] /\ told' \in [Principal -> [cost : Nat, by : Nat]]
      /\ bucket'[p] = b /\ spent'[p] = s /\ told'[p] = t
      /\ \A q \in Principal \ {p} : bucket'[q] = bucket[q] /\ spent'[q] = spent[q] /\ told'[q] = told[q]
  BY DEF Buckets
<1>2. RateIsBounded'
  BY <1>1 DEF Buckets, RateIsBounded
<1>3. TellsWhatLacks'
  BY <1>1 DEF Buckets, TellsWhatLacks
<1> QED
  BY <1>1, <1>2, <1>3 DEF Buckets

\* What is taken was there, and a refusal tells what is lacking.
LEMMA TakingKeeps ==
  ASSUME Buckets, NEW p \in Principal, NEW route \in Route, time' = time,
         Refuse(p, Cost(route)) \/ Take(p, Cost(route))
  PROVE  Buckets'
<1> DEFINE cost == Cost(route)
           lacks == Refilled(p)
<1>1. cost \in Nat \ {0} /\ cost <= Capacity
  BY GateAssumption DEF Cost
<1>2. /\ lacks \in Nat /\ lacks <= Capacity
      /\ lacks <= bucket[p].tokens + (time - bucket[p].since)
  BY RefilledIsBounded
<1>3. /\ bucket[p].tokens \in Nat /\ bucket[p].since \in Nat /\ time \in Nat /\ spent[p] \in Nat
      /\ spent[p] + bucket[p].tokens <= Capacity + bucket[p].since /\ Capacity \in Nat
  BY GateAssumption DEF Buckets, RateIsBounded
<1>4. lacks \in Nat /\ spent[p] + lacks <= Capacity + time
  BY <1>2, <1>3
<1>5. CASE Refuse(p, cost)
  <2> DEFINE b == [tokens |-> lacks, since |-> time]
             t == [cost |-> cost, by |-> time + cost - lacks]
  <2>1. /\ lacks < cost /\ bucket' = [bucket EXCEPT ![p] = b] /\ told' = [told EXCEPT ![p] = t]
        /\ spent' = [spent EXCEPT ![p] = spent[p]]
    BY <1>5 DEF Refuse, Buckets
  <2> HIDE DEF cost, lacks
  <2>2. b \in [tokens : Nat, since : Nat] /\ t \in [cost : Nat, by : Nat]
        /\ b.tokens = lacks /\ b.since = time /\ t.cost = cost /\ t.by = time + cost - lacks
    BY <1>1, <1>3, <1>4, <2>1
  <2>3. t.cost <= b.tokens + (t.by - b.since)
    BY <1>1, <1>3, <1>4, <2>2
  <2>4. /\ b.since <= time /\ b.tokens <= Capacity /\ spent[p] + b.tokens <= Capacity + b.since
        /\ t.cost <= Capacity
    BY <1>1, <1>2, <1>3, <1>4, <2>2
  <2> HIDE DEF b, t
  <2> QED
    BY <1>3, <2>1, <2>2, <2>3, <2>4, BucketMoves
<1>6. CASE Take(p, cost)
  <2> DEFINE b == [tokens |-> lacks - cost, since |-> time]
  <2>1. /\ lacks >= cost /\ bucket' = [bucket EXCEPT ![p] = b] /\ told' = [told EXCEPT ![p] = NotTold]
        /\ spent' = [spent EXCEPT ![p] = spent[p] + cost]
    BY <1>6 DEF Take
  <2> HIDE DEF cost, lacks
  <2>2. /\ b \in [tokens : Nat, since : Nat] /\ b.tokens = lacks - cost /\ b.since = time
        /\ NotTold \in [cost : Nat, by : Nat] /\ NotTold.cost = 0
        /\ b.tokens <= Capacity /\ (spent[p] + cost) + b.tokens <= Capacity + b.since
        /\ spent[p] + cost \in Nat /\ b.since <= time /\ NotTold.cost <= Capacity
    BY <1>1, <1>2, <1>3, <1>4, <2>1 DEF NotTold
  <2> HIDE DEF b
  <2> QED
    BY <2>1, <2>2, BucketMoves
<1> QED
  BY <1>5, <1>6

\* Time fills buckets; a new process has full ones and has told nobody anything.
LEMMA ClockKeeps ==
  ASSUME Buckets, Tick \/ RestartProcess
  PROVE  Buckets'
<1>1. CASE Tick
  BY <1>1 DEF Tick, Buckets, RateIsBounded, TellsWhatLacks
<1>2. CASE RestartProcess
  <2>1. /\ bucket' = [p \in Principal |-> [tokens |-> Capacity, since |-> time]]
        /\ spent' = [p \in Principal |-> 0] /\ told' = [p \in Principal |-> [cost |-> 0, by |-> 0]]
        /\ time' = time /\ time \in Nat /\ Capacity \in Nat
    BY <1>2, GateAssumption DEF RestartProcess, Full, NotTold, Buckets
  <2>2. /\ bucket' \in [Principal -> [tokens : Nat, since : Nat]]
        /\ spent' \in [Principal -> Nat] /\ told' \in [Principal -> [cost : Nat, by : Nat]]
    BY <2>1
  <2>3. RateIsBounded' /\ TellsWhatLacks'
    BY <2>1 DEF RateIsBounded, TellsWhatLacks
  <2> QED
    BY <2>1, <2>2, <2>3 DEF Buckets
<1> QED
  BY <1>1, <1>2

-----------------------------------------------------------------------------
GateInd == Semaphore /\ Buckets

\* The invariant holds at first.
LEMMA GateInitInd == GateInit => GateInd
<1> SUFFICES ASSUME GateInit PROVE GateInd
  OBVIOUS
<1>1. /\ Holders = {} /\ IsFiniteSet({}) /\ Cardinality({}) = 0
  BY FS_EmptySet DEF GateInit, Holders, Quiet
<1>2. Counted
  BY <1>1, GateAssumption DEF GateInit, Counted
<1>3. Queue
  <2>1. waiting \in Seq(Client) /\ IsInjective(waiting) /\ Len(waiting) = 0 /\ Range(waiting) = {}
    BY DEF GateInit, IsInjective, Range
  <2> QED
    BY <2>1, GateAssumption DEF GateInit, Queue, Quiet
<1>4. Semaphore
  BY <1>2, <1>3 DEF GateInit, Semaphore, Quiet, Route, Places
<1>5. /\ bucket = [p \in Principal |-> [tokens |-> Capacity, since |-> 0]]
      /\ told = [p \in Principal |-> [cost |-> 0, by |-> 0]] /\ Capacity \in Nat
  BY GateAssumption DEF GateInit, Full, NotTold
<1>6. RateIsBounded /\ TellsWhatLacks
  BY <1>5 DEF GateInit, RateIsBounded, TellsWhatLacks
<1>7. Buckets
  BY <1>5, <1>6 DEF GateInit, Buckets
<1> QED
  BY <1>4, <1>7 DEF GateInd

\* A step that leaves the semaphore alone keeps it.
LEMMA StillSemaphore == Semaphore /\ UNCHANGED semaphoreVars => Semaphore'
BY DEF semaphoreVars, Semaphore, Queue, Counted, Holders

\* A step that leaves the buckets alone keeps them.
LEMMA StillBuckets == Buckets /\ UNCHANGED bucketVars => Buckets'
BY DEF bucketVars, Buckets, RateIsBounded, TellsWhatLacks

\* Every step keeps the invariant.
LEMMA GateStepInd == GateInd /\ [GateNext]_gateVars => GateInd'
<1> SUFFICES ASSUME Semaphore, Buckets, [GateNext]_gateVars PROVE Semaphore' /\ Buckets'
  BY DEF GateInd
<1>1. CASE Tick \/ RestartProcess
  <2>1. CASE Tick
    BY <2>1, ClockKeeps, StillSemaphore DEF Tick, semaphoreVars
  <2>2. CASE RestartProcess
    <3>1. UNCHANGED <<active, waiting, http, ends>> /\ alive' = TRUE
      BY <2>2 DEF RestartProcess
    <3> QED
      BY <2>2, <3>1, ClockKeeps DEF Semaphore, Queue, Counted, Holders
  <2> QED
    BY <1>1, <2>1, <2>2
<1>2. ASSUME NEW c \in Client, TooMany(c) PROVE Semaphore' /\ Buckets'
  BY <1>2, TakingKeeps, StillSemaphore DEF TooMany, semaphoreVars
<1>3. ASSUME NEW c \in Client, Arrive(c) PROVE Semaphore' /\ Buckets'
  <2>1. PICK p \in Principal, route \in Route :
          /\ Take(p, Cost(route))
          /\ CASE route = "list" -> UNCHANGED <<alive, active, waiting, http, ends>>
               [] route = "provision" ->
                    /\ http' = [http EXCEPT ![c] = [route |-> route, at |-> "body"]]
                    /\ UNCHANGED <<alive, active, waiting, ends>>
               [] OTHER -> Acquire(c, route)
    BY <1>3 DEF Arrive
  <2>2. time' = time /\ http[c].at = "idle"
    BY <1>3 DEF Arrive
  <2>3. Buckets'
    BY <2>1, <2>2, TakingKeeps
  <2>4. CASE route = "list"
    BY <2>1, <2>3, <2>4, StillSemaphore DEF semaphoreVars
  <2>5. CASE route = "provision"
    <3> DEFINE r == [route |-> route, at |-> "body"]
    <3>1. http' = [http EXCEPT ![c] = r] /\ UNCHANGED <<alive, active, waiting, ends>>
      BY <2>1, <2>5
    <3>2. r \in [route : Route, at : Places] /\ r.at = "body"
      BY DEF Places
    <3> HIDE DEF r
    <3> QED
      BY <2>2, <2>3, <3>1, <3>2, RequestMoves DEF HoldsPermit
  <2>6. CASE route \notin {"list", "provision"}
    BY <2>1, <2>2, <2>3, <2>6, AcquireKeeps
  <2> QED
    BY <2>4, <2>5, <2>6
<1>4. ASSUME NEW c \in Client, Body(c) PROVE Semaphore' /\ Buckets'
  <2>1. Buckets' /\ http[c].at = "body" /\ http[c].route \in Route
    BY <1>4, StillBuckets DEF Body, bucketVars, Semaphore
  <2>2. CASE Acquire(c, http[c].route)
    BY <2>1, <2>2, AcquireKeeps
  <2>3. CASE http' = Idle(http, c) /\ UNCHANGED <<alive, active, waiting, ends>>
    <3> DEFINE r == [http[c] EXCEPT !.at = "idle"]
    <3>1. r \in [route : Route, at : Places] /\ http' = [http EXCEPT ![c] = r]
      BY <2>3 DEF Semaphore, Idle, Places
    <3> QED
      BY <2>1, <2>3, <3>1, RequestMoves DEF HoldsPermit
  <2> QED
    BY <1>4, <2>2, <2>3, <2>1 DEF Body
<1>5. ASSUME NEW c \in Client, HeldBody(c) PROVE Semaphore' /\ Buckets'
  <2> DEFINE r == [http[c] EXCEPT !.at = "work"]
  <2>1. r \in [route : Route, at : Places] /\ http' = [http EXCEPT ![c] = r]
    BY <1>5 DEF HeldBody, Semaphore, Places
  <2> QED
    BY <1>5, <2>1, RequestMoves, StillBuckets DEF HeldBody, HoldsPermit, bucketVars
<1>6. ASSUME NEW c \in Client, BadHeldBody(c) PROVE Semaphore' /\ Buckets'
  BY <1>6, CollapseKeeps, StillBuckets DEF BadHeldBody, bucketVars
<1>7. ASSUME NEW c \in Client, Work(c) PROVE Semaphore' /\ Buckets'
  BY <1>7, ReleaseKeeps, StillBuckets DEF Work, bucketVars
<1>8. CASE UNCHANGED gateVars
  BY <1>8, StillSemaphore, StillBuckets DEF gateVars, semaphoreVars, bucketVars
<1> QED
  BY <1>1, <1>2, <1>3, <1>4, <1>5, <1>6, <1>7, <1>8 DEF GateNext

\* Permits are neither lost nor made, no principal gets more than burst and
\* refill, and the wait a refusal names is long enough: for any clients,
\* principals, permits and limits, whenever the process ends.
THEOREM GateStaysTrue == GateSpec => []GateInv
<1>1. ASSUME GateInd PROVE GateInv
  <2>1. GateTypes
    BY <1>1 DEF GateInd, Semaphore, Queue, Buckets, GateTypes, Places
  <2>2. PermitsAreConserved /\ RateIsBounded
    BY <1>1 DEF GateInd, Semaphore, Queue, Counted, Buckets, PermitsAreConserved
  <2>3. ASSUME NEW p \in Principal, time >= told[p].by PROVE Refilled(p) >= told[p].cost
    <3>1. /\ told[p].cost \in Nat /\ told[p].by \in Nat /\ time \in Nat /\ told[p].cost <= Capacity
          /\ bucket[p].tokens \in Nat /\ bucket[p].since \in Nat
          /\ told[p].cost = 0 \/ told[p].cost <= bucket[p].tokens + (told[p].by - bucket[p].since)
      BY <1>1 DEF GateInd, Buckets, TellsWhatLacks
    <3>2. /\ Refilled(p) \in Nat
          /\ told[p].cost <= bucket[p].tokens + (time - bucket[p].since) => told[p].cost <= Refilled(p)
      BY <1>1, <3>1, RefilledIsBounded DEF GateInd
    <3> QED
      BY <2>3, <3>1, <3>2
  <2> QED
    BY <2>1, <2>2, <2>3 DEF GateInv, RetryAfterIsTrue
<1> QED
  BY <1>1, GateInitInd, GateStepInd, PTL DEF GateSpec

-----------------------------------------------------------------------------
(* The journal file of one identity (ProvisionFile).                       *)

LineBody == {"seed", "run"} \X Call \X Nat
History == Seq(LineBody)
Provision == [at : {"start", "run", "answered", "refused", "failed"},
              boot : {"none", "seed", "replay"}, list : History, left : Nat]

\* h begins with k bodies of the seed of d, and has nothing of a seed after.
HasSeed(h, d, k) ==
  /\ k <= Len(h)
  /\ \A i \in 1 .. k : h[i] = <<"seed", d, i>>
  /\ \A i \in k + 1 .. Len(h) : h[i][1] = "run"
Sown(h) == \E d \in Call, k \in 0 .. SeedLength : HasSeed(h, d, k)
WhollySown(h) == \E d \in Call : HasSeed(h, d, SeedLength)

FileShapes ==
  /\ file \in Seq(History) /\ ending \in {"whole", "bare"}
  /\ pv \in [Call -> Provision]
  /\ cuts \in Nat
  /\ spoilt \in BOOLEAN /\ unseeded \in BOOLEAN /\ overlapped \in BOOLEAN

Holds(r) == r.at \in {"run", "answered"}

\* A call holds a chain of a file that exists, and the file has the head of it,
\* or a line that no parser takes, which it then has for ever.
ChainsAreFiled(f, p) ==
  \A c \in Call : Holds(p[c]) =>
    /\ p[c].list # <<>>
    /\ \E i \in 1 .. Len(f) : f[i] = p[c].list \/ f[i] = Torn

\* While no two calls overlap and no write has left anything, the file loads
\* and a call that runs has the whole of it.
OneChain(f, end, p) ==
  /\ Loads(f) /\ end = "whole"
  /\ \A c \in Call : p[c].at = "run" => p[c].list = Chain(f)
  /\ \A c, d \in Call : p[c].at = "run" /\ p[d].at = "run" => c = d

\* Every line and every chain is sown; unless seeding was cut short the last
\* line is wholly sown, and so is every chain.
LinesAreSown(f, p, cut) ==
  /\ \A i \in 1 .. Len(f) : f[i] = Torn \/ Sown(f[i])
  /\ \A c \in Call : Holds(p[c]) => Sown(p[c].list)
  /\ f = <<>> => ~cut
  /\ ~cut => /\ \A c \in Call : Holds(p[c]) => WhollySown(p[c].list)
             /\ f # <<>> => f[Len(f)] = Torn \/ WhollySown(f[Len(f)])

FileInd ==
  /\ FileShapes
  /\ ChainsAreFiled(file, pv)
  /\ ~overlapped /\ ~spoilt => OneChain(file, ending, pv)
  /\ LinesAreSown(file, pv, unseeded)

\* A file that was written to with e: a line that was there is there, or is one
\* that no parser takes, and what is new is e or such a line.
Grows(f, g, e) ==
  /\ g # <<>>
  /\ \A i \in 1 .. Len(f) : \E j \in 1 .. Len(g) : g[j] = f[i] \/ g[j] = Torn
  /\ \A j \in 1 .. Len(g) : \/ g[j] = Torn \/ g[j] = e
                           \/ \E i \in 1 .. Len(f) : g[j] = f[i]
  /\ g[Len(g)] = e \/ g[Len(g)] = Torn

\* A set of numbers that is not empty has a least member.
LEMMA NatMin ==
  ASSUME NEW T \in SUBSET Nat, T # {}
  PROVE  \E x \in T : \A y \in T : x <= y
<1>1. IsWellFoundedOn(OpToRel(<, Nat), Nat)
  BY NatLessThanWellFounded
<1>2. PICK R : R = OpToRel(<, Nat)
  OBVIOUS
<1>3. \A m, n \in Nat : m < n => <<m, n>> \in R
  BY <1>2 DEF OpToRel
<1>4. PICK x \in T : \A y \in T : <<y, x>> \notin R
  BY <1>1, <1>2, WFMin
<1>5. ASSUME NEW y \in T PROVE x <= y
  <2>1. x \in Nat /\ y \in Nat /\ ~ (y < x)
    BY <1>3, <1>4
  <2> QED
    BY <2>1
<1> QED
  BY <1>5

\* What a write makes of a file.
LEMMA WrittenGrows ==
  ASSUME NEW f \in Seq(History), NEW end \in {"whole", "bare"}, NEW e \in History
  PROVE  /\ Written(f, end, e) \in Seq(History) /\ Grows(f, Written(f, end, e), e)
         /\ end = "whole" => Written(f, end, e) = Append(f, e) /\ Written(f, end, e) # f
<1>1. PICK L \in Nat : L = Len(f)
  OBVIOUS
<1>2. Torn \in History
  BY EmptySeq DEF Torn, History
<1>3. CASE end = "whole"
  <2>1. PICK g : g = Append(f, e)
    OBVIOUS
  <2>2. /\ g \in Seq(History) /\ g # <<>> /\ Len(g) = L + 1 /\ g[L + 1] = e
        /\ \A i \in 1 .. L : g[i] = f[i]
    BY <1>1, <2>1, AppendProperties
  <2>3. \A i \in 1 .. L + 1 : i \in 1 .. L \/ i = L + 1
    OBVIOUS
  <2>4. \A i \in 1 .. L : i \in 1 .. L + 1
    OBVIOUS
  <2>5. Grows(f, g, e)
    BY <1>1, <2>2, <2>3, <2>4 DEF Grows
  <2>6. g # f
    BY <1>1, <2>2
  <2> QED
    BY <1>3, <2>1, <2>2, <2>5, <2>6 DEF Written
<1>4. CASE end = "bare"
  <2>1. PICK h : h = Front(f)
    OBVIOUS
  <2>2. PICK M \in Nat : /\ h \in Seq(History) /\ Len(h) = M /\ M <= L
                         /\ (L = 0 => M = 0) /\ (L # 0 => M = L - 1)
                         /\ \A i \in 1 .. M : h[i] = f[i]
    <3>1. CASE L = 0
      <4>1. f = <<>>
        BY <1>1, <3>1, EmptySeq
      <4>2. h = <<>>
        BY <2>1, <4>1 DEF Front
      <4> QED
        BY <3>1, <4>2, EmptySeq
    <3>2. CASE L # 0
      <4>1. h = SubSeq(f, 1, L - 1)
        BY <1>1, <2>1 DEF Front
      <4>2. L - 1 \in Nat /\ L - 1 <= L
        BY <3>2
      <4>3. h \in Seq(History) /\ Len(h) = L - 1 /\ \A i \in 1 .. L - 1 : h[i] = f[i]
        BY <1>1, <4>1, <4>2
      <4> QED
        BY <3>2, <4>2, <4>3
    <3> QED
      BY <3>1, <3>2
  <2>3. PICK g : g = Append(h, Torn)
    OBVIOUS
  <2>4. /\ g \in Seq(History) /\ g # <<>> /\ Len(g) = M + 1 /\ g[M + 1] = Torn
        /\ \A i \in 1 .. M : g[i] = f[i]
    BY <1>2, <2>2, <2>3, AppendProperties
  <2>5. \A i \in 1 .. M + 1 : i = M + 1 \/ (i \in 1 .. M /\ i \in 1 .. L)
    BY <2>2
  <2>6. \A i \in 1 .. M : i \in 1 .. M + 1
    OBVIOUS
  <2>7. M + 1 \in 1 .. M + 1
    OBVIOUS
  <2>8. Grows(f, g, e)
    BY <1>1, <2>2, <2>4, <2>5, <2>6, <2>7 DEF Grows
  <2> QED
    BY <1>4, <2>1, <2>3, <2>4, <2>8 DEF Written
<1> QED
  BY <1>3, <1>4

\* What a write leaves that was cut short.
LEMMA LeftGrows ==
  ASSUME NEW f \in Seq(History), NEW end \in {"whole", "bare"}, NEW e \in History,
         NEW state \in Left(f, end, e)
  PROVE  /\ state.file \in Seq(History) /\ state.ending \in {"whole", "bare"}
         /\ \/ state.file = f /\ state.ending = end
            \/ /\ Grows(f, state.file, e)
               /\ end = "whole" => state.file # f
<1>1. Torn \in History
  BY EmptySeq DEF Torn, History
<1>2. PICK w : w = Written(f, end, e)
  OBVIOUS
<1>3. PICK t : t = Written(f, end, Torn)
  OBVIOUS
<1>4. /\ w \in Seq(History) /\ Grows(f, w, e) /\ (end = "whole" => w # f)
      /\ t \in Seq(History) /\ Grows(f, t, Torn) /\ (end = "whole" => t # f)
  BY <1>1, <1>2, <1>3, WrittenGrows
<1>5. Grows(f, t, e)
  BY <1>4 DEF Grows
<1>6. \/ state.file = f /\ state.ending = end
      \/ state.file = w /\ state.ending \in {"whole", "bare"}
      \/ state.file = t /\ state.ending \in {"whole", "bare"}
  BY <1>2, <1>3 DEF Left
<1> QED
  BY <1>4, <1>5, <1>6

\* In a file that loads, the line at a place is a history of that length.
LEMMA LoadedLines ==
  ASSUME NEW f \in Seq(History), Loads(f)
  PROVE  \A i \in 1 .. Len(f) : Len(f[i]) = i /\ f[i] # Torn
<1>1. \A i \in 1 .. Len(f) : LineVerifies(f, i) /\ f[i] \in History
  BY ElementOfSeq DEF Loads
<1>2. ASSUME NEW i \in 1 .. Len(f)
      PROVE  /\ f[i] # Torn /\ Len(f[i]) \in Nat \ {0}
             /\ i = 1 => Len(f[i]) = 1
             /\ i # 1 => Len(f[i]) = Len(f[i - 1]) + 1
  <2>1. PICK h \in Seq(LineBody) : h = f[i]
    BY <1>1 DEF History
  <2>2. h # <<>> /\ Front(h) = IF i = 1 THEN <<>> ELSE f[i - 1]
    BY <1>1, <2>1 DEF LineVerifies, Torn
  <2>3. PICK m \in Nat : Len(h) = m + 1
    <3>1. Len(h) \in Nat /\ Len(h) # 0
      BY <2>2, EmptySeq
    <3> QED
      BY <3>1
  <2>4. Front(h) = SubSeq(h, 1, m)
    BY <2>3 DEF Front
  <2>5. \A k \in 1 .. m : h[k] \in LineBody
    BY <2>3
  <2>6. Len(Front(h)) = m
    BY <2>4, <2>5, SubSeqProperties
  <2>7. ASSUME i = 1 PROVE m = 0
    BY <2>2, <2>6, <2>7, EmptySeq
  <2>8. ASSUME i # 1 PROVE Len(f[i - 1]) = m
    BY <2>2, <2>6, <2>8
  <2> QED
    BY <2>1, <2>2, <2>3, <2>7, <2>8 DEF Torn
<1> DEFINE Wrong == {i \in 1 .. Len(f) : Len(f[i]) # i}
<1>3. Wrong = {}
  <2> SUFFICES ASSUME Wrong # {} PROVE FALSE
    OBVIOUS
  <2>1. Wrong \in SUBSET Nat
    OBVIOUS
  <2>2. PICK n \in Wrong : \A m \in Wrong : n <= m
    BY <2>1, NatMin
  <2>3. n \in 1 .. Len(f) /\ n # 1 /\ Len(f[n]) = Len(f[n - 1]) + 1
    BY <1>2
  <2>4. n - 1 \in 1 .. Len(f) /\ ~ (n <= n - 1)
    BY <2>3
  <2>5. Len(f[n - 1]) = n - 1
    BY <2>2, <2>4
  <2>6. Len(f[n]) = n
    BY <2>3, <2>5
  <2> QED
    BY <2>6
<1> QED
  BY <1>2, <1>3

\* Front takes back what Append has added.
LEMMA FrontOfAppend ==
  ASSUME NEW h \in History, NEW b \in LineBody
  PROVE  /\ Append(h, b) \in History /\ Append(h, b) # <<>>
         /\ Front(Append(h, b)) = h
<1>1. PICK n \in Nat : n = Len(h)
  BY DEF History
<1>2. PICK g : g = Append(h, b)
  OBVIOUS
<1>3. g \in Seq(LineBody) /\ g # <<>> /\ Len(g) = n + 1 /\ \A i \in 1 .. n : g[i] = h[i]
  BY <1>1, <1>2, AppendProperties DEF History
<1>4. Front(g) = SubSeq(g, 1, n)
  BY <1>3 DEF Front
<1>5. \A i \in 1 .. n : g[i] \in LineBody
  BY <1>3
<1>6. SubSeq(g, 1, n) \in Seq(LineBody) /\ Len(SubSeq(g, 1, n)) = n
  BY <1>5, SubSeqProperties
<1>7. \A i \in 1 .. n : SubSeq(g, 1, n)[i] = h[i]
  <2> TAKE i \in 1 .. n
  <2>1. SubSeq(g, 1, n)[i] = g[1 + i - 1]
    BY <1>5, SubSeqProperties
  <2>2. 1 + i - 1 = i
    OBVIOUS
  <2> QED
    BY <1>3, <2>1, <2>2
<1>8. SubSeq(g, 1, n) = h
  BY <1>1, <1>6, <1>7, SeqEqual DEF History
<1> QED
  BY <1>2, <1>3, <1>4, <1>8 DEF History

\* A file that loads does so with one more entry of its own chain.
LEMMA AppendedLoads ==
  ASSUME NEW f \in Seq(History), Loads(f), f # <<>>, NEW b \in LineBody
  PROVE  /\ Chain(f) \in History /\ Chain(f) = f[Len(f)]
         /\ Loads(Append(f, Append(Chain(f), b)))
         /\ Chain(Append(f, Append(Chain(f), b))) = Append(Chain(f), b)
<1>1. PICK L \in Nat : L = Len(f) /\ L # 0
  BY EmptySeq
<1>2. PICK h \in History : h = Chain(f) /\ h = f[L]
  <2>1. f[L] \in History
    BY <1>1, ElementOfSeq
  <2> QED
    BY <1>1, <2>1 DEF Chain, Last
<1>3. PICK e \in History : e = Append(h, b) /\ e # <<>> /\ Front(e) = h
  BY FrontOfAppend
<1>4. PICK g : g = Append(f, e)
  OBVIOUS
<1>5. /\ g \in Seq(History) /\ g # <<>> /\ Len(g) = L + 1 /\ g[L + 1] = e
      /\ \A i \in 1 .. L : g[i] = f[i]
  BY <1>1, <1>4, AppendProperties
<1>6. ASSUME NEW i \in 1 .. L PROVE LineVerifies(g, i)
  <2>1. LineVerifies(f, i)
    BY <1>1 DEF Loads
  <2>2. i # 1 => i - 1 \in 1 .. L
    OBVIOUS
  <2> QED
    BY <1>5, <2>1, <2>2 DEF LineVerifies
<1>7. LineVerifies(g, L + 1)
  <2>1. L + 1 # 1 /\ (L + 1) - 1 = L /\ L \in 1 .. L
    BY <1>1
  <2> QED
    BY <1>2, <1>3, <1>5, <2>1 DEF LineVerifies, Torn
<1>8. Loads(g)
  <2>1. \A i \in DOMAIN g : i \in 1 .. L \/ i = L + 1
    BY <1>5
  <2> QED
    BY <1>6, <1>7, <2>1 DEF Loads
<1>9. Chain(g) = e
  BY <1>5 DEF Chain, Last
<1> QED
  BY <1>1, <1>2, <1>3, <1>4, <1>8, <1>9

\* The bodies of a seed, and the file they make.
LEMMA SeedIsSown ==
  ASSUME NEW c \in Call, NEW k \in Nat
  PROVE  /\ SeedBodies(c, k) \in History /\ Len(SeedBodies(c, k)) = k
         /\ HasSeed(SeedBodies(c, k), c, k)
<1>1. PICK h : h = SeedBodies(c, k)
  OBVIOUS
<1>2. h = [i \in 1 .. k |-> <<"seed", c, i>>]
  BY <1>1 DEF SeedBodies
<1>3. h \in Seq(LineBody) /\ Len(h) = k
  BY <1>2 DEF LineBody
<1>4. HasSeed(h, c, k)
  BY <1>2, <1>3 DEF HasSeed
<1> QED
  BY <1>1, <1>3, <1>4 DEF History

\* The file that seeding leaves loads, and its chain is the seed.
LEMMA SeedsLoad ==
  ASSUME NEW c \in Call, NEW k \in Nat
  PROVE  /\ Seeded(c, k) \in Seq(History) /\ Len(Seeded(c, k)) = k
         /\ \A i \in 1 .. k : Seeded(c, k)[i] = SeedBodies(c, i)
         /\ Loads(Seeded(c, k))
<1>1. PICK f : f = Seeded(c, k)
  OBVIOUS
<1>2. f = [i \in 1 .. k |-> SeedBodies(c, i)]
  BY <1>1 DEF Seeded
<1>3. \A i \in 1 .. k : SeedBodies(c, i) \in History /\ i \in Nat
  BY SeedIsSown
<1>4. f \in Seq(History) /\ Len(f) = k /\ DOMAIN f = 1 .. k
  BY <1>2, <1>3
<1>5. ASSUME NEW i \in 1 .. k PROVE LineVerifies(f, i)
  <2>1. PICK m \in Nat : i = m + 1
    <3>1. i - 1 \in Nat /\ i = (i - 1) + 1
      OBVIOUS
    <3> QED
      BY <3>1
  <2>2. PICK h \in History, p \in History : h = SeedBodies(c, i) /\ p = SeedBodies(c, m)
    BY <1>3, SeedIsSown
  <2>3. Len(h) = m + 1 /\ Len(p) = m
    BY <2>1, <2>2, SeedIsSown
  <2>4. \A j \in 1 .. m : h[j] = <<"seed", c, j>> /\ p[j] = <<"seed", c, j>>
    BY <2>1, <2>2 DEF SeedBodies
  <2>5. h[m + 1] \in LineBody
    BY <2>3 DEF History
  <2>6. PICK g : g = Append(p, h[m + 1])
    OBVIOUS
  <2>7. /\ g \in Seq(LineBody) /\ Len(g) = m + 1 /\ g[m + 1] = h[m + 1]
        /\ \A j \in 1 .. m : g[j] = p[j]
    BY <2>3, <2>5, <2>6, AppendProperties DEF History
  <2>8. \A j \in 1 .. m + 1 : g[j] = h[j]
    <3>1. \A j \in 1 .. m + 1 : j \in 1 .. m \/ j = m + 1
      OBVIOUS
    <3> QED
      BY <2>4, <2>7, <3>1
  <2>9. g = h
    BY <2>3, <2>7, <2>8, SeqEqual DEF History
  <2>10. Front(h) = p /\ h # <<>>
    BY <2>5, <2>6, <2>9, FrontOfAppend
  <2>11. i = 1 => p = <<>>
    BY <2>1, <2>3, EmptySeq DEF History
  <2>12. i # 1 => f[i - 1] = p
    <3>1. i # 1 => i - 1 \in 1 .. k /\ i - 1 = m
      BY <2>1
    <3> QED
      BY <1>2, <2>2, <3>1
  <2>13. f[i] = h
    BY <1>2, <2>2
  <2> QED
    BY <2>10, <2>11, <2>12, <2>13 DEF LineVerifies, Torn
<1> QED
  BY <1>1, <1>2, <1>4, <1>5 DEF Loads

\* What a program appends keeps its seed.
LEMMA RunsStaySown ==
  ASSUME NEW h \in History, NEW b \in LineBody, b[1] = "run"
  PROVE  /\ Sown(h) => Sown(Append(h, b))
         /\ WhollySown(h) => WhollySown(Append(h, b))
<1>1. ASSUME NEW d \in Call, NEW k \in Nat, HasSeed(h, d, k)
      PROVE  HasSeed(Append(h, b), d, k)
  <2>1. PICK n \in Nat : n = Len(h)
    BY DEF History
  <2>2. PICK g : g = Append(h, b)
    OBVIOUS
  <2>3. /\ Len(g) = n + 1 /\ g[n + 1] = b /\ \A i \in 1 .. n : g[i] = h[i]
    BY <2>1, <2>2, AppendProperties DEF History
  <2>4. /\ k <= n /\ \A i \in 1 .. k : h[i] = <<"seed", d, i>>
        /\ \A i \in k + 1 .. n : h[i][1] = "run"
    BY <1>1, <2>1 DEF HasSeed
  <2>5. \A i \in 1 .. k : i \in 1 .. n
    BY <2>4
  <2>6. \A i \in k + 1 .. n + 1 : (i \in k + 1 .. n /\ i \in 1 .. n) \/ i = n + 1
    BY <2>4
  <2>7. k <= n + 1
    BY <2>4
  <2> QED
    BY <2>2, <2>3, <2>4, <2>5, <2>6, <2>7 DEF HasSeed
<1>2. 0 .. SeedLength \subseteq Nat /\ SeedLength \in Nat
  BY FileAssumption DEF FileAssumption
<1> QED
  BY <1>1, <1>2 DEF Sown, WhollySown

\* What calls hold after a write: what they held, or what was written.
Follows(p, q, e) ==
  \A c \in Call : Holds(q[c]) => \/ Holds(p[c]) /\ q[c].list = p[c].list
                                 \/ q[c].list = e

\* A write of a history, whole or torn, keeps every chain in the file and
\* every line sown.
LEMMA GrownKeeps ==
  ASSUME NEW f \in Seq(History), NEW g \in Seq(History), NEW e \in History, e # <<>>,
         NEW p, NEW q, NEW cut \in BOOLEAN, Grows(f, g, e), Follows(p, q, e),
         ChainsAreFiled(f, p), LinesAreSown(f, p, cut),
         Sown(e), ~cut => WhollySown(e)
  PROVE  ChainsAreFiled(g, q) /\ LinesAreSown(g, q, cut)
<1>1. Len(g) \in 1 .. Len(g)
  BY EmptySeq DEF Grows
<1>2. ChainsAreFiled(g, q)
  <2>1. ASSUME NEW c \in Call, Holds(q[c])
        PROVE  /\ q[c].list # <<>>
               /\ \E i \in 1 .. Len(g) : g[i] = q[c].list \/ g[i] = Torn
    <3>1. CASE Holds(p[c]) /\ q[c].list = p[c].list
      <4>1. /\ q[c].list # <<>>
            /\ \E i \in 1 .. Len(f) : f[i] = q[c].list \/ f[i] = Torn
        BY <3>1 DEF ChainsAreFiled
      <4>2. PICK i \in 1 .. Len(f) : f[i] = q[c].list \/ f[i] = Torn
        BY <4>1
      <4>3. PICK j \in 1 .. Len(g) : g[j] = f[i] \/ g[j] = Torn
        BY DEF Grows
      <4> QED
        BY <4>1, <4>2, <4>3
    <3>2. CASE q[c].list = e
      BY <1>1, <3>2 DEF Grows
    <3> QED
      BY <2>1, <3>1, <3>2 DEF Follows
  <2> QED
    BY <2>1 DEF ChainsAreFiled
<1>3. \A j \in 1 .. Len(g) : g[j] = Torn \/ Sown(g[j])
  <2> TAKE j \in 1 .. Len(g)
  <2>1. g[j] = Torn \/ g[j] = e \/ \E i \in 1 .. Len(f) : g[j] = f[i]
    BY DEF Grows
  <2> QED
    BY <2>1 DEF LinesAreSown
<1>4. \A c \in Call : Holds(q[c]) => Sown(q[c].list) /\ (~cut => WhollySown(q[c].list))
  <2> SUFFICES ASSUME NEW c \in Call, Holds(q[c])
               PROVE  Sown(q[c].list) /\ (~cut => WhollySown(q[c].list))
    OBVIOUS
  <2>1. CASE Holds(p[c]) /\ q[c].list = p[c].list
    BY <2>1 DEF LinesAreSown
  <2>2. CASE q[c].list = e
    BY <2>2
  <2> QED
    BY <2>1, <2>2 DEF Follows
<1>5. g # <<>> /\ (g[Len(g)] = e \/ g[Len(g)] = Torn)
  BY DEF Grows
<1> QED
  BY <1>2, <1>3, <1>4, <1>5 DEF LinesAreSown

\* So does a step that writes nothing.
LEMMA SameFileKeeps ==
  ASSUME NEW f \in Seq(History), NEW p, NEW q, NEW cut \in BOOLEAN,
         ChainsAreFiled(f, p), LinesAreSown(f, p, cut),
         \A c \in Call : Holds(q[c]) => Holds(p[c]) /\ q[c].list = p[c].list
  PROVE  ChainsAreFiled(f, q) /\ LinesAreSown(f, q, cut)
<1>1. ChainsAreFiled(f, q)
  <2>1. ASSUME NEW c \in Call, Holds(q[c])
        PROVE  /\ q[c].list # <<>>
               /\ \E i \in 1 .. Len(f) : f[i] = q[c].list \/ f[i] = Torn
    <3>1. Holds(p[c]) /\ q[c].list = p[c].list
      BY <2>1
    <3> QED
      BY <3>1 DEF ChainsAreFiled
  <2> QED
    BY <2>1 DEF ChainsAreFiled
<1>2. \A c \in Call : Holds(q[c]) => Sown(q[c].list) /\ (~cut => WhollySown(q[c].list))
  <2> SUFFICES ASSUME NEW c \in Call, Holds(q[c])
               PROVE  Sown(q[c].list) /\ (~cut => WhollySown(q[c].list))
    OBVIOUS
  <2>1. Holds(p[c]) /\ q[c].list = p[c].list
    OBVIOUS
  <2> QED
    BY <2>1 DEF LinesAreSown
<1> QED
  BY <1>1, <1>2 DEF LinesAreSown

\* No call holds a chain while there is no file.
LEMMA NoFileNoChain ==
  ASSUME NEW p, ChainsAreFiled(<<>>, p), NEW c \in Call
  PROVE  ~ Holds(p[c])
<1>1. Len(<<>>) = 0 /\ 1 .. 0 = {}
  BY EmptySeq
<1> QED
  BY <1>1 DEF ChainsAreFiled

\* There is no file and no call at first.
LEMMA FileBegins ==
  ASSUME FileInit
  PROVE  FileInd
<1>1. <<>> \in Seq(History) /\ <<>> \in History /\ Len(<<>>) = 0 /\ 1 .. 0 = {}
      /\ DOMAIN <<>> = {}
  BY EmptySeq DEF History
<1>2. NoProvision \in Provision /\ NoProvision.at = "start"
  BY <1>1 DEF NoProvision, Provision
<1>3. FileShapes
  BY <1>1, <1>2 DEF FileInit, FileShapes
<1>4. ChainsAreFiled(file, pv) /\ LinesAreSown(file, pv, unseeded)
  BY <1>1, <1>2 DEF FileInit, ChainsAreFiled, LinesAreSown, Holds
<1>5. OneChain(file, ending, pv)
  BY <1>1, <1>2 DEF FileInit, OneChain, Loads
<1> QED
  BY <1>3, <1>4, <1>5 DEF FileInd

\* A call that finds the file takes the chain of it, or is refused.
LEMMA LoadKeeps ==
  ASSUME FileInd, NEW c \in Call, Load(c)
  PROVE  FileInd'
<1>1. PICK f \in Seq(History) : f = file /\ f # <<>>
  BY DEF FileInd, FileShapes, Load, Exists
<1>2. PICK p \in [Call -> Provision] : p = pv
  BY DEF FileInd, FileShapes
<1>3. PICK cut \in BOOLEAN : cut = unseeded
  BY DEF FileInd, FileShapes
<1>4. /\ ChainsAreFiled(f, p) /\ LinesAreSown(f, p, cut)
      /\ ~overlapped /\ ~spoilt => OneChain(f, ending, p)
  BY <1>1, <1>2, <1>3 DEF FileInd
<1>5. /\ p[c].at = "start" /\ file' = f /\ ending' = ending /\ unseeded' = cut
      /\ spoilt' = spoilt /\ cuts' = cuts
      /\ overlapped' = (overlapped \/ \E o \in Call : p[o].at = "run")
  BY <1>1, <1>2, <1>3 DEF Load, Running
<1>6. overlapped' \in BOOLEAN
  BY <1>5 DEF FileInd, FileShapes
<1>7. CASE Loads(f)
  <2>1. PICK h : h = Chain(f)
    OBVIOUS
  <2>2. PICK n \in Nat : n = Len(f) /\ n \in 1 .. Len(f)
    BY <1>1, EmptySeq
  <2>3. h = f[n] /\ h \in History /\ h # <<>>
    <3>1. f[n] \in History /\ f[n] # Torn
      BY <1>7, <2>2, LoadedLines, ElementOfSeq
    <3> QED
      BY <2>1, <2>2, <3>1 DEF Chain, Last, Torn
  <2>4. PICK r \in Provision : /\ r.at = "run" /\ r.list = h
                               /\ pv' = [p EXCEPT ![c] = r]
    <3>1. PICK r : r = [at |-> "run", boot |-> "replay", list |-> h, left |-> RunLength]
      OBVIOUS
    <3>2. r \in Provision
      BY <2>3, <3>1, FileAssumption DEF Provision, FileAssumption
    <3>3. pv' = [p EXCEPT ![c] = r]
      BY <1>1, <1>2, <1>7, <2>1, <3>1 DEF Load
    <3> QED
      BY <3>1, <3>2, <3>3
  <2>5. PICK q \in [Call -> Provision] : /\ q = pv' /\ q[c] = r
                                         /\ \A d \in Call \ {c} : q[d] = p[d]
    BY <2>4
  <2>6. ChainsAreFiled(f, q)
    <3>1. \A d \in Call \ {c} : Holds(q[d]) =>
            /\ q[d].list # <<>>
            /\ \E i \in 1 .. Len(f) : f[i] = q[d].list \/ f[i] = Torn
      BY <1>4, <2>5 DEF ChainsAreFiled
    <3>2. /\ q[c].list # <<>>
          /\ \E i \in 1 .. Len(f) : f[i] = q[c].list \/ f[i] = Torn
      BY <2>2, <2>3, <2>4, <2>5
    <3> QED
      BY <3>1, <3>2 DEF ChainsAreFiled
  <2>7. LinesAreSown(f, q, cut)
    <3>1. Sown(h) /\ (~cut => WhollySown(h))
      BY <1>1, <1>4, <2>2, <2>3 DEF LinesAreSown, Torn
    <3>2. \A d \in Call : Holds(q[d]) => Sown(q[d].list) /\ (~cut => WhollySown(q[d].list))
      BY <1>4, <2>4, <2>5, <3>1 DEF LinesAreSown
    <3> QED
      BY <1>4, <3>2 DEF LinesAreSown
  <2>8. ASSUME ~ overlapped', ~ spoilt' PROVE OneChain(f, ending, q)
    <3>1. OneChain(f, ending, p) /\ \A d \in Call : p[d].at # "run"
      BY <1>4, <1>5, <2>8
    <3>2. \A d \in Call : q[d].at = "run" => d = c
      BY <2>5, <3>1
    <3> QED
      BY <2>1, <2>4, <2>5, <3>1, <3>2 DEF OneChain
  <2>9. FileShapes'
    BY <1>1, <1>3, <1>5, <1>6, <2>5 DEF FileInd, FileShapes
  <2> QED
    BY <1>5, <2>5, <2>6, <2>7, <2>8, <2>9 DEF FileInd
<1>8. CASE ~ Loads(f)
  <2>1. PICK r \in Provision : r.at = "refused" /\ pv' = [p EXCEPT ![c] = r]
    <3>1. PICK r : r = [p[c] EXCEPT !.at = "refused"]
      OBVIOUS
    <3>2. r \in Provision /\ r.at = "refused"
      BY <3>1 DEF Provision
    <3>3. pv' = [p EXCEPT ![c] = r]
      BY <1>1, <1>2, <1>8, <3>1 DEF Load
    <3> QED
      BY <3>2, <3>3
  <2>2. PICK q \in [Call -> Provision] : /\ q = pv' /\ q[c] = r
                                         /\ \A d \in Call \ {c} : q[d] = p[d]
    BY <2>1
  <2>3. \A d \in Call : Holds(q[d]) => Holds(p[d]) /\ q[d].list = p[d].list
    BY <2>1, <2>2 DEF Holds
  <2>4. ChainsAreFiled(f, q) /\ LinesAreSown(f, q, cut)
    BY <1>4, <2>3, SameFileKeeps
  <2>5. ~ (~ overlapped' /\ ~ spoilt')
    BY <1>4, <1>5, <1>8 DEF OneChain
  <2>6. FileShapes'
    BY <1>1, <1>3, <1>5, <1>6, <2>2 DEF FileInd, FileShapes
  <2> QED
    BY <1>5, <2>2, <2>4, <2>5, <2>6 DEF FileInd
<1> QED
  BY <1>7, <1>8

\* A call that finds none seeds it, alone: nobody held a chain.
LEMMA SeedKeeps ==
  ASSUME FileInd, NEW c \in Call, Seed(c)
  PROVE  FileInd'
<1>1. PICK g : g = Seeded(c, SeedLength)
  OBVIOUS
<1>2. PICK h : h = SeedBodies(c, SeedLength)
  OBVIOUS
<1>3. SeedLength \in Nat \ {0}
  BY FileAssumption DEF FileAssumption
<1>4. /\ g \in Seq(History) /\ Len(g) = SeedLength /\ Loads(g) /\ h \in History
      /\ \A i \in 1 .. SeedLength : g[i] = SeedBodies(c, i)
      /\ Len(h) = SeedLength
  BY <1>1, <1>2, <1>3, SeedsLoad, SeedIsSown
<1>5. h # <<>> /\ g # <<>> /\ g[SeedLength] = h /\ Chain(g) = h
  BY <1>2, <1>3, <1>4, EmptySeq DEF Chain, Last
<1>6. PICK p \in [Call -> Provision] : p = pv
  BY DEF FileInd, FileShapes
<1>7. /\ file = <<>> /\ p[c].at = "start" /\ file' = g /\ ending' = "whole"
      /\ unseeded' = unseeded /\ spoilt' = spoilt /\ cuts' = cuts
      /\ overlapped' = (overlapped \/ \E o \in Call : p[o].at = "run")
  BY <1>1, <1>6 DEF Seed, Exists, Running
<1>8. \A d \in Call : ~ Holds(p[d])
  BY <1>6, <1>7, NoFileNoChain DEF FileInd
<1>9. PICK r \in Provision : /\ r.at = "run" /\ r.list = h
                             /\ pv' = [p EXCEPT ![c] = r]
  <2>1. PICK r : r = [at |-> "run", boot |-> "seed", list |-> h, left |-> RunLength]
    OBVIOUS
  <2>2. r \in Provision
    BY <1>4, <2>1, FileAssumption DEF Provision, FileAssumption
  <2>3. pv' = [p EXCEPT ![c] = r]
    BY <1>2, <1>6, <2>1 DEF Seed
  <2> QED
    BY <2>1, <2>2, <2>3
<1>10. PICK q \in [Call -> Provision] : /\ q = pv' /\ q[c] = r
                                        /\ \A d \in Call \ {c} : q[d] = p[d]
  BY <1>9
<1>11. \A d \in Call : Holds(q[d]) => d = c /\ q[d].list = h
  BY <1>8, <1>9, <1>10
<1>12. ChainsAreFiled(g, q)
  BY <1>3, <1>4, <1>5, <1>11 DEF ChainsAreFiled
<1>13. Sown(h) /\ WhollySown(h)
  <2>1. HasSeed(h, c, SeedLength) /\ SeedLength \in 0 .. SeedLength
    BY <1>2, <1>3, SeedIsSown
  <2> QED
    BY <2>1 DEF Sown, WhollySown
<1>14. \A i \in 1 .. Len(g) : Sown(g[i])
  <2> TAKE i \in 1 .. Len(g)
  <2>1. i \in Nat /\ i \in 0 .. SeedLength
    BY <1>4
  <2>2. HasSeed(g[i], c, i)
    BY <1>4, <2>1, SeedIsSown
  <2> QED
    BY <2>1, <2>2 DEF Sown
<1>15. ~ unseeded
  BY <1>7 DEF FileInd, LinesAreSown
<1>16. LinesAreSown(g, q, unseeded)
  BY <1>4, <1>5, <1>11, <1>13, <1>14, <1>15 DEF LinesAreSown
<1>17. OneChain(g, "whole", q)
  <2>1. \A d \in Call : q[d].at = "run" => d = c /\ q[d].list = h
    BY <1>11 DEF Holds
  <2> QED
    BY <1>4, <1>5, <2>1 DEF OneChain
<1>18. FileShapes'
  BY <1>4, <1>7, <1>10 DEF FileInd, FileShapes
<1> QED
  BY <1>7, <1>10, <1>12, <1>16, <1>17, <1>18 DEF FileInd

\* The entry that a call appends next.
LEMMA NextEntryIsSown ==
  ASSUME FileInd, NEW c \in Call, Running(c)
  PROVE  /\ pv[c].list \in History /\ pv[c].left \in Nat /\ pv[c].list # <<>>
         /\ NextEntry(c) \in History /\ NextEntry(c) # <<>>
         /\ Sown(NextEntry(c)) /\ (~unseeded => WhollySown(NextEntry(c)))
         /\ \E b \in LineBody : NextEntry(c) = Append(pv[c].list, b)
<1>1. PICK h \in History, n \in Nat : h = pv[c].list /\ n = pv[c].left
  <2>1. pv[c] \in Provision
    BY DEF FileInd, FileShapes
  <2> QED
    BY <2>1 DEF Provision
<1>2. Holds(pv[c])
  BY DEF Holds, Running
<1>3. h # <<>> /\ Sown(h) /\ (~unseeded => WhollySown(h))
  BY <1>1, <1>2 DEF FileInd, ChainsAreFiled, LinesAreSown
<1>4. PICK b \in LineBody : b = <<"run", c, n>> /\ b[1] = "run"
  <2>1. <<"run", c, n>> \in LineBody /\ <<"run", c, n>>[1] = "run"
    BY DEF LineBody
  <2> QED
    BY <2>1
<1>5. NextEntry(c) = Append(h, b)
  BY <1>1, <1>4 DEF NextEntry
<1> QED
  BY <1>1, <1>3, <1>4, <1>5, FrontOfAppend, RunsStaySown

\* An entry goes to the chain and to the file.
LEMMA AppendLineKeeps ==
  ASSUME FileInd, NEW c \in Call, AppendLine(c)
  PROVE  FileInd'
<1>1. PICK f \in Seq(History), end \in {"whole", "bare"} : f = file /\ end = ending
  BY DEF FileInd, FileShapes
<1>2. PICK p \in [Call -> Provision] : p = pv
  BY DEF FileInd, FileShapes
<1>3. PICK cut \in BOOLEAN : cut = unseeded
  BY DEF FileInd, FileShapes
<1>4. /\ ChainsAreFiled(f, p) /\ LinesAreSown(f, p, cut)
      /\ ~overlapped /\ ~spoilt => OneChain(f, end, p)
  BY <1>1, <1>2, <1>3 DEF FileInd
<1>5. Running(c) /\ p[c].at = "run" /\ Holds(p[c])
  BY <1>2 DEF AppendLine, Running, Holds
<1>6. PICK e \in History : e = NextEntry(c)
  BY <1>5, NextEntryIsSown
<1>7. PICK b \in LineBody : e = Append(p[c].list, b)
  BY <1>2, <1>5, <1>6, NextEntryIsSown
<1>8. e # <<>> /\ Sown(e) /\ (~cut => WhollySown(e))
  BY <1>3, <1>5, <1>6, NextEntryIsSown
<1>9. PICK n \in Nat : n = p[c].left - 1
  <2>1. p[c].left \in Nat /\ p[c].left > 0
    BY <1>2, <1>5, NextEntryIsSown DEF AppendLine
  <2> QED
    BY <2>1
<1>10. PICK g : g = Written(f, end, e)
  OBVIOUS
<1>11. /\ g \in Seq(History) /\ Grows(f, g, e)
       /\ end = "whole" => g = Append(f, e)
  BY <1>10, WrittenGrows
<1>12. PICK r \in Provision : /\ r.at = "run" /\ r.list = e
                              /\ pv' = [p EXCEPT ![c] = r]
  <2>1. p[c] \in Provision
    OBVIOUS
  <2>2. PICK r : r = [p[c] EXCEPT !.list = e, !.left = n]
    OBVIOUS
  <2>3. r \in Provision /\ r.at = "run" /\ r.list = e
    BY <1>5, <2>1, <2>2 DEF Provision
  <2>4. pv' = [p EXCEPT ![c] = r]
    BY <1>2, <1>6, <1>9, <2>2 DEF AppendLine
  <2> QED
    BY <2>3, <2>4
<1>13. PICK q \in [Call -> Provision] : /\ q = pv' /\ q[c] = r
                                        /\ \A d \in Call \ {c} : q[d] = p[d]
  BY <1>12
<1>14. /\ file' = g /\ ending' = "whole" /\ unseeded' = cut /\ cuts' = cuts
       /\ spoilt' = spoilt /\ overlapped' = overlapped
  BY <1>1, <1>3, <1>6, <1>10 DEF AppendLine
<1>15. Follows(p, q, e)
  BY <1>12, <1>13 DEF Follows
<1>16. ChainsAreFiled(g, q) /\ LinesAreSown(g, q, cut)
  BY <1>4, <1>8, <1>11, <1>15, GrownKeeps
<1>17. ASSUME ~ overlapped', ~ spoilt' PROVE OneChain(g, "whole", q)
  <2>1. OneChain(f, end, p)
    BY <1>4, <1>14, <1>17
  <2>2. f # <<>>
    BY <1>4, <1>5, NoFileNoChain
  <2>3. p[c].list = Chain(f) /\ Loads(f) /\ g = Append(f, e)
    BY <1>5, <1>11, <2>1 DEF OneChain
  <2>4. Loads(g) /\ Chain(g) = e
    BY <1>7, <2>2, <2>3, AppendedLoads
  <2>5. \A d \in Call : q[d].at = "run" => d = c
    BY <1>5, <1>13, <2>1 DEF OneChain
  <2> QED
    BY <1>12, <1>13, <2>4, <2>5 DEF OneChain
<1>18. FileShapes'
  BY <1>3, <1>11, <1>13, <1>14 DEF FileInd, FileShapes
<1> QED
  BY <1>13, <1>14, <1>16, <1>17, <1>18 DEF FileInd

\* A step that writes nothing, and in which no call comes to run or changes
\* what it holds.
LEMMA StillFileKeeps ==
  ASSUME FileInd, NEW q \in [Call -> Provision], pv' = q,
         \A d \in Call : Holds(q[d]) => Holds(pv[d]) /\ q[d].list = pv[d].list,
         \A d \in Call : q[d].at = "run" => pv[d].at = "run" /\ q[d].list = pv[d].list,
         cuts' \in Nat, UNCHANGED <<file, ending, spoilt, unseeded, overlapped>>
  PROVE  FileInd'
<1>1. PICK f \in Seq(History), p \in [Call -> Provision], cut \in BOOLEAN :
        f = file /\ p = pv /\ cut = unseeded
  BY DEF FileInd, FileShapes
<1>2. ChainsAreFiled(f, q) /\ LinesAreSown(f, q, cut)
  BY <1>1, SameFileKeeps DEF FileInd
<1>3. ~ overlapped /\ ~ spoilt => OneChain(f, ending, q)
  BY <1>1 DEF FileInd, OneChain
<1>4. FileShapes'
  BY DEF FileInd, FileShapes
<1>5. file' = f /\ unseeded' = cut
  BY <1>1
<1> QED
  BY <1>2, <1>3, <1>4, <1>5 DEF FileInd

\* A write that is cut short, of the entry of a call that runs.
LEMMA CutShortKeeps ==
  ASSUME FileInd, NEW c \in Call, Running(c),
         NEW state \in Left(file, ending, NextEntry(c)), Leaves(state, file),
         NEW q \in [Call -> Provision], pv' = q,
         \A d \in Call : Holds(q[d]) => Holds(pv[d]) /\ q[d].list = pv[d].list,
         \A d \in Call : q[d].at = "run" => pv[d].at = "run" /\ q[d].list = pv[d].list,
         cuts' \in Nat, UNCHANGED <<unseeded, overlapped>>
  PROVE  FileInd'
<1>1. PICK f \in Seq(History), end \in {"whole", "bare"} : f = file /\ end = ending
  BY DEF FileInd, FileShapes
<1>2. PICK p \in [Call -> Provision], cut \in BOOLEAN : p = pv /\ cut = unseeded
  BY DEF FileInd, FileShapes
<1>3. PICK e \in History : /\ e = NextEntry(c) /\ e # <<>> /\ Sown(e)
                           /\ ~cut => WhollySown(e)
  BY <1>2, NextEntryIsSown
<1>4. PICK g : g = state.file
  OBVIOUS
<1>5. PICK new : new = state.ending
  OBVIOUS
<1>6. /\ g \in Seq(History) /\ new \in {"whole", "bare"}
      /\ \/ g = f /\ new = end
         \/ Grows(f, g, e) /\ (end = "whole" => g # f)
  BY <1>1, <1>3, <1>4, <1>5, LeftGrows
<1>7. /\ file' = g /\ ending' = new /\ spoilt' = (spoilt \/ g # f)
      /\ unseeded' = cut /\ overlapped' = overlapped
  BY <1>1, <1>2, <1>4, <1>5 DEF Leaves
<1>8. /\ ChainsAreFiled(f, p) /\ LinesAreSown(f, p, cut)
      /\ ~overlapped /\ ~spoilt => OneChain(f, end, p)
  BY <1>1, <1>2 DEF FileInd
<1>9. ChainsAreFiled(g, q) /\ LinesAreSown(g, q, cut)
  <2>1. \A d \in Call : Holds(q[d]) => Holds(p[d]) /\ q[d].list = p[d].list
    BY <1>2
  <2>2. CASE g = f
    BY <1>8, <2>1, <2>2, SameFileKeeps
  <2>3. CASE Grows(f, g, e)
    <3>1. Follows(p, q, e)
      BY <2>1 DEF Follows
    <3> QED
      BY <1>3, <1>6, <1>8, <2>3, <3>1, GrownKeeps
  <2> QED
    BY <1>6, <2>2, <2>3
<1>10. ASSUME ~ overlapped', ~ spoilt' PROVE OneChain(g, new, q)
  <2>1. OneChain(f, end, p) /\ g = f
    <3>1. ~ overlapped
      BY <1>7, <1>10
    <3>2. ~ spoilt /\ g = f
      BY <1>7, <1>10
    <3> QED
      BY <1>8, <3>1, <3>2
  <2>2. new = end
    BY <1>6, <2>1 DEF OneChain
  <2>3. \A d \in Call : q[d].at = "run" => p[d].at = "run" /\ q[d].list = p[d].list
    BY <1>2
  <2> QED
    BY <2>1, <2>2, <2>3 DEF OneChain
<1>11. spoilt' \in BOOLEAN
  BY <1>7 DEF FileInd, FileShapes
<1>12. FileShapes'
  BY <1>2, <1>6, <1>7, <1>11 DEF FileInd, FileShapes
<1> QED
  BY <1>7, <1>9, <1>10, <1>12 DEF FileInd

\* An answered call holds what it held.
LEMMA AnswerKeeps ==
  ASSUME FileInd, NEW c \in Call, Answer(c)
  PROVE  FileInd'
<1>1. PICK q : q = [pv EXCEPT ![c].at = "answered"]
  OBVIOUS
<1>2. pv \in [Call -> Provision] /\ cuts \in Nat
  BY DEF FileInd, FileShapes
<1>3. PICK r \in Provision : r.at = "answered" /\ r.list = pv[c].list /\ q = [pv EXCEPT ![c] = r]
  <2>1. pv[c] \in Provision
    BY <1>2
  <2>2. PICK r : r = [pv[c] EXCEPT !.at = "answered"]
    OBVIOUS
  <2>3. r \in Provision /\ r.at = "answered" /\ r.list = pv[c].list
    BY <2>1, <2>2 DEF Provision
  <2> QED
    BY <1>1, <1>2, <2>2, <2>3
<1>4. q \in [Call -> Provision] /\ q[c] = r /\ \A d \in Call \ {c} : q[d] = pv[d]
  BY <1>2, <1>3
<1>5. pv[c].at = "run"
  BY DEF Answer, Running
<1>6. \A d \in Call : Holds(q[d]) => Holds(pv[d]) /\ q[d].list = pv[d].list
  BY <1>3, <1>4, <1>5 DEF Holds
<1>7. \A d \in Call : q[d].at = "run" => pv[d].at = "run" /\ q[d].list = pv[d].list
  BY <1>3, <1>4
<1>8. pv' = q /\ cuts' = cuts /\ UNCHANGED <<file, ending, spoilt, unseeded, overlapped>>
  BY <1>1 DEF Answer
<1> QED
  BY <1>2, <1>4, <1>6, <1>7, <1>8, StillFileKeeps

\* A write that throws leaves the chain of the call as it was.
LEMMA AppendThrowsKeeps ==
  ASSUME FileInd, NEW c \in Call, AppendThrows(c)
  PROVE  FileInd'
<1>1. pv \in [Call -> Provision] /\ cuts \in Nat
  BY DEF FileInd, FileShapes
<1>2. Running(c) /\ pv[c].left > 0 /\ cuts' = cuts + 1 /\ UNCHANGED <<unseeded, overlapped>>
  BY DEF AppendThrows, Cut
<1>3. PICK state \in Left(file, ending, NextEntry(c)) : Leaves(state, file)
  BY DEF AppendThrows
<1>4. PICK r \in Provision : r.at \in {"run", "failed"} /\ r.list = pv[c].list
                             /\ pv' = [pv EXCEPT ![c] = r]
  <2>1. pv[c] \in Provision
    BY <1>1
  <2>2. CASE pv' = [pv EXCEPT ![c].left = @ - 1]
    <3>1. PICK n \in Nat : n = pv[c].left - 1
      BY <1>2, <2>1 DEF Provision
    <3>2. PICK r : r = [pv[c] EXCEPT !.left = n]
      OBVIOUS
    <3>3. r \in Provision /\ r.at = "run" /\ r.list = pv[c].list
      BY <1>2, <2>1, <3>2 DEF Provision, Running
    <3> QED
      BY <2>2, <3>1, <3>2, <3>3
  <2>3. CASE pv' = [pv EXCEPT ![c].at = "failed"]
    <3>1. PICK r : r = [pv[c] EXCEPT !.at = "failed"]
      OBVIOUS
    <3>2. r \in Provision /\ r.at = "failed" /\ r.list = pv[c].list
      BY <2>1, <3>1 DEF Provision
    <3> QED
      BY <2>3, <3>1, <3>2
  <2> QED
    BY <2>2, <2>3 DEF AppendThrows
<1>5. PICK q \in [Call -> Provision] : /\ q = pv' /\ q[c] = r
                                       /\ \A d \in Call \ {c} : q[d] = pv[d]
  BY <1>1, <1>4
<1>6. \A d \in Call : Holds(q[d]) => Holds(pv[d]) /\ q[d].list = pv[d].list
  BY <1>2, <1>4, <1>5 DEF Holds, Running
<1>7. \A d \in Call : q[d].at = "run" => pv[d].at = "run" /\ q[d].list = pv[d].list
  BY <1>2, <1>4, <1>5 DEF Running
<1>8. cuts' \in Nat
  BY <1>1, <1>2
<1> QED
  BY <1>2, <1>3, <1>5, <1>6, <1>7, <1>8, CutShortKeeps

\* So does the end of the process, which stops every call.
LEMMA DieKeeps ==
  ASSUME FileInd, Die
  PROVE  FileInd'
<1>1. pv \in [Call -> Provision] /\ cuts \in Nat
  BY DEF FileInd, FileShapes
<1>2. cuts' \in Nat /\ UNCHANGED <<unseeded, overlapped>>
  BY <1>1 DEF Die, Cut
<1>3. PICK q : q = [c \in Call |-> IF Running(c) THEN [pv[c] EXCEPT !.at = "failed"] ELSE pv[c]]
  OBVIOUS
<1>4. ASSUME NEW c \in Call
      PROVE  /\ q[c] \in Provision /\ q[c].list = pv[c].list
             /\ q[c].at = "failed" \/ (q[c].at = pv[c].at /\ q[c].at # "run")
  <2>1. pv[c] \in Provision
    BY <1>1
  <2>2. CASE Running(c)
    <3>1. q[c] = [pv[c] EXCEPT !.at = "failed"]
      BY <1>3, <2>2
    <3> QED
      BY <2>1, <3>1 DEF Provision
  <2>3. CASE ~ Running(c)
    <3>1. q[c] = pv[c] /\ pv[c].at # "run"
      BY <1>3, <2>3 DEF Running
    <3> QED
      BY <2>1, <3>1
  <2> QED
    BY <2>2, <2>3
<1>5. q \in [Call -> Provision]
  BY <1>3, <1>4
<1>6. pv' = q
  BY <1>3 DEF Die
<1>7. \A d \in Call : Holds(q[d]) => Holds(pv[d]) /\ q[d].list = pv[d].list
  BY <1>4 DEF Holds
<1>8. \A d \in Call : q[d].at = "run" => pv[d].at = "run" /\ q[d].list = pv[d].list
  BY <1>4
<1>9. CASE UNCHANGED <<file, ending, spoilt>>
  BY <1>2, <1>5, <1>6, <1>7, <1>8, <1>9, StillFileKeeps
<1>10. CASE \E c \in Call : Running(c) /\ pv[c].left > 0
              /\ \E state \in Left(file, ending, NextEntry(c)) : Leaves(state, file)
  <2>1. PICK c \in Call : Running(c)
          /\ \E state \in Left(file, ending, NextEntry(c)) : Leaves(state, file)
    BY <1>10
  <2>2. PICK state \in Left(file, ending, NextEntry(c)) : Leaves(state, file)
    BY <2>1
  <2> QED
    BY <1>2, <1>5, <1>6, <1>7, <1>8, <2>1, <2>2, CutShortKeeps
<1> QED
  BY <1>9, <1>10 DEF Die

\* A seed cut short leaves a file that begins with a part of it.
LEMMA SeedThrowsKeeps ==
  ASSUME FileInd, NEW c \in Call, SeedThrows(c)
  PROVE  FileInd'
<1>1. PICK p \in [Call -> Provision] : p = pv
  BY DEF FileInd, FileShapes
<1>2. /\ file = <<>> /\ p[c].at = "start" /\ cuts' = cuts + 1 /\ overlapped' = overlapped
  BY <1>1 DEF SeedThrows, Exists, Cut
<1>3. \A d \in Call : ~ Holds(p[d])
  BY <1>1, <1>2, NoFileNoChain DEF FileInd
<1>4. PICK k \in 0 .. SeedLength - 1 :
        \E state \in Left(Seeded(c, k), "whole", SeedBodies(c, k + 1)) :
          Leaves(state, Seeded(c, k)) /\ unseeded' = (state.file # <<>>)
  BY DEF SeedThrows
<1>5. PICK f : f = Seeded(c, k)
  OBVIOUS
<1>6. PICK e : e = SeedBodies(c, k + 1)
  OBVIOUS
<1>7. PICK state \in Left(f, "whole", e) : Leaves(state, f) /\ unseeded' = (state.file # <<>>)
  BY <1>4, <1>5, <1>6
<1>8. /\ k \in Nat /\ k + 1 \in Nat /\ k + 1 \in 0 .. SeedLength
      /\ \A i \in 1 .. k : i \in 0 .. SeedLength
  BY FileAssumption DEF FileAssumption
<1>9. /\ f \in Seq(History) /\ Len(f) = k /\ Loads(f) /\ e \in History
      /\ \A i \in 1 .. k : f[i] = SeedBodies(c, i)
  BY <1>5, <1>6, <1>8, SeedsLoad, SeedIsSown
<1>10. Sown(e) /\ \A i \in 1 .. k : Sown(f[i])
  <2>1. HasSeed(e, c, k + 1)
    BY <1>6, <1>8, SeedIsSown
  <2>2. \A i \in 1 .. k : HasSeed(f[i], c, i)
    <3> TAKE i \in 1 .. k
    <3>1. i \in Nat
      OBVIOUS
    <3> QED
      BY <1>9, <3>1, SeedIsSown
  <2> QED
    BY <1>8, <2>1, <2>2 DEF Sown
<1>11. PICK g : g = state.file
  OBVIOUS
<1>12. PICK new : new = state.ending
  OBVIOUS
<1>13. /\ g \in Seq(History) /\ new \in {"whole", "bare"}
       /\ \/ g = f /\ new = "whole"
          \/ Grows(f, g, e) /\ g # f
  BY <1>7, <1>9, <1>11, <1>12, LeftGrows
<1>14. /\ file' = g /\ ending' = new /\ spoilt' = (spoilt \/ g # f)
       /\ unseeded' = (g # <<>>)
  BY <1>7, <1>11, <1>12 DEF Leaves
<1>15. PICK r \in Provision : r.at = "failed" /\ pv' = [p EXCEPT ![c] = r]
  <2>1. PICK r : r = [p[c] EXCEPT !.at = "failed"]
    OBVIOUS
  <2>2. r \in Provision /\ r.at = "failed"
    BY <2>1 DEF Provision
  <2>3. pv' = [p EXCEPT ![c] = r]
    BY <1>1, <2>1 DEF SeedThrows
  <2> QED
    BY <2>2, <2>3
<1>16. PICK q \in [Call -> Provision] : /\ q = pv' /\ q[c] = r
                                        /\ \A d \in Call \ {c} : q[d] = p[d]
  BY <1>15
<1>17. \A d \in Call : ~ Holds(q[d]) /\ q[d].at # "run"
  BY <1>3, <1>15, <1>16 DEF Holds
<1>18. ChainsAreFiled(g, q)
  BY <1>17 DEF ChainsAreFiled
<1>19. \A j \in 1 .. Len(g) : g[j] = Torn \/ Sown(g[j])
  <2>1. CASE g = f
    BY <1>9, <1>10, <2>1
  <2>2. CASE Grows(f, g, e)
    <3> TAKE j \in 1 .. Len(g)
    <3>1. g[j] = Torn \/ g[j] = e \/ \E i \in 1 .. Len(f) : g[j] = f[i]
      BY <2>2 DEF Grows
    <3> QED
      BY <1>9, <1>10, <3>1
  <2> QED
    BY <1>13, <2>1, <2>2
<1>20. LinesAreSown(g, q, g # <<>>)
  BY <1>17, <1>19 DEF LinesAreSown
<1>21. ASSUME ~ spoilt' PROVE OneChain(g, new, q)
  <2>1. g = f /\ new = "whole"
    BY <1>13, <1>14, <1>21
  <2> QED
    BY <1>9, <1>17, <2>1 DEF OneChain
<1>22. FileShapes'
  BY <1>2, <1>13, <1>14, <1>16 DEF FileInd, FileShapes
<1>23. PICK cut : cut = (g # <<>>)
  OBVIOUS
<1> QED
  BY <1>14, <1>16, <1>18, <1>20, <1>21, <1>22, <1>23 DEF FileInd

\* Every step keeps the invariant.
LEMMA FileStep ==
  ASSUME FileInd, [FileNext]_fileVars
  PROVE  FileInd'
<1>1. CASE Die
  BY <1>1, DieKeeps
<1>2. ASSUME NEW c \in Call,
             \/ Load(c) \/ Seed(c) \/ AppendLine(c)
             \/ Answer(c) \/ AppendThrows(c) \/ SeedThrows(c)
      PROVE  FileInd'
  BY <1>2, LoadKeeps, SeedKeeps, AppendLineKeeps, AnswerKeeps, AppendThrowsKeeps, SeedThrowsKeeps
<1>3. CASE UNCHANGED fileVars
  BY <1>3 DEF fileVars, FileInd, FileShapes
<1> QED
  BY <1>1, <1>2, <1>3 DEF FileNext

\* A chain that is sown has the seed as its first bodies.
LEMMA SownHasBodies ==
  ASSUME NEW h \in History, NEW d \in Call, NEW k \in Nat, HasSeed(h, d, k)
  PROVE  SubSeq(h, 1, k) = SeedBodies(d, k)
<1>1. /\ k <= Len(h) /\ Len(h) \in Nat
      /\ \A i \in 1 .. k : h[i] = <<"seed", d, i>>
  BY DEF HasSeed, History
<1>2. \A i \in 1 .. k : h[i] \in LineBody
  BY <1>1 DEF History
<1>3. SubSeq(h, 1, k) \in Seq(LineBody) /\ Len(SubSeq(h, 1, k)) = k
  BY <1>2, SubSeqProperties
<1>4. \A i \in 1 .. k : SubSeq(h, 1, k)[i] = h[i]
  <2> TAKE i \in 1 .. k
  <2>1. SubSeq(h, 1, k)[i] = h[1 + i - 1]
    BY <1>2, SubSeqProperties
  <2>2. 1 + i - 1 = i
    OBVIOUS
  <2> QED
    BY <2>1, <2>2
<1>5. SeedBodies(d, k) \in Seq(LineBody) /\ Len(SeedBodies(d, k)) = k
  BY SeedIsSown DEF History
<1>6. \A i \in 1 .. k : SeedBodies(d, k)[i] = <<"seed", d, i>>
  BY DEF SeedBodies
<1>7. \A i \in 1 .. k : SubSeq(h, 1, k)[i] = SeedBodies(d, k)[i]
  BY <1>1, <1>4, <1>6
<1> QED
  BY <1>3, <1>5, <1>7, SeqEqual

\* The invariant says what is claimed of the file.
LEMMA FileHolds ==
  ASSUME FileInd
  PROVE  FileStaysLoadable /\ AnswersAreCheckpoints /\ SeededOnce
<1>1. PICK f \in Seq(History) : f = file
  BY DEF FileInd, FileShapes
<1>2. FileStaysLoadable
  BY DEF FileInd, OneChain, FileStaysLoadable
<1>3. \A c \in Call : Running(c) \/ Answered(c) => Holds(pv[c])
  BY DEF Running, Answered, Holds
<1>4. AnswersAreCheckpoints
  <2>1. ASSUME NEW c \in Call, Answered(c), Loads(f)
        PROVE  VerifyCheckpoint(f, pv[c].list, Len(pv[c].list))
    <3>1. PICK i \in 1 .. Len(f) : f[i] = pv[c].list \/ f[i] = Torn
      BY <1>1, <1>3, <2>1 DEF FileInd, ChainsAreFiled
    <3>2. Len(f[i]) = i /\ f[i] # Torn
      BY <2>1, LoadedLines
    <3>3. Len(pv[c].list) = i /\ f[i] = pv[c].list /\ Len(f) >= i
      BY <3>1, <3>2
    <3> QED
      BY <3>3 DEF VerifyCheckpoint
  <2> QED
    BY <1>1, <2>1 DEF AnswersAreCheckpoints
<1>5. SeededOnce
  <2>1. ASSUME NEW c \in Call, Running(c) \/ Answered(c)
        PROVE  \E d \in Call, k \in 0 .. SeedLength :
                 /\ SubSeq(pv[c].list, 1, k) = SeedBodies(d, k)
                 /\ \A i \in k + 1 .. Len(pv[c].list) : pv[c].list[i][1] = "run"
                 /\ ~unseeded => k = SeedLength
    <3>1. PICK h \in History : h = pv[c].list
      <4>1. pv[c] \in Provision
        BY DEF FileInd, FileShapes
      <4> QED
        BY <4>1 DEF Provision
    <3>2. SeedLength \in Nat /\ SeedLength \in 0 .. SeedLength /\ 0 .. SeedLength \subseteq Nat
      BY FileAssumption DEF FileAssumption
    <3>3. Holds(pv[c])
      BY <1>3, <2>1
    <3>4. Sown(h) /\ (~unseeded => WhollySown(h))
      BY <3>1, <3>3 DEF FileInd, LinesAreSown
    <3>5. PICK d \in Call, k \in 0 .. SeedLength :
            HasSeed(h, d, k) /\ (~unseeded => k = SeedLength)
      <4>1. CASE unseeded
        BY <3>4, <4>1 DEF Sown
      <4>2. CASE ~ unseeded
        BY <3>2, <3>4, <4>2 DEF WhollySown
      <4> QED
        BY <4>1, <4>2
    <3>6. SubSeq(h, 1, k) = SeedBodies(d, k)
      BY <3>2, <3>5, SownHasBodies
    <3>7. \A i \in k + 1 .. Len(h) : h[i][1] = "run"
      BY <3>5 DEF HasSeed
    <3> QED
      BY <3>1, <3>5, <3>6, <3>7
  <2> QED
    BY <2>1 DEF SeededOnce
<1> QED
  BY <1>2, <1>4, <1>5

-----------------------------------------------------------------------------
(* Inclusion proofs.                                                       *)

\* The digests of a level, m of them.
IsLevel(f, m) == f = [i \in 1 .. m |-> f[i]]
Base(n) == [i \in 1 .. n |-> Leaf(i)]

\* A level of m digests has that length.
LEMMA LevelLength ==
  ASSUME NEW m \in Nat, NEW f, IsLevel(f, m)
  PROVE  Len(f) = m /\ DOMAIN f = 1 .. m
<1> DEFINE S == {f[i] : i \in 1 .. m}
<1>1. \A i \in 1 .. m : f[i] \in S
  OBVIOUS
<1> HIDE DEF S
<1>2. f \in [1 .. m -> S]
  BY <1>1 DEF IsLevel
<1>3. f \in Seq(S)
  BY <1>2
<1> QED
  BY <1>2, <1>3

\* The levels are what the recursion says.
LEMMA LevelsAre ==
  ASSUME NEW n \in Nat
  PROVE  /\ Levels(n)[0] = Base(n)
         /\ \A k \in 1 .. n : Levels(n)[k] = Up(Levels(n)[k - 1])
<1> DEFINE Fits(f, m) == f = [k \in 0 .. m |-> IF k = 0 THEN Base(n) ELSE Up(f[k - 1])]
           Wrong == {m \in Nat : ~ \E f : Fits(f, m)}
<1>1. Wrong = {}
  <2> SUFFICES ASSUME Wrong # {} PROVE FALSE
    OBVIOUS
  <2>1. PICK m \in Wrong : \A o \in Wrong : m <= o
    BY NatMin
  <2>2. m \in Nat /\ ~ \E f : Fits(f, m)
    OBVIOUS
  <2>3. CASE m = 0
    <3>1. PICK f : f = [k \in 0 .. 0 |-> Base(n)]
      OBVIOUS
    <3>2. Fits(f, 0)
      BY <3>1
    <3> QED
      BY <2>2, <2>3, <3>2
  <2>4. CASE m # 0
    <3>1. PICK l \in Nat : m = l + 1
      <4>1. m - 1 \in Nat /\ m = (m - 1) + 1
        BY <2>2, <2>4
      <4> QED
        BY <4>1
    <3>2. l \notin Wrong
      <4>1. ~ (l + 1 <= l)
        OBVIOUS
      <4> QED
        BY <2>1, <3>1, <4>1
    <3>3. PICK f : Fits(f, l)
      BY <3>2
    <3>4. PICK g : g = [k \in 0 .. m |-> IF k = 0 THEN Base(n) ELSE Up(f[k - 1])]
      OBVIOUS
    <3>5. \A k \in 0 .. l : k \in 0 .. m /\ g[k] = f[k]
      BY <3>1, <3>3, <3>4
    <3>6. \A k \in 0 .. m : k # 0 => k - 1 \in 0 .. l
      BY <3>1
    <3>7. \A k \in 0 .. m : g[k] = IF k = 0 THEN Base(n) ELSE Up(g[k - 1])
      BY <3>4, <3>5, <3>6
    <3>8. Fits(g, m)
      BY <3>4, <3>7
    <3> QED
      BY <2>2, <3>8
  <2> QED
    BY <2>3, <2>4
<1>2. \E f : Fits(f, n)
  BY <1>1
<1>3. Levels(n) = CHOOSE f : Fits(f, n)
  BY DEF Levels, Base
<1>4. Fits(CHOOSE f : Fits(f, n), n)
  <2> HIDE DEF Fits
  <2> QED
    BY <1>2, Zenon
<1>5. PICK h : h = Levels(n)
  OBVIOUS
<1>6. Fits(h, n)
  BY <1>3, <1>4, <1>5
<1>7. h[0] = Base(n)
  BY <1>6
<1>8. \A k \in 1 .. n : h[k] = Up(h[k - 1])
  BY <1>6
<1> QED
  BY <1>5, <1>7, <1>8

\* A place halves to the place above it, of which it is one of two halves.
LEMMA Halves ==
  ASSUME NEW a \in Nat \ {0}
  PROVE  \E b \in Nat \ {0} : /\ (a + 1) \div 2 = b /\ b <= a
                              /\ a % 2 = 0 => a = 2 * b
                              /\ a % 2 # 0 => a = 2 * b - 1
<1>1. PICK b \in Int : b = (a + 1) \div 2
  OBVIOUS
<1>2. 2 * b <= a + 1 /\ a + 1 <= 2 * b + 1
  BY <1>1
<1>3. b \in Nat \ {0} /\ b <= a
  BY <1>2
<1>4. a % 2 = 0 => a = 2 * b
  BY <1>2
<1>5. a % 2 # 0 => a = 2 * b - 1
  BY <1>2
<1> QED
  BY <1>1, <1>3, <1>4, <1>5

\* g, of b digests, is the level above f, of m digests: every digest is below
\* the one at half its place, joined with its sibling if it has one.
IsAbove(g, b, f, m) ==
  /\ IsLevel(g, b)
  /\ b <= m /\ (m # 1 => b <= m - 1)
  /\ \A a \in 1 .. m :
       /\ (a + 1) \div 2 \in 1 .. b
       /\ a % 2 = 0 => g[(a + 1) \div 2] = Joined(f[a - 1], f[a])
       /\ a % 2 # 0 /\ a < m => g[(a + 1) \div 2] = Joined(f[a], f[a + 1])
       /\ a % 2 # 0 /\ ~ (a < m) => g[(a + 1) \div 2] = f[a]
\* Going up makes the level above, which is shorter unless it is the root.
LEMMA UpIsLevel ==
  ASSUME NEW m \in Nat \ {0}, NEW f, IsLevel(f, m)
  PROVE  \E b \in Nat \ {0} : IsAbove(Up(f), b, f, m)
<1>1. PICK b \in Nat \ {0} : /\ (m + 1) \div 2 = b /\ b <= m
                             /\ m % 2 = 0 => m = 2 * b
                             /\ m % 2 # 0 => m = 2 * b - 1
  BY Halves
<1>2. Len(f) = m
  BY LevelLength
<1>3. PICK g : g = Up(f)
  OBVIOUS
<1>4. g = [i \in 1 .. b |-> IF 2 * i <= m THEN Joined(f[2 * i - 1], f[2 * i]) ELSE f[2 * i - 1]]
  BY <1>1, <1>2, <1>3 DEF Up
<1>5. IsLevel(g, b)
  BY <1>4 DEF IsLevel
<1>6. ASSUME NEW a \in 1 .. m
      PROVE  /\ (a + 1) \div 2 \in 1 .. b
             /\ a % 2 = 0 => g[(a + 1) \div 2] = Joined(f[a - 1], f[a])
             /\ a % 2 # 0 /\ a < m => g[(a + 1) \div 2] = Joined(f[a], f[a + 1])
             /\ a % 2 # 0 /\ ~ (a < m) => g[(a + 1) \div 2] = f[a]
  <2>1. PICK c \in Nat \ {0} : /\ (a + 1) \div 2 = c
                               /\ a % 2 = 0 => a = 2 * c
                               /\ a % 2 # 0 => a = 2 * c - 1
    BY Halves
  <2>2. a % 2 = 0 \/ a % 2 # 0
    OBVIOUS
  <2>3. m = 2 * b \/ m = 2 * b - 1
    BY <1>1
  <2>4. a = 2 * c \/ a = 2 * c - 1
    BY <2>1
  <2>5. c \in 1 .. b
    BY <2>3, <2>4
  <2>6. g[c] = IF 2 * c <= m THEN Joined(f[2 * c - 1], f[2 * c]) ELSE f[2 * c - 1]
    BY <1>4, <2>5
  <2>7. ASSUME a = 2 * c PROVE g[c] = Joined(f[a - 1], f[a])
    BY <2>6, <2>7
  <2>8. ASSUME a = 2 * c - 1, a < m PROVE g[c] = Joined(f[a], f[a + 1])
    <3>1. 2 * c <= m /\ 2 * c = a + 1
      BY <2>8
    <3> QED
      BY <2>6, <2>8, <3>1
  <2>9. ASSUME a = 2 * c - 1, ~ (a < m) PROVE g[c] = f[a]
    <3>1. ~ (2 * c <= m)
      BY <2>9
    <3> QED
      BY <2>6, <2>9, <3>1
  <2> QED
    BY <2>1, <2>5, <2>7, <2>8, <2>9
<1>7. m # 1 => b <= m - 1
  <2>1. m = 2 * b \/ m = 2 * b - 1
    BY <1>1
  <2> QED
    BY <2>1
<1>8. IsAbove(g, b, f, m)
  BY <1>1, <1>5, <1>6, <1>7 DEF IsAbove
<1> QED
  BY <1>3, <1>8

\* Levels shrink until one digest is left.
LEMMA LevelsShrink ==
  ASSUME NEW n \in Nat \ {0}
  PROVE  \A k \in 0 .. n : \E m \in Nat \ {0} :
           IsLevel(Levels(n)[k], m) /\ (m = 1 \/ m <= n - k)
<1> DEFINE Good(k) == \E m \in Nat \ {0} : IsLevel(Levels(n)[k], m) /\ (m = 1 \/ m <= n - k)
           Wrong == {k \in 0 .. n : ~ Good(k)}
<1>1. /\ Levels(n)[0] = Base(n)
      /\ \A k \in 1 .. n : Levels(n)[k] = Up(Levels(n)[k - 1])
  BY LevelsAre
<1>2. Good(0)
  <2>1. IsLevel(Base(n), n) /\ n <= n - 0
    BY DEF IsLevel, Base
  <2> QED
    BY <1>1, <2>1
<1>3. ASSUME NEW k \in 1 .. n, Good(k - 1) PROVE Good(k)
  <2>1. PICK m \in Nat \ {0} : IsLevel(Levels(n)[k - 1], m) /\ (m = 1 \/ m <= n - (k - 1))
    BY <1>3
  <2>2. PICK b \in Nat \ {0} : /\ b <= m /\ (m # 1 => b <= m - 1)
                               /\ IsLevel(Up(Levels(n)[k - 1]), b)
    BY <2>1, UpIsLevel DEF IsAbove
  <2>3. b = 1 \/ b <= n - k
    BY <2>1, <2>2
  <2> QED
    BY <1>1, <2>2, <2>3
<1>4. Wrong = {}
  <2> SUFFICES ASSUME Wrong # {} PROVE FALSE
    OBVIOUS
  <2>1. Wrong \in SUBSET Nat
    OBVIOUS
  <2>2. PICK k \in Wrong : \A o \in Wrong : k <= o
    BY <2>1, NatMin
  <2>3. k \in 0 .. n /\ ~ Good(k)
    OBVIOUS
  <2> HIDE DEF Good
  <2>4. k # 0
    BY <1>2, <2>3
  <2>5. k \in 1 .. n /\ k - 1 \in 0 .. n /\ ~ (k <= k - 1)
    BY <2>3, <2>4
  <2>6. k - 1 \notin Wrong
    BY <2>2, <2>5
  <2>7. Good(k - 1)
    BY <2>5, <2>6
  <2> QED
    BY <1>3, <2>3, <2>5, <2>7
<1> QED
  BY <1>4

\* The climb ends at a level of one digest.
LEMMA HeightIsReached ==
  ASSUME NEW n \in Nat \ {0}
  PROVE  /\ Height(n) \in 0 .. n
         /\ IsLevel(Levels(n)[Height(n)], 1)
<1> DEFINE Single == {k \in 0 .. n : Len(Levels(n)[k]) = 1}
<1>1. \A k \in 0 .. n : \E m \in Nat \ {0} :
        /\ IsLevel(Levels(n)[k], m) /\ (m = 1 \/ m <= n - k) /\ Len(Levels(n)[k]) = m
  <2> TAKE k \in 0 .. n
  <2>1. PICK m \in Nat \ {0} : IsLevel(Levels(n)[k], m) /\ (m = 1 \/ m <= n - k)
    BY LevelsShrink
  <2>2. Len(Levels(n)[k]) = m
    BY <2>1, LevelLength
  <2> QED
    BY <2>1, <2>2
<1>2. n \in Single
  <2>1. n \in 0 .. n /\ n - n = 0
    OBVIOUS
  <2>2. PICK m \in Nat \ {0} : (m = 1 \/ m <= n - n) /\ Len(Levels(n)[n]) = m
    BY <1>1, <2>1
  <2>3. m = 1
    BY <2>2
  <2> QED
    BY <2>1, <2>2, <2>3
<1>3. PICK h \in Single : \A k \in Single : h <= k
  <2>1. Single \in SUBSET Nat /\ Single # {}
    BY <1>2
  <2> QED
    BY <2>1, NatMin
<1>4. \A k \in 0 .. h - 1 : Len(Levels(n)[k]) > 1
  <2> TAKE k \in 0 .. h - 1
  <2>1. k \in 0 .. n /\ ~ (h <= k)
    BY <1>3
  <2>2. PICK m \in Nat \ {0} : Len(Levels(n)[k]) = m
    BY <1>1, <2>1
  <2>3. m # 1
    BY <1>3, <2>1, <2>2
  <2>4. m > 1
    BY <2>3
  <2> QED
    BY <2>2, <2>4
<1>5. \E x \in 0 .. n : Len(Levels(n)[x]) = 1 /\ \A k \in 0 .. x - 1 : Len(Levels(n)[k]) > 1
  BY <1>3, <1>4
<1>6. Height(n) \in 0 .. n /\ Len(Levels(n)[Height(n)]) = 1
  BY <1>5 DEF Height
<1> QED
  BY <1>1, <1>6

\* A proof q with one more step, e, than the proof p of m steps.
Longer(q, p, m, e) ==
  /\ IsLevel(q, m + 1) /\ q[m + 1] = e
  /\ \A i \in 1 .. m : q[i] = p[i]
\* Adding a step to a proof makes it longer by that step.
LEMMA ProofGrows ==
  ASSUME NEW m \in Nat, NEW p, IsLevel(p, m), NEW e
  PROVE  Longer(p \o <<e>>, p, m, e)
<1> DEFINE S == {p[i] : i \in 1 .. m} \cup {e}
<1>1. \A i \in 1 .. m : p[i] \in S
  OBVIOUS
<1>2. e \in S
  OBVIOUS
<1> HIDE DEF S
<1> DEFINE q == p \o <<e>>
<1>3. p \in [1 .. m -> S]
  BY <1>1 DEF IsLevel
<1>4. p \in Seq(S) /\ Len(p) = m
  BY <1>3
<1>5. <<e>> \in Seq(S) /\ Len(<<e>>) = 1 /\ <<e>>[1] = e
  BY <1>2
<1>6. /\ q \in Seq(S) /\ Len(q) = m + 1 /\ \A i \in 1 .. m : q[i] = p[i]
      /\ q[m + 1] = e
  BY <1>4, <1>5
<1>7. q = [i \in 1 .. m + 1 |-> q[i]]
  <2> HIDE DEF q
  <2> QED
    BY <1>6
<1> QED
  BY <1>6, <1>7 DEF Longer, IsLevel

\* A proof with nothing added.
LEMMA ProofStays ==
  ASSUME NEW m \in Nat, NEW p, IsLevel(p, m)
  PROVE  p \o <<>> = p
<1> DEFINE S == {p[i] : i \in 1 .. m}
<1>1. \A i \in 1 .. m : p[i] \in S
  OBVIOUS
<1> HIDE DEF S
<1>2. p \in [1 .. m -> S]
  BY <1>1 DEF IsLevel
<1>3. p \in Seq(S)
  BY <1>2
<1> QED
  BY <1>3, ConcatEmptySeq

\* The auditor's climb is what the recursion says.
LEMMA ClimbIs ==
  ASSUME NEW n \in Nat, NEW p, IsLevel(p, n), NEW x
  PROVE  /\ Climb(x, p)[0] = x
         /\ \A k \in 1 .. n : Climb(x, p)[k] = JoinStep(Climb(x, p)[k - 1], p[k])
<1> DEFINE Fits(f, m) == f = [k \in 0 .. m |-> IF k = 0 THEN x ELSE JoinStep(f[k - 1], p[k])]
           Wrong == {m \in Nat : ~ \E f : Fits(f, m)}
<1>1. Wrong = {}
  <2> SUFFICES ASSUME Wrong # {} PROVE FALSE
    OBVIOUS
  <2>1. PICK m \in Wrong : \A o \in Wrong : m <= o
    BY NatMin
  <2>2. m \in Nat /\ ~ \E f : Fits(f, m)
    OBVIOUS
  <2>3. CASE m = 0
    <3>1. PICK f : f = [k \in 0 .. 0 |-> x]
      OBVIOUS
    <3>2. Fits(f, 0)
      BY <3>1
    <3> QED
      BY <2>2, <2>3, <3>2
  <2>4. CASE m # 0
    <3>1. PICK l \in Nat : m = l + 1
      <4>1. m - 1 \in Nat /\ m = (m - 1) + 1
        BY <2>2, <2>4
      <4> QED
        BY <4>1
    <3>2. l \notin Wrong
      <4>1. ~ (l + 1 <= l)
        OBVIOUS
      <4> QED
        BY <2>1, <3>1, <4>1
    <3>3. PICK f : Fits(f, l)
      BY <3>2
    <3>4. PICK g : g = [k \in 0 .. m |-> IF k = 0 THEN x ELSE JoinStep(f[k - 1], p[k])]
      OBVIOUS
    <3>5. \A k \in 0 .. l : k \in 0 .. m /\ g[k] = f[k]
      BY <3>1, <3>3, <3>4
    <3>6. \A k \in 0 .. m : k # 0 => k - 1 \in 0 .. l
      BY <3>1
    <3>7. \A k \in 0 .. m : g[k] = IF k = 0 THEN x ELSE JoinStep(g[k - 1], p[k])
      BY <3>4, <3>5, <3>6
    <3>8. Fits(g, m)
      BY <3>4, <3>7
    <3> QED
      BY <2>2, <3>8
  <2> QED
    BY <2>3, <2>4
<1>2. \E f : Fits(f, n)
  BY <1>1
<1>3. Len(p) = n
  BY LevelLength
<1>4. Climb(x, p) = CHOOSE f : Fits(f, n)
  BY <1>3 DEF Climb
<1>5. Fits(CHOOSE f : Fits(f, n), n)
  <2> HIDE DEF Fits
  <2> QED
    BY <1>2, Zenon
<1>6. PICK h : h = Climb(x, p)
  OBVIOUS
<1>7. Fits(h, n)
  BY <1>4, <1>5, <1>6
<1>8. h[0] = x
  BY <1>7
<1>9. \A k \in 1 .. n : h[k] = JoinStep(h[k - 1], p[k])
  BY <1>7
<1> QED
  BY <1>6, <1>8, <1>9

\* One more step takes the climb one step further.
LEMMA ClimbGrows ==
  ASSUME NEW m \in Nat, NEW p, IsLevel(p, m), NEW e, NEW x
  PROVE  Climb(x, p \o <<e>>)[m + 1] = JoinStep(Climb(x, p)[m], e)
<1>1. PICK q : q = p \o <<e>>
  OBVIOUS
<1>2. IsLevel(q, m + 1) /\ q[m + 1] = e /\ \A i \in 1 .. m : q[i] = p[i]
  <2>1. Longer(q, p, m, e)
    BY <1>1, ProofGrows
  <2> QED
    BY <2>1 DEF Longer
<1>3. PICK f : f = Climb(x, p)
  OBVIOUS
<1>4. PICK g : g = Climb(x, q)
  OBVIOUS
<1>5. f[0] = x /\ \A k \in 1 .. m : f[k] = JoinStep(f[k - 1], p[k])
  BY <1>3, ClimbIs
<1>6. g[0] = x /\ \A k \in 1 .. m + 1 : g[k] = JoinStep(g[k - 1], q[k])
  BY <1>2, <1>4, ClimbIs
<1> DEFINE Wrong == {k \in 0 .. m : f[k] # g[k]}
<1>7. Wrong = {}
  <2> SUFFICES ASSUME Wrong # {} PROVE FALSE
    OBVIOUS
  <2>1. Wrong \in SUBSET Nat
    OBVIOUS
  <2>2. PICK k \in Wrong : \A o \in Wrong : k <= o
    BY <2>1, NatMin
  <2>3. k \in 0 .. m /\ f[k] # g[k]
    OBVIOUS
  <2>4. k # 0
    BY <1>5, <1>6, <2>3
  <2>5. k \in 1 .. m /\ k \in 1 .. m + 1 /\ k - 1 \in 0 .. m /\ ~ (k <= k - 1)
    BY <2>3, <2>4
  <2>6. f[k - 1] = g[k - 1]
    BY <2>2, <2>5
  <2> QED
    BY <1>2, <1>5, <1>6, <2>3, <2>5, <2>6
<1>8. f[m] = g[m]
  BY <1>7
<1>9. m + 1 \in 1 .. m + 1 /\ (m + 1) - 1 = m
  OBVIOUS
<1> QED
  BY <1>1, <1>2, <1>3, <1>4, <1>6, <1>8, <1>9

\* A climb tells where it began.
LEMMA ClimbTells ==
  ASSUME NEW m \in Nat, NEW p, IsLevel(p, m), NEW x, NEW y,
         Climb(x, p)[m] = Climb(y, p)[m]
  PROVE  x = y
<1>1. PICK f : f = Climb(x, p)
  OBVIOUS
<1>2. PICK g : g = Climb(y, p)
  OBVIOUS
<1>3. f[0] = x /\ \A k \in 1 .. m : f[k] = JoinStep(f[k - 1], p[k])
  BY <1>1, ClimbIs
<1>4. g[0] = y /\ \A k \in 1 .. m : g[k] = JoinStep(g[k - 1], p[k])
  BY <1>2, ClimbIs
<1>5. ASSUME NEW a, NEW b, NEW e, JoinStep(a, e) = JoinStep(b, e) PROVE a = b
  <2>1. CASE e.side = "left"
    <3>1. Joined(e.digest, a) = Joined(e.digest, b)
      BY <1>5, <2>1 DEF JoinStep
    <3>2. Joined(e.digest, a).r = a /\ Joined(e.digest, b).r = b
      BY DEF Joined
    <3> QED
      BY <3>1, <3>2
  <2>2. CASE e.side # "left"
    <3>1. Joined(a, e.digest) = Joined(b, e.digest)
      BY <1>5, <2>2 DEF JoinStep
    <3>2. Joined(a, e.digest).l = a /\ Joined(b, e.digest).l = b
      BY DEF Joined
    <3> QED
      BY <3>1, <3>2
  <2> QED
    BY <2>1, <2>2
<1> DEFINE Same == {k \in 0 .. m : f[k] = g[k]}
<1>6. m \in Same
  BY <1>1, <1>2
<1>7. PICK k \in Same : \A o \in Same : k <= o
  <2>1. Same \in SUBSET Nat /\ Same # {}
    BY <1>6
  <2> QED
    BY <2>1, NatMin
<1>8. k = 0
  <2> SUFFICES ASSUME k # 0 PROVE FALSE
    OBVIOUS
  <2>1. k \in 1 .. m /\ k - 1 \in 0 .. m /\ ~ (k <= k - 1) /\ f[k] = g[k]
    OBVIOUS
  <2>2. f[k - 1] = g[k - 1]
    BY <1>3, <1>4, <1>5, <2>1
  <2> QED
    BY <1>7, <2>1, <2>2
<1> QED
  BY <1>3, <1>4, <1>7, <1>8

\* One level further on the walk up from the record r of level k - 1.
Further(n, k, r) == [at |-> (r.at + 1) \div 2,
                     proof |-> r.proof \o Sibling(Levels(n)[k - 1], r.at)]
\* The walk up the levels is what the recursion says.
LEMMA WalkIs ==
  ASSUME NEW n \in Nat \ {0}, NEW s
  PROVE  /\ Walk(n, s)[0] = [at |-> s, proof |-> <<>>]
         /\ \A k \in 1 .. Height(n) : Walk(n, s)[k] = Further(n, k, Walk(n, s)[k - 1])
<1> DEFINE Next(k, r) == Further(n, k, r)
           First == [at |-> s, proof |-> <<>>]
           Fits(f, m) == f = [k \in 0 .. m |-> IF k = 0 THEN First ELSE Next(k, f[k - 1])]
           Wrong == {m \in Nat : ~ \E f : Fits(f, m)}
<1>1. Height(n) \in Nat
  BY HeightIsReached
<1>2. Walk(n, s) = CHOOSE f : Fits(f, Height(n))
  BY DEF Walk, Further
<1> HIDE DEF Next, First
<1>3. Wrong = {}
  <2> SUFFICES ASSUME Wrong # {} PROVE FALSE
    OBVIOUS
  <2>1. PICK m \in Wrong : \A o \in Wrong : m <= o
    BY NatMin
  <2>2. m \in Nat /\ ~ \E f : Fits(f, m)
    OBVIOUS
  <2>3. CASE m = 0
    <3>1. PICK f : f = [k \in 0 .. 0 |-> First]
      OBVIOUS
    <3>2. Fits(f, 0)
      BY <3>1
    <3> QED
      BY <2>2, <2>3, <3>2
  <2>4. CASE m # 0
    <3>1. PICK l \in Nat : m = l + 1
      <4>1. m - 1 \in Nat /\ m = (m - 1) + 1
        BY <2>2, <2>4
      <4> QED
        BY <4>1
    <3>2. l \notin Wrong
      <4>1. ~ (l + 1 <= l)
        OBVIOUS
      <4> QED
        BY <2>1, <3>1, <4>1
    <3>3. PICK f : Fits(f, l)
      BY <3>2
    <3>4. PICK g : g = [k \in 0 .. m |-> IF k = 0 THEN First ELSE Next(k, f[k - 1])]
      OBVIOUS
    <3>5. \A k \in 0 .. l : k \in 0 .. m /\ g[k] = f[k]
      BY <3>1, <3>3, <3>4
    <3>6. \A k \in 0 .. m : k # 0 => k - 1 \in 0 .. l
      BY <3>1
    <3>7. \A k \in 0 .. m : g[k] = IF k = 0 THEN First ELSE Next(k, g[k - 1])
      BY <3>4, <3>5, <3>6
    <3>8. Fits(g, m)
      BY <3>4, <3>7
    <3> QED
      BY <2>2, <3>8
  <2> QED
    BY <2>3, <2>4
<1>4. \E f : Fits(f, Height(n))
  BY <1>1, <1>3
<1>5. Fits(CHOOSE f : Fits(f, Height(n)), Height(n))
  <2> HIDE DEF Fits
  <2> QED
    BY <1>4, Zenon
<1>6. PICK h : h = Walk(n, s)
  OBVIOUS
<1>7. Fits(h, Height(n))
  BY <1>2, <1>5, <1>6
<1>8. h[0] = First
  BY <1>1, <1>7
<1>9. \A k \in 1 .. Height(n) : h[k] = Next(k, h[k - 1])
  BY <1>1, <1>7
<1> QED
  BY <1>6, <1>8, <1>9 DEF First, Next

\* At level k, of m digests, the walk from entry s is at digest a, and the l
\* steps of its proof lead there from the leaf of s.
Leads(n, s, k, m, a, l) ==
  /\ IsLevel(Levels(n)[k], m) /\ a <= m
  /\ Walk(n, s)[k].at = a
  /\ IsLevel(Walk(n, s)[k].proof, l)
  /\ Climb(Leaf(s), Walk(n, s)[k].proof)[l] = Levels(n)[k][a]
LeadsUp(n, s, k) ==
  \E m \in Nat \ {0}, a \in Nat \ {0}, l \in Nat : Leads(n, s, k, m, a, l)
\* On the way up from an entry, the proof so far leads to the digest above it.
LEMMA WalkLeadsUp ==
  ASSUME NEW n \in Nat \ {0}, NEW s \in 1 .. n
  PROVE  \A k \in 0 .. Height(n) : LeadsUp(n, s, k)
<1> DEFINE Good(k) == LeadsUp(n, s, k)
           Wrong == {k \in 0 .. Height(n) : ~ Good(k)}
<1>1. Height(n) \in Nat /\ Height(n) <= n
  BY HeightIsReached
<1>2. Good(0)
  <2>1. IsLevel(Levels(n)[0], n) /\ Levels(n)[0][s] = Leaf(s)
    BY LevelsAre DEF IsLevel, Base
  <2>2. Walk(n, s)[0].at = s /\ Walk(n, s)[0].proof = <<>>
    <3>1. Walk(n, s)[0] = [at |-> s, proof |-> <<>>]
      BY WalkIs
    <3> QED
      BY <3>1
  <2>3. IsLevel(<<>>, 0)
    BY DEF IsLevel
  <2>4. Climb(Leaf(s), <<>>)[0] = Leaf(s)
    BY <2>3, ClimbIs
  <2>5. Leads(n, s, 0, n, s, 0)
    BY <2>1, <2>2, <2>3, <2>4 DEF Leads
  <2>6. s \in Nat \ {0}
    OBVIOUS
  <2> QED
    BY <2>5, <2>6 DEF LeadsUp
<1>3. ASSUME NEW k \in 1 .. Height(n), Good(k - 1) PROVE Good(k)
  <2>1. PICK f : f = Levels(n)[k - 1]
    OBVIOUS
  <2>2. PICK p : p = Walk(n, s)[k - 1].proof
    OBVIOUS
  <2>3. PICK m \in Nat \ {0}, a \in Nat \ {0}, l \in Nat : Leads(n, s, k - 1, m, a, l)
    BY <1>3 DEF LeadsUp
  <2>4. /\ IsLevel(f, m) /\ a \in 1 .. m /\ IsLevel(p, l)
        /\ Walk(n, s)[k - 1].at = a /\ Climb(Leaf(s), p)[l] = f[a]
    BY <2>1, <2>2, <2>3 DEF Leads
  <2>5. Levels(n)[k] = Up(f)
    <3>1. k \in 1 .. n
      BY <1>1
    <3> QED
      BY <2>1, <3>1, LevelsAre
  <2>up. PICK b \in Nat \ {0} : IsAbove(Up(f), b, f, m)
    BY <2>4, UpIsLevel
  <2>6. /\ IsLevel(Up(f), b)
        /\ (a + 1) \div 2 \in 1 .. b
        /\ a % 2 = 0 => Up(f)[(a + 1) \div 2] = Joined(f[a - 1], f[a])
        /\ a % 2 # 0 /\ a < m => Up(f)[(a + 1) \div 2] = Joined(f[a], f[a + 1])
        /\ a % 2 # 0 /\ ~ (a < m) => Up(f)[(a + 1) \div 2] = f[a]
    BY <2>4, <2>up DEF IsAbove
  <2>7. PICK c \in Nat \ {0} : c = (a + 1) \div 2 /\ c <= b
    BY <2>6
  <2>8. PICK q : q = p \o Sibling(f, a)
    OBVIOUS
  <2>9. Walk(n, s)[k].at = c /\ Walk(n, s)[k].proof = q
    <3>1. PICK r : r = Walk(n, s)[k - 1]
      OBVIOUS
    <3>2. Walk(n, s)[k] = Further(n, k, r)
      BY <3>1, WalkIs
    <3>3. r.at = a /\ r.proof = p
      BY <2>2, <2>4, <3>1
    <3>4. Further(n, k, r) = [at |-> c, proof |-> q]
      BY <2>1, <2>7, <2>8, <3>3 DEF Further
    <3>5. Walk(n, s)[k] = [at |-> c, proof |-> q]
      BY <3>2, <3>4
    <3> QED
      BY <3>5
  <2>10. Len(f) = m
    BY <2>4, LevelLength
  <2>11. \E o \in Nat : IsLevel(q, o) /\ Climb(Leaf(s), q)[o] = Up(f)[c]
    <3>1. CASE a % 2 = 0
      <4>1. PICK e : e = [side |-> "left", digest |-> f[a - 1]]
        OBVIOUS
      <4>2. q = p \o <<e>>
        BY <2>8, <3>1, <4>1 DEF Sibling
      <4>3. IsLevel(q, l + 1) /\ Climb(Leaf(s), q)[l + 1] = JoinStep(f[a], e)
        <5>1. IsLevel(q, l + 1)
          <6>1. Longer(q, p, l, e)
            BY <2>4, <4>2, ProofGrows
          <6> QED
            BY <6>1 DEF Longer
        <5>2. Climb(Leaf(s), p \o <<e>>)[l + 1] = JoinStep(Climb(Leaf(s), p)[l], e)
          BY <2>4, ClimbGrows
        <5> QED
          BY <2>4, <4>2, <5>1, <5>2
      <4>4. JoinStep(f[a], e) = Joined(f[a - 1], f[a])
        BY <4>1 DEF JoinStep
      <4> QED
        BY <2>6, <2>7, <3>1, <4>3, <4>4
    <3>2. CASE a % 2 # 0 /\ a < m
      <4>1. PICK e : e = [side |-> "right", digest |-> f[a + 1]]
        OBVIOUS
      <4>2. q = p \o <<e>>
        BY <2>8, <2>10, <3>2, <4>1 DEF Sibling
      <4>3. IsLevel(q, l + 1) /\ Climb(Leaf(s), q)[l + 1] = JoinStep(f[a], e)
        <5>1. IsLevel(q, l + 1)
          <6>1. Longer(q, p, l, e)
            BY <2>4, <4>2, ProofGrows
          <6> QED
            BY <6>1 DEF Longer
        <5>2. Climb(Leaf(s), p \o <<e>>)[l + 1] = JoinStep(Climb(Leaf(s), p)[l], e)
          BY <2>4, ClimbGrows
        <5> QED
          BY <2>4, <4>2, <5>1, <5>2
      <4>4. JoinStep(f[a], e) = Joined(f[a], f[a + 1])
        BY <4>1 DEF JoinStep
      <4> QED
        BY <2>6, <2>7, <3>2, <4>3, <4>4
    <3>3. CASE a % 2 # 0 /\ ~ (a < m)
      <4>1. q = p
        BY <2>4, <2>8, <2>10, <3>3, ProofStays DEF Sibling
      <4> QED
        BY <2>4, <2>6, <2>7, <3>3, <4>1
    <3> QED
      BY <3>1, <3>2, <3>3
  <2>12. PICK o \in Nat : IsLevel(q, o) /\ Climb(Leaf(s), q)[o] = Up(f)[c]
    BY <2>11
  <2>13. Leads(n, s, k, b, c, o)
    BY <2>5, <2>6, <2>7, <2>9, <2>12 DEF Leads
  <2> QED
    BY <2>13 DEF LeadsUp
<1>4. Wrong = {}
  <2> SUFFICES ASSUME Wrong # {} PROVE FALSE
    OBVIOUS
  <2> HIDE DEF Good
  <2>1. Wrong \in SUBSET Nat
    OBVIOUS
  <2>2. PICK k \in Wrong : \A o \in Wrong : k <= o
    BY <2>1, NatMin
  <2>3. k \in 0 .. Height(n) /\ ~ Good(k)
    OBVIOUS
  <2>4. k # 0
    BY <1>2, <2>3
  <2>5. k \in 1 .. Height(n) /\ k - 1 \in 0 .. Height(n) /\ ~ (k <= k - 1)
    BY <1>1, <2>3, <2>4
  <2>6. k - 1 \notin Wrong
    BY <2>2, <2>5
  <2>7. Good(k - 1)
    BY <2>5, <2>6
  <2> QED
    BY <1>3, <2>3, <2>5, <2>7
<1> QED
  BY <1>4

\* Inclusion proofs agree with the root, for a chain of any length: the proof
\* of an entry verifies that entry under the root, and no other.
LEMMA ProofsVerify ==
  ASSUME NEW n \in Nat \ {0}, NEW i \in 1 .. n, NEW j \in 1 .. n
  PROVE  VerifyInclusion(Leaf(j), InclusionProof(n, i), MerkleRoot(n)) <=> i = j
<1>1. PICK h \in Nat : h = Height(n) /\ h \in 0 .. Height(n)
  BY HeightIsReached
<1>2. PICK m \in Nat \ {0}, a \in Nat \ {0}, l \in Nat :
        /\ IsLevel(Levels(n)[h], m) /\ a <= m
        /\ IsLevel(Walk(n, i)[h].proof, l)
        /\ Climb(Leaf(i), Walk(n, i)[h].proof)[l] = Levels(n)[h][a]
  <2>1. LeadsUp(n, i, h)
    BY <1>1, WalkLeadsUp
  <2> QED
    BY <2>1 DEF LeadsUp, Leads
<1>3. IsLevel(Levels(n)[h], 1)
  BY <1>1, HeightIsReached
<1>4. m = 1 /\ a = 1
  <2>1. Len(Levels(n)[h]) = m /\ Len(Levels(n)[h]) = 1
    BY <1>2, <1>3, LevelLength
  <2> QED
    BY <1>2, <2>1
<1>5. PICK p : p = InclusionProof(n, i)
  OBVIOUS
<1>6. /\ IsLevel(p, l) /\ Len(p) = l
      /\ Climb(Leaf(i), p)[l] = MerkleRoot(n)
  BY <1>1, <1>2, <1>4, <1>5, LevelLength DEF InclusionProof, MerkleRoot
<1>7. ASSUME Climb(Leaf(j), p)[l] = MerkleRoot(n) PROVE i = j
  <2>1. Leaf(i) = Leaf(j)
    BY <1>6, <1>7, ClimbTells
  <2>2. Leaf(i).leaf = i /\ Leaf(j).leaf = j
    BY DEF Leaf
  <2> QED
    BY <2>1, <2>2
<1> QED
  BY <1>5, <1>6, <1>7 DEF VerifyInclusion

\* Every answered chain has an entry, so its proofs verify as they should.
LEMMA AnsweredProofsAgree ==
  ASSUME FileInd
  PROVE  ProofsAgree
<1>1. ASSUME NEW c \in Call, Answered(c) PROVE Len(pv[c].list) \in Nat \ {0}
  <2>1. PICK h \in History : h = pv[c].list
    <3>1. pv[c] \in Provision
      BY DEF FileInd, FileShapes
    <3> QED
      BY <3>1 DEF Provision
  <2>2. h # <<>>
    BY <1>1, <2>1 DEF Answered, Holds, FileInd, ChainsAreFiled
  <2>3. Len(h) \in Nat /\ Len(h) # 0
    BY <2>1, <2>2, EmptySeq DEF History
  <2> QED
    BY <2>1, <2>3
<1>2. ASSUME NEW n \in Nat \ {0}, NEW i \in 1 .. n, NEW j \in 1 .. n
      PROVE  VerifyInclusion(Leaf(j), InclusionProof(n, i), MerkleRoot(n)) <=> i = j
  BY <1>2, ProofsVerify
<1>3. \A n \in {Len(pv[c].list) : c \in {c \in Call : Answered(c)}} : n \in Nat \ {0}
  BY <1>1
<1> QED
  BY <1>2, <1>3 DEF ProofsAgree

\* A file that nothing went wrong with loads; an answer is a checkpoint of it for
\* ever; every chain is seeded once; and the proofs an auditor is given verify
\* the entry they are for and no other: for any calls, any length of seed and of
\* program, any number of faults and any length of chain.
THEOREM FileStaysSound == FileSpec => []FileInv
<1>1. FileInit => FileInd
  BY FileBegins
<1>2. FileInd /\ [FileNext]_fileVars => FileInd'
  BY FileStep
<1>3. FileInd => FileInv
  BY FileHolds, AnsweredProofsAgree DEF FileInv
<1> QED
  BY <1>1, <1>2, <1>3, PTL DEF FileSpec

=============================================================================
