----------------------------- MODULE OpsConsole -----------------------------
(***************************************************************************)
(* platform/ops: what the operator console writes.  The marketing agent    *)
(* runs, drafts posts and finds leads, and a draft is approved or rejected *)
(* and posted through Postiz (src/marketing.js); the catalog's plans are   *)
(* created in Finix (src/billing.js); a customer's plan is changed in the  *)
(* application's own store and recorded (src/apps.js); and one address     *)
(* tries to sign in (src/access.js).                                       *)
(*                                                                         *)
(* The five share no state: a draft is taken up when it is there.  Each    *)
(* awaited statement or call of a service is a step; a call may be done    *)
(* and its answer lost.  There is no transaction and no compare-and-set,   *)
(* so what two requests do to one row while they overlap is kept apart by  *)
(* a history variable.                                                     *)
(***************************************************************************)
EXTENDS Naturals, Sequences, FiniteSets, SequencesExt

CONSTANTS
  Operator,     \* requests of operators
  Draft,        \* drafts of posts
  Lead,         \* pages a search may find, by url
  Tier,         \* the catalog's plans with a price, in catalog order
  Plan,         \* plans of the one customer
  Attempt,      \* sign-in attempts from the address
  MaxFailures, Window, Lock,   \* of access.js, in minutes
  MaxMinutes,   \* bound: minutes
  MaxChanges,   \* bound: recorded changes of a plan
  MaxAgentRuns, \* bound: runs of the agent
  MaxPosts,     \* bound: posts the model drafts in a run
  MaxLapses     \* bound: statements and calls that fail

ASSUME ConsoleAssumption ==
  /\ Tier \in Seq(STRING) /\ Plan # {}
  /\ MaxFailures \in Nat \ {0} /\ Window \in Nat /\ Lock \in Nat \ {0}
  /\ {MaxMinutes, MaxChanges, MaxAgentRuns, MaxPosts, MaxLapses} \subseteq Nat

VARIABLES
  agentRuns,    \* ops_agent_runs, each with what it has stored elsewhere
  agent,        \* agent[o]: a runAgent()
  lead,         \* lead[l]: status of a row of ops_leads
  judged,       \* history: the status an operator has last given a lead
  content,      \* content[d]: status of a draft in ops_content
  posts,        \* posts[d]: how often Postiz has taken it
  decider,      \* decider[o]: a decideContent()
  mixed,        \* history: drafts two decisions overlapped on
  unheard,      \* history: drafts whose post was taken without an answer
  finix,        \* finix[n]: plans in Finix tagged with tier n of the catalog
  syncing,      \* syncing[o]: a syncPlans()
  together,     \* history: two syncs overlapped
  plan,         \* the customer's plan in the application's store
  changes,      \* ops_plan_changes
  changer,      \* changer[o]: a changePlan()
  muddled,      \* history: two changes overlapped, or one was not recorded
  lockout,      \* the row of ops_sign_in_attempts
  attempt,      \* attempt[a]: where a sign-in is
  wrong,        \* history: minutes of the failures that were counted
  minute,
  lapses        \* bound

agentVars == <<agentRuns, agent, lead, judged>>
contentVars == <<content, posts, decider, mixed, unheard>>
syncVars == <<finix, syncing, together>>
planVars == <<plan, changes, changer, muddled>>
signInVars == <<lockout, attempt, wrong, minute>>
consoleVars == <<agentVars, contentVars, syncVars, planVars, signInVars, lapses>>

LeadStatus == {"new", "dropped"}   \* contacted and qualified are like dropped
NoAgent == [at |-> "idle", run |-> 0, left |-> 0, found |-> {}]
NoDecision == [at |-> "idle", draft |-> "none"]
NoSync == [at |-> "idle", n |-> 1, missing |-> {}]
NoChange == [at |-> "idle", from |-> "none", to |-> "none"]
NoFailures == [failures |-> 0, until |-> 0, at |-> 0]

ConsoleInit ==
  /\ agentRuns = <<>> /\ agent = [o \in Operator |-> NoAgent]
  /\ lead = [l \in Lead |-> "absent"] /\ judged = lead
  /\ content = [d \in Draft |-> "draft"] /\ posts = [d \in Draft |-> 0]
  /\ decider = [o \in Operator |-> NoDecision] /\ mixed = {} /\ unheard = {}
  /\ finix \in [DOMAIN Tier -> {0, 1}]
  /\ syncing = [o \in Operator |-> NoSync] /\ together = FALSE
  /\ plan \in Plan /\ changes = <<>>
  /\ changer = [o \in Operator |-> NoChange] /\ muddled = FALSE
  /\ lockout = NoFailures /\ attempt = [a \in Attempt |-> "idle"]
  /\ wrong = <<>> /\ minute = 0
  /\ lapses = 0

Lapse == lapses < MaxLapses /\ lapses' = lapses + 1

-----------------------------------------------------------------------------
(* runAgent() *)

StartAgent(o) ==
  /\ agent[o].at = "idle" /\ Len(agentRuns) < MaxAgentRuns
  /\ agentRuns' = Append(agentRuns, [status |-> "running", due |-> 0, drafted |-> 0,
                                    found |-> {}, errors |-> {}, insight |-> FALSE])
  /\ agent' = [agent EXCEPT ![o].at = "draft", ![o].run = Len(agentRuns) + 1]
  /\ UNCHANGED <<lead, judged, lapses>>
\* The model drafts posts, of which those without a text are left out, or it
\* answers with an error, which the run goes past.
DraftPosts(o) ==
  /\ agent[o].at = "draft"
  /\ \/ \E n \in 0 .. MaxPosts :
          /\ agentRuns' = [agentRuns EXCEPT ![agent[o].run].due = n]
          /\ agent' = [agent EXCEPT ![o].at = "posts", ![o].left = n]
     \/ /\ agentRuns' = [agentRuns EXCEPT ![agent[o].run].errors = {"drafts"}]
        /\ agent' = [agent EXCEPT ![o].at = "search"]
  /\ UNCHANGED <<lead, judged, lapses>>
StorePost(o) ==
  /\ agent[o].at = "posts"
  /\ IF agent[o].left = 0
     THEN agent' = [agent EXCEPT ![o].at = "search"] /\ UNCHANGED agentRuns
     ELSE /\ agentRuns' = [agentRuns EXCEPT ![agent[o].run].drafted = @ + 1]
          /\ agent' = [agent EXCEPT ![o].left = @ - 1]
  /\ UNCHANGED <<lead, judged, lapses>>
\* A search that fails is skipped; without a key for it there is none.
SourceLeads(o) ==
  /\ agent[o].at = "search"
  /\ \/ \E found \in SUBSET Lead :
          /\ agentRuns' = [agentRuns EXCEPT ![agent[o].run].found = found]
          /\ agent' = [agent EXCEPT ![o].at = "leads", ![o].found = found]
     \/ /\ agentRuns' = [agentRuns EXCEPT ![agent[o].run].errors = @ \cup {"leads"}]
        /\ agent' = [agent EXCEPT ![o].at = "insight"]
  /\ UNCHANGED <<lead, judged, lapses>>
\* INSERT OR IGNORE: one row for each url.
StoreLead(o) ==
  /\ agent[o].at = "leads"
  /\ IF agent[o].found = {}
     THEN agent' = [agent EXCEPT ![o].at = "insight"] /\ UNCHANGED lead
     ELSE \E l \in agent[o].found :
            /\ lead' = IF lead[l] = "absent" THEN [lead EXCEPT ![l] = "new"] ELSE lead
            /\ agent' = [agent EXCEPT ![o].found = @ \ {l}]
  /\ UNCHANGED <<agentRuns, judged, lapses>>
StoreInsight(o) ==
  /\ agent[o].at = "insight"
  /\ agentRuns' = [agentRuns EXCEPT ![agent[o].run].insight = TRUE]
  /\ agent' = [agent EXCEPT ![o].at = "finish"]
  /\ UNCHANGED <<lead, judged, lapses>>
FinishAgent(o) ==
  /\ agent[o].at = "finish"
  /\ agentRuns' = [agentRuns EXCEPT ![agent[o].run].status =
                     IF agentRuns[agent[o].run].errors = {"drafts", "leads"} THEN "partial" ELSE "done"]
  /\ agent' = [agent EXCEPT ![o] = NoAgent]
  /\ UNCHANGED <<lead, judged, lapses>>
\* Nothing catches what a statement or a call throws: the row stays "running".
AgentThrows(o) ==
  /\ Lapse
  /\ agent[o].at # "idle"
  /\ agent' = [agent EXCEPT ![o] = NoAgent]
  /\ UNCHANGED <<agentRuns, lead, judged>>
UpdateLead(l, status) ==
  /\ lead[l] # "absent"
  /\ lead' = [lead EXCEPT ![l] = status] /\ judged' = [judged EXCEPT ![l] = status]
  /\ UNCHANGED <<agentRuns, agent, lapses>>
AgentNext ==
  \/ \E l \in Lead, status \in LeadStatus : UpdateLead(l, status)
  \/ \E o \in Operator :
       \/ StartAgent(o) \/ DraftPosts(o) \/ StorePost(o) \/ SourceLeads(o) \/ StoreLead(o)
       \/ StoreInsight(o) \/ FinishAgent(o) \/ AgentThrows(o)

-----------------------------------------------------------------------------
(* decideContent() *)

Deciding(d) == {o \in Operator : decider[o].draft = d /\ decider[o].at # "idle"}
\* The row is read; a draft already scheduled or rejected is a conflict.
ReadDraft(o) ==
  /\ decider[o].at = "idle"
  /\ \E d \in Draft, at \in {"post", "reject"} :
       /\ content[d] \in {"draft", "approved"}
       /\ decider' = [decider EXCEPT ![o] = [at |-> at, draft |-> d]]
       /\ mixed' = IF Deciding(d) = {} THEN mixed ELSE mixed \cup {d}
  /\ UNCHANGED <<content, posts, unheard, lapses>>
\* The answer of an UPDATE ends the request.
SetStatus(o, status) ==
  /\ content' = [content EXCEPT ![decider[o].draft] = status]
  /\ decider' = [decider EXCEPT ![o] = NoDecision]
  /\ UNCHANGED <<posts, mixed, unheard, lapses>>
RejectDraft(o) == decider[o].at = "reject" /\ SetStatus(o, "rejected")
ScheduleDraft(o) == decider[o].at = "taken" /\ SetStatus(o, "scheduled")
\* Whatever was thrown, the draft is put down as approved, for another try.
KeepApproved(o) == decider[o].at = "caught" /\ SetStatus(o, "approved")
PostDraft(o) ==
  /\ decider[o].at = "post"
  /\ posts' = [posts EXCEPT ![decider[o].draft] = @ + 1]
  /\ decider' = [decider EXCEPT ![o].at = "taken"]
  /\ UNCHANGED <<content, mixed, unheard, lapses>>
\* Postiz refuses it, or takes it and its answer is lost, or the row cannot be
\* updated afterwards.
PostFails(o) ==
  /\ Lapse
  /\ decider[o].at \in {"post", "taken"}
  /\ \E took \in (IF decider[o].at = "post" THEN {0, 1} ELSE {0}) :
       /\ posts' = [posts EXCEPT ![decider[o].draft] = @ + took]
       /\ unheard' = IF took = 1 \/ decider[o].at = "taken"
                     THEN unheard \cup {decider[o].draft} ELSE unheard
  /\ decider' = [decider EXCEPT ![o].at = "caught"]
  /\ UNCHANGED <<content, mixed>>
\* The request ends, and nobody knows how far it came.
DecisionDies(o) ==
  /\ Lapse
  /\ decider[o].at # "idle"
  /\ unheard' = IF decider[o].at = "taken" THEN unheard \cup {decider[o].draft} ELSE unheard
  /\ decider' = [decider EXCEPT ![o] = NoDecision]
  /\ UNCHANGED <<content, posts, mixed>>
ContentNext ==
  \E o \in Operator : ReadDraft(o) \/ RejectDraft(o) \/ ScheduleDraft(o) \/ KeepApproved(o)
                        \/ PostDraft(o) \/ PostFails(o) \/ DecisionDies(o)

-----------------------------------------------------------------------------
(* syncPlans() *)

\* matchPlans(): by the tags a plan was created with.
Missing(plans) == {n \in DOMAIN Tier : plans[n] = 0}
ListPlans(o) ==
  /\ syncing[o].at = "idle"
  /\ syncing' = [syncing EXCEPT ![o] = [at |-> "create", n |-> 1, missing |-> Missing(finix)]]
  /\ together' = (together \/ \E s \in Operator : syncing[s].at = "create")
  /\ UNCHANGED <<finix, lapses>>
NextTier(o) ==
  syncing' = [syncing EXCEPT ![o] =
               IF @.n = Len(Tier) THEN NoSync ELSE [syncing[o] EXCEPT !.n = @ + 1]]
CreatePlan(o) ==
  /\ syncing[o].at = "create"
  /\ finix' = IF syncing[o].n \in syncing[o].missing
              THEN [finix EXCEPT ![syncing[o].n] = @ + 1] ELSE finix
  /\ NextTier(o)
  /\ UNCHANGED <<together, lapses>>
\* A failed creation, done or not, is noted and the next tier is tried; or the
\* whole sync ends there.
CreateFails(o) ==
  /\ Lapse
  /\ syncing[o].at = "create" /\ syncing[o].n \in syncing[o].missing
  /\ \E done \in {0, 1} : finix' = [finix EXCEPT ![syncing[o].n] = @ + done]
  /\ NextTier(o) \/ syncing' = [syncing EXCEPT ![o] = NoSync]
  /\ UNCHANGED together
SyncNext == \E o \in Operator : ListPlans(o) \/ CreatePlan(o) \/ CreateFails(o)

-----------------------------------------------------------------------------
(* changePlan() *)

ReadPlan(o) ==
  /\ changer[o].at = "idle" /\ Len(changes) < MaxChanges
  /\ \E to \in Plan : changer' = [changer EXCEPT ![o] = [at |-> "set", from |-> plan, to |-> to]]
  /\ muddled' = (muddled \/ \E c \in Operator : changer[c].at # "idle")
  /\ UNCHANGED <<plan, changes, lapses>>
SetPlan(o) ==
  /\ changer[o].at = "set"
  /\ plan' = changer[o].to
  /\ changer' = [changer EXCEPT ![o].at = "record"]
  /\ UNCHANGED <<changes, muddled, lapses>>
RecordChange(o) ==
  /\ changer[o].at = "record"
  /\ changes' = Append(changes, [from |-> changer[o].from, to |-> changer[o].to])
  /\ changer' = [changer EXCEPT ![o] = NoChange]
  /\ UNCHANGED <<plan, muddled, lapses>>
\* The store refuses it, before or after doing it, or the record is not made;
\* and the read of the old plan may fail, which is ignored.
ChangeFails(o) ==
  /\ Lapse
  /\ \/ /\ changer[o].at \in {"set", "record"}
        /\ plan' \in IF changer[o].at = "set" THEN {plan, changer[o].to} ELSE {plan}
        /\ changer' = [changer EXCEPT ![o] = NoChange]
     \/ /\ changer[o].at = "set"
        /\ changer' = [changer EXCEPT ![o].from = "none"]
        /\ UNCHANGED plan
  /\ muddled' = TRUE
  /\ UNCHANGED changes
PlanNext ==
  \E o \in Operator : ReadPlan(o) \/ SetPlan(o) \/ RecordChange(o) \/ ChangeFails(o)

-----------------------------------------------------------------------------
(* checkLogin() *)

Locked == lockout.until > minute
\* lockedOut() is asked before the password is compared.
TryLogin(a) ==
  /\ attempt[a] = "idle"
  /\ \E password \in {"right", "wrong"} :
       attempt' = [attempt EXCEPT ![a] = IF Locked THEN "locked" ELSE password]
  /\ UNCHANGED <<lockout, wrong, minute, lapses>>
FailuresSinceLock ==   \* Mutant: failures add up only after a first lock.
  IF Locked THEN lockout.failures
  ELSE IF lockout.at + Window < minute \/ lockout.until = 0 THEN 1 ELSE lockout.failures + 1
\* recordFailure(): one statement, whichever isolate runs it.
Failures ==
  IF Locked THEN lockout.failures
  ELSE IF lockout.at + Window < minute THEN 1 ELSE lockout.failures + 1
RecordFailure(a) ==
  /\ attempt[a] = "wrong"
  /\ lockout' = [failures |-> Failures, at |-> minute,
                 until |-> IF Locked THEN lockout.until
                           ELSE IF Failures >= MaxFailures THEN minute + Lock ELSE 0]
  /\ wrong' = IF Locked THEN wrong ELSE Append(wrong, minute)
  /\ attempt' = [attempt EXCEPT ![a] = "failed"]
  /\ UNCHANGED <<minute, lapses>>
\* A sign-in that succeeds deletes the row, with a lock it has itself escaped.
ClearFailures(a) ==
  /\ attempt[a] = "right"
  /\ lockout' = NoFailures /\ wrong' = <<>>
  /\ attempt' = [attempt EXCEPT ![a] = "in"]
  /\ UNCHANGED <<minute, lapses>>
Minute ==
  /\ minute < MaxMinutes
  /\ minute' = minute + 1
  /\ UNCHANGED <<lockout, attempt, wrong, lapses>>
SignInNext == Minute \/ \E a \in Attempt : TryLogin(a) \/ RecordFailure(a) \/ ClearFailures(a)

ConsoleNext ==
  \/ AgentNext /\ UNCHANGED <<contentVars, syncVars, planVars, signInVars>>
  \/ ContentNext /\ UNCHANGED <<agentVars, syncVars, planVars, signInVars>>
  \/ SyncNext /\ UNCHANGED <<agentVars, contentVars, planVars, signInVars>>
  \/ PlanNext /\ UNCHANGED <<agentVars, contentVars, syncVars, signInVars>>
  \/ SignInNext /\ UNCHANGED <<agentVars, contentVars, syncVars, planVars>>

ConsoleSpec == ConsoleInit /\ [][ConsoleNext]_consoleVars

-----------------------------------------------------------------------------
(* Properties. *)

\* However runs overlap, and wherever one has thrown: a run recorded as finished
\* has stored its drafts, the leads it has found and its insight; and a lead
\* keeps the status an operator has given it when it is found again.
AgentRunsAddUp ==
  /\ \A n \in DOMAIN agentRuns :
       LET r == agentRuns[n] IN
       r.status # "running" => /\ r.drafted = r.due /\ r.insight
                               /\ \A l \in r.found : lead[l] # "absent"
                               /\ r.status = "partial" => r.drafted = 0 /\ r.found = {}
  /\ \A l \in Lead : judged[l] # "absent" => lead[l] = judged[l]

\* A draft is posted once at most, a scheduled one has been posted and a
\* rejected one has not, unless two decisions overlapped on it or Postiz took
\* it without the console knowing.
DraftsPostOnce ==
  \A d \in Draft \ (mixed \cup unheard) :
    /\ posts[d] <= 1
    /\ content[d] = "scheduled" => posts[d] = 1
    /\ content[d] \in {"draft", "approved", "rejected"} /\ Deciding(d) = {} => posts[d] = 0
\* Repeating a sync, after a failure or a lost answer too, creates no plan
\* twice as long as no two syncs overlap.
PlansAreSingle == ~together => \A n \in DOMAIN Tier : finix[n] <= 1
\* The recorded changes of a plan follow on from one another, and the last is
\* the plan the customer has, unless changes overlapped or one failed.
PlanChangesFollow ==
  ~muddled =>
    /\ \A n \in 1 .. Len(changes) - 1 : changes[n + 1].from = changes[n].to
    /\ changes # <<>> /\ (\A o \in Operator : changer[o].at # "record") => Last(changes).to = plan
\* Once as many failures as are allowed have been counted within the last
\* window the address is locked out, however the attempts overlapped.
LockoutHolds ==
  Cardinality({n \in DOMAIN wrong : wrong[n] + Window > minute}) >= MaxFailures /\ Lock >= Window
    => Locked

ConsoleInv == AgentRunsAddUp /\ DraftsPostOnce /\ PlansAreSingle /\ PlanChangesFollow /\ LockoutHolds

=============================================================================
