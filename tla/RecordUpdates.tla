---------------------------- MODULE RecordUpdates ----------------------------
(***************************************************************************)
(* platform/api/src/handlers.js: the operations that read a row, compute a *)
(* new one from it and write it back, with an await in between and nothing *)
(* that notices a writer in the meantime: corroborateEvidence on the       *)
(* counters and the status of one evidence row, measureOutcome on the      *)
(* metrics column of one outcome, updateIdentity on the attributes of one  *)
(* identity.                                                               *)
(***************************************************************************)
EXTENDS Naturals, FiniteSets

CONSTANTS
  Update,      \* update requests, each of one operation
  Field        \* attribute fields an identity update may set
ASSUME UpdateAssumption == "unset" \notin Update
VARIABLES
  evidence,    \* the row: counts in favour and against, and its status
  outcome,     \* the measurements array: the requests whose entry it holds
  attributes,  \* the attributes column: the last writer of each field
  up,          \* up[u]: the local state of a request
  merged,      \* history: requests whose UPDATE has been done
  raced        \* history: requests whose row was written between read and write

updateVars == <<evidence, outcome, attributes, up, merged, raced>>

Vote == {"support", "contradict"}
Row0 == [sup |-> 0, con |-> 0, status |-> "seed"]
Evidence == [sup : Nat, con : Nat, status : {"seed", "proposed", "disputed"}]
Unset == "unset"
Idle == [op |-> "none", pc |-> "idle", vote |-> "support", fields |-> {},
         row |-> Row0, seen |-> {}, attr |-> [f \in Field |-> Unset]]

UpdateInit ==
  /\ evidence = Row0
  /\ outcome = {}
  /\ attributes = [f \in Field |-> Unset]
  /\ up = [u \in Update |-> Idle]
  /\ merged = {} /\ raced = {}

\* The handlers start by reading the row they will write.
Read(u, op, vote, fields) ==
  /\ up[u].pc = "idle"
  /\ up' = [up EXCEPT ![u] = [op |-> op, pc |-> "read", vote |-> vote, fields |-> fields,
                              row |-> evidence, seen |-> outcome, attr |-> attributes]]
  /\ UNCHANGED <<evidence, outcome, attributes, merged, raced>>
ReadEvidence(u) == \E v \in Vote : Read(u, "corroborate", v, {})
ReadOutcome(u) == Read(u, "measure", "support", {})
ReadIdentity(u) == \E fs \in SUBSET Field \ {{}} : Read(u, "update", "support", fs)

\* A write leaves every other reader of the same row with a stale copy.
Wrote(u) ==
  /\ up[u].pc = "read"
  /\ up' = [up EXCEPT ![u].pc = "done"]
  /\ merged' = merged \cup {u}
  /\ raced' = raced \cup {w \in Update \ {u} : up[w].pc = "read" /\ up[w].op = up[u].op}

StatusAfterMore(row, sup, con) ==   \* Mutant: as much against as in favour is no dispute.
  IF con > 0 /\ con > sup THEN "disputed"
  ELSE IF row.status = "seed" /\ sup >= 1 THEN "proposed" ELSE row.status
StatusAfter(row, sup, con) ==
  IF con > 0 /\ con >= sup THEN "disputed"
  ELSE IF row.status = "seed" /\ sup >= 1 THEN "proposed" ELSE row.status
Corroborated(row, vote) ==
  LET sup == row.sup + (IF vote = "support" THEN 1 ELSE 0)
      con == row.con + (IF vote = "contradict" THEN 1 ELSE 0)
  IN [sup |-> sup, con |-> con, status |-> StatusAfter(row, sup, con)]
CorroborateEvidence(u) ==
  /\ Wrote(u) /\ up[u].op = "corroborate"
  /\ evidence' = Corroborated(up[u].row, up[u].vote)
  /\ UNCHANGED <<outcome, attributes>>
MeasureOutcome(u) ==
  /\ Wrote(u) /\ up[u].op = "measure"
  /\ outcome' = up[u].seen \cup {u}
  /\ UNCHANGED <<evidence, attributes>>
\* Fields the body does not name go back as they were read.
UpdateIdentity(u) ==
  /\ Wrote(u) /\ up[u].op = "update"
  /\ attributes' = [f \in Field |-> IF f \in up[u].fields THEN u ELSE up[u].attr[f]]
  /\ UNCHANGED <<evidence, outcome>>

UpdateNext ==
  \E u \in Update :
    \/ ReadEvidence(u) \/ ReadOutcome(u) \/ ReadIdentity(u)
    \/ CorroborateEvidence(u) \/ MeasureOutcome(u) \/ UpdateIdentity(u)

UpdateSpec == UpdateInit /\ [][UpdateNext]_updateVars

-----------------------------------------------------------------------------
Done(op) == {u \in merged : up[u].op = op}
Votes(v) == {u \in Done("corroborate") : up[u].vote = v}
Quiet(op) == \A u \in raced : up[u].op # op

\* The status stored with an evidence row is the one its own counts call for,
\* whoever wrote it last: contradicted evidence is disputed, supported evidence
\* is no seed.  What races lose is votes: the counts never exceed them, and
\* count every one when no two writers overlapped; so for measurements.
UpdatesAreConsistent ==
  /\ evidence \in Evidence
  /\ evidence.con > 0 /\ evidence.con >= evidence.sup => evidence.status = "disputed"
  /\ evidence.sup > 0 => evidence.status # "seed"
  /\ evidence.sup <= Cardinality(Votes("support"))
  /\ evidence.con <= Cardinality(Votes("contradict"))
  /\ Quiet("corroborate") =>
       /\ evidence.sup = Cardinality(Votes("support"))
       /\ evidence.con = Cardinality(Votes("contradict"))
  /\ outcome \subseteq Done("measure")
  /\ Quiet("measure") => outcome = Done("measure")
  /\ Quiet("update") => \A f \in Field :
       attributes[f] = Unset <=> \A u \in Done("update") : f \notin up[u].fields

=============================================================================
