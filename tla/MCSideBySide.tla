---------------------------- MODULE MCSideBySide ----------------------------
(* Instances for TLC of the components whose requests run side by side over  *)
(* one store.  They share no state here, so that each behaviour is of one    *)
(* of them, its part.                                                        *)
EXTENDS SubjectRecords, RecordUpdates, GraphReads, PlatformEdge, ProvisionFile, GovernedCalls, TLC
CONSTANTS x1, x2, x3,                        \* requests
  fact, both, kept, fresh, self, other,      \* records and identities
  a, b, c, d, ab, cb, cd, ad, k1, k2,        \* a graph, and consents
  q, i1, i2

VARIABLE part

\* A fact and a relationship may be created; one context entry is there.
MCAbout == (fact :> <<self>>) @@ (both :> <<other, self>>) @@ (kept :> <<self>>) @@ (fresh :> <<self>>)
MCTargets == {<<kept, both>>}
\* a - b - c - d, with ad as the shorter way from a to d.
MCFrom == (ab :> a) @@ (cb :> c) @@ (cd :> c) @@ (ad :> a)
MCTo == (ab :> b) @@ (cb :> b) @@ (cd :> d) @@ (ad :> d)

Parts == {"subject", "updates", "walks", "pages", "edge", "file", "calls"}
MCInit ==
  /\ part \in Parts
  /\ SubjectInit /\ row = [x \in Row |-> "absent"]
  /\ context = (kept :> "live") @@ (fresh :> "absent")
  /\ UpdateInit
  /\ GraphInit /\ edge = (ab :> "certified") @@ (cb :> "certified") @@ (cd :> "absent") @@ (ad :> "proposed")
  /\ consent = (k1 :> "active") @@ (k2 :> "absent") /\ due = {2}
  /\ EdgeInit
  /\ FileInit
  /\ CallsInit

Of(name, next) == part = name /\ next /\ UNCHANGED part
MCNext ==
  \/ /\ Of("subject", SubjectNext)
     /\ UNCHANGED <<updateVars, graphVars, edgeVars, fileVars, callVars>>
  \/ /\ Of("updates", UpdateNext)
     /\ UNCHANGED <<subjectVars, graphVars, edgeVars, fileVars, callVars>>
  \/ /\ \E r \in Reader : rd[r].pc \notin {"done", "refused"}   \* until all are answered
     /\ Of("walks", WalkNext) \/ Of("pages", PageNext)
     /\ UNCHANGED <<subjectVars, updateVars, edgeVars, fileVars, callVars>>
  \/ /\ Of("edge", EdgeNext)
     /\ UNCHANGED <<subjectVars, updateVars, graphVars, fileVars, callVars>>
  \/ /\ Of("file", FileNext)
     /\ UNCHANGED <<subjectVars, updateVars, graphVars, edgeVars, callVars>>
  \/ /\ Of("calls", CallsNext)
     /\ UNCHANGED <<subjectVars, updateVars, graphVars, edgeVars, fileVars>>
MCSpec == MCInit /\ [][MCNext]_<<part, subjectVars, updateVars, graphVars, edgeVars, fileVars, callVars>>

Symmetry == Permutations({x1, x2, x3})
=============================================================================
