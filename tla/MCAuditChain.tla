---------------------------- MODULE MCAuditChain ----------------------------
(* Requests for TLC: a subject control and its repetition under one key, a
   write that misuses the key, a read that is denied, and writers that race. *)
EXTENDS AuditChain, TLC
CONSTANTS c1, c2, w1, w2, w3, w4, d, k, control, other

MixedKind == c1 :> "control" @@ c2 :> "control" @@ w1 :> "write" @@ d :> "read"
MixedKey == c1 :> k @@ c2 :> k @@ w1 :> k @@ d :> NoKey
MixedBody == c1 :> control @@ c2 :> control @@ w1 :> other @@ d :> other
Repetitions == Permutations({c1, c2})

RepeatedKind == [r \in Request |-> "control"]
RepeatedKey == [r \in Request |-> k]
RepeatedBody == [r \in Request |-> control]

WriterKind == [r \in Request |-> "write"]
WriterKey == [r \in Request |-> NoKey]
WriterBody == [r \in Request |-> r]
Writers == Permutations(Request)
=============================================================================
