----------------------------- MODULE SharedLog -----------------------------
(***************************************************************************)
(* What a hash-chained journal shared by several readers promises, with no *)
(* mention of flushes, races or failures: one log that only grows, and for *)
(* every reader a durable view that is always a prefix of that log and is  *)
(* never taken back, whatever the reader's process goes through.           *)
(*                                                                         *)
(* Because the digest of an entry covers everything before it, the digest  *)
(* of the head IS the history; the log is therefore the sequence of bodies.*)
(***************************************************************************)
EXTENDS Naturals, Sequences

CONSTANTS Body,      \* what an entry may carry
          Reader     \* the journal instances that look at the log

VARIABLES log,       \* the durable history, oldest entry first
          view       \* view[r] is the history r presents as durable

logVars == <<log, view>>

\* The first k entries of s.
Prefix(s, k) == SubSeq(s, 1, k)

\* s is an initial part of t.
PrefixOf(s, t) == /\ Len(s) <= Len(t)
                  /\ s = Prefix(t, Len(s))

LogInit == /\ log = <<>>
           /\ view = [r \in Reader |-> <<>>]

\* One or more entries become durable, after everything that already was.
Extend == /\ log' \in Seq(Body)
          /\ Len(log) < Len(log')
          /\ PrefixOf(log, log')
          /\ UNCHANGED view

\* Reader r learns of more of the log; what it already had stays.
Observe(r) == /\ PrefixOf(view[r], view'[r])
              /\ PrefixOf(view'[r], log)
              /\ view' = [view EXCEPT ![r] = view'[r]]
              /\ UNCHANGED log

LogNext == Extend \/ \E r \in Reader : Observe(r)

LogSpec == LogInit /\ [][LogNext]_logVars
=============================================================================
