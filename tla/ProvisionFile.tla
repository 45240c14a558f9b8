--------------------------- MODULE ProvisionFile ---------------------------
(***************************************************************************)
(* provision/service.mjs over src/store.js: the journal file of one        *)
(* identity, the requests that seed or replay it and run a governed        *)
(* program on it, and the proofs an auditor is given.                      *)
(*                                                                         *)
(* A request opens a FileJournal of its own.  Opening, verifying and       *)
(* seeding run without an await; the program awaits between its entries,   *)
(* and other requests may open the same file in between.  An entry's       *)
(* digest is the history it stands for, as in D1Journal.                   *)
(***************************************************************************)
EXTENDS Naturals, Sequences, FiniteSets, SequencesExt

CONSTANTS
  Call,        \* calls of provisionIdentity() for one owner and one name
  SeedLength,  \* grants, key and observations that seed the graph
  RunLength,   \* entries the program of one call appends
  MaxCuts      \* bound: failed writes, and times the process dies

ASSUME FileAssumption ==
  SeedLength \in Nat \ {0} /\ RunLength \in Nat /\ MaxCuts \in Nat

VARIABLES
  file,        \* the lines of the file; <<>> when there is no file
  ending,      \* how the last line ends: "whole", or "bare" without a newline
  pv,          \* pv[c]: a call and the journal it holds
  cuts,        \* bound: faults so far
  spoilt,      \* history: a write that failed left something in the file
  unseeded,    \* history: seeding was cut short
  overlapped   \* history: a call opened the file while another was under way

fileVars == <<file, ending, pv, cuts, spoilt, unseeded, overlapped>>

Torn == <<>>        \* a line no parser takes; an entry is never the empty history
NoProvision == [at |-> "start", boot |-> "none", list |-> <<>>, left |-> 0]

FileInit ==
  /\ file = <<>> /\ ending = "whole"
  /\ pv = [c \in Call |-> NoProvision]
  /\ cuts = 0
  /\ spoilt = FALSE /\ unseeded = FALSE /\ overlapped = FALSE

-----------------------------------------------------------------------------
(* The journal. *)

\* A chain in memory is the sequence of its bodies, and its last entry is that
\* whole history.  A line verifies if it parses and continues the one before.
LineVerifies(lines, i) ==
  /\ lines[i] # Torn
  /\ Front(lines[i]) = IF i = 1 THEN <<>> ELSE lines[i - 1]
\* The constructor loads a file whose every line verifies.
Loads(lines) == \A i \in DOMAIN lines : LineVerifies(lines, i)
Chain(lines) == IF lines = <<>> THEN <<>> ELSE Last(lines)

\* persist(): a line goes to the end of the file.  On a last line without its
\* newline it makes one line with it, which no parser takes.
Written(lines, end, entry) ==
  IF end = "bare" THEN Append(Front(lines), Torn) ELSE Append(lines, entry)
\* What a write leaves that throws, or that the end of the process cuts short.
Left(lines, end, entry) ==
  {[file |-> lines, ending |-> end],
   [file |-> Written(lines, end, entry), ending |-> "whole"],
   [file |-> Written(lines, end, entry), ending |-> "bare"],
   [file |-> Written(lines, end, Torn), ending |-> "bare"]}

\* The seed of c: its bodies, and the file after the first k of them.
SeedBodies(c, k) == [i \in 1 .. k |-> <<"seed", c, i>>]
Seeded(c, k) == [i \in 1 .. k |-> SeedBodies(c, i)]
Running(c) == pv[c].at = "run"
NextEntry(c) == Append(pv[c].list, <<"run", c, pv[c].left>>)

-----------------------------------------------------------------------------
(* provisionIdentity() *)

\* existsSync(), and everything to the first await of the program.
Exists == file # <<>>
Load(c) ==
  /\ pv[c].at = "start"
  /\ Exists
  /\ pv' = IF Loads(file)
           THEN [pv EXCEPT ![c] = [at |-> "run", boot |-> "replay", list |-> Chain(file),
                                   left |-> RunLength]]
           ELSE [pv EXCEPT ![c].at = "refused"]
  /\ overlapped' = (overlapped \/ \E o \in Call : Running(o))
  /\ UNCHANGED <<file, ending, cuts, spoilt, unseeded>>
Seed(c) ==
  /\ pv[c].at = "start"
  /\ ~Exists
  /\ file' = Seeded(c, SeedLength) /\ ending' = "whole"
  /\ pv' = [pv EXCEPT ![c] = [at |-> "run", boot |-> "seed",
                              list |-> SeedBodies(c, SeedLength), left |-> RunLength]]
  /\ overlapped' = (overlapped \/ \E o \in Call : Running(o))
  /\ UNCHANGED <<cuts, spoilt, unseeded>>
AppendLine(c) ==
  /\ Running(c) /\ pv[c].left > 0
  /\ file' = Written(file, ending, NextEntry(c)) /\ ending' = "whole"
  /\ pv' = [pv EXCEPT ![c].list = NextEntry(c), ![c].left = @ - 1]
  /\ UNCHANGED <<cuts, spoilt, unseeded, overlapped>>
\* The head of its own chain goes into the answer and into run.json.
Answer(c) ==
  /\ Running(c) /\ pv[c].left = 0
  /\ pv' = [pv EXCEPT ![c].at = "answered"]
  /\ UNCHANGED <<file, ending, cuts, spoilt, unseeded, overlapped>>

-----------------------------------------------------------------------------
(* Faults. *)

Cut == cuts < MaxCuts /\ cuts' = cuts + 1
Leaves(state, before) ==
  /\ file' = state.file /\ ending' = state.ending
  /\ spoilt' = (spoilt \/ state.file # before)
AppendThrowsLate(c) ==   \* Mutant: the entry joins the chain before it is written.
  /\ Running(c) /\ pv[c].left > 0 /\ Cut
  /\ \E state \in Left(file, ending, NextEntry(c)) : Leaves(state, file)
  /\ \/ pv' = [pv EXCEPT ![c].list = NextEntry(c), ![c].left = @ - 1]
     \/ pv' = [pv EXCEPT ![c].at = "failed"]
  /\ UNCHANGED <<unseeded, overlapped>>
\* persist() throws: the chain of the call stays as it is, and the program
\* goes on with the record of its failure, or throws as well.
AppendThrows(c) ==
  /\ Running(c) /\ pv[c].left > 0 /\ Cut
  /\ \E state \in Left(file, ending, NextEntry(c)) : Leaves(state, file)
  /\ \/ pv' = [pv EXCEPT ![c].left = @ - 1]
     \/ pv' = [pv EXCEPT ![c].at = "failed"]
  /\ UNCHANGED <<unseeded, overlapped>>
SeedThrows(c) ==
  /\ pv[c].at = "start" /\ ~Exists /\ Cut
  /\ \E k \in 0 .. SeedLength - 1 :
       \E state \in Left(Seeded(c, k), "whole", SeedBodies(c, k + 1)) :
         /\ Leaves(state, Seeded(c, k))
         /\ unseeded' = (state.file # <<>>)
  /\ pv' = [pv EXCEPT ![c].at = "failed"]
  /\ UNCHANGED overlapped
\* The process dies between two steps, or in the middle of a write.
Die ==
  /\ Cut
  /\ pv' = [c \in Call |-> IF Running(c) THEN [pv[c] EXCEPT !.at = "failed"] ELSE pv[c]]
  /\ \/ UNCHANGED <<file, ending, spoilt>>
     \/ \E c \in Call : Running(c) /\ pv[c].left > 0
          /\ \E state \in Left(file, ending, NextEntry(c)) : Leaves(state, file)
  /\ UNCHANGED <<unseeded, overlapped>>

FileNext ==
  \/ Die
  \/ \E c \in Call :
       Load(c) \/ Seed(c) \/ AppendLine(c) \/ Answer(c) \/ AppendThrows(c) \/ SeedThrows(c)

FileSpec == FileInit /\ [][FileNext]_fileVars

-----------------------------------------------------------------------------
(* Inclusion proofs over n entries: digests are terms, of the entry at a      *)
(* place or of two others.                                                   *)

Leaf(i) == [leaf |-> i]
Joined(l, r) == [l |-> l, r |-> r]
\* An odd node goes up as it is.
Up(level) ==
  [i \in 1 .. (Len(level) + 1) \div 2 |->
     IF 2 * i <= Len(level) THEN Joined(level[2 * i - 1], level[2 * i]) ELSE level[2 * i - 1]]
Levels(n) ==
  LET level[k \in 0 .. n] == IF k = 0 THEN [i \in 1 .. n |-> Leaf(i)] ELSE Up(level[k - 1])
  IN level
\* while (level.length > 1): the first level of one digest.
Height(n) ==
  CHOOSE h \in 0 .. n : /\ Len(Levels(n)[h]) = 1
                        /\ \A k \in 0 .. h - 1 : Len(Levels(n)[k]) > 1
MerkleRoot(n) == Levels(n)[Height(n)][1]
\* The siblings on the way up, where there is one.
Sibling(level, i) ==
  IF i % 2 = 0 THEN <<[side |-> "left", digest |-> level[i - 1]]>>
  ELSE IF i < Len(level) THEN <<[side |-> "right", digest |-> level[i + 1]]>>
  ELSE <<>>
Walk(n, seq) ==
  LET walk[k \in 0 .. Height(n)] ==
        IF k = 0 THEN [at |-> seq, proof |-> <<>>]
        ELSE [at |-> (walk[k - 1].at + 1) \div 2,
              proof |-> walk[k - 1].proof \o Sibling(Levels(n)[k - 1], walk[k - 1].at)]
  IN walk
InclusionProof(n, seq) == Walk(n, seq)[Height(n)].proof
\* The auditor's side: the steps of the proof, from the leaf up.
JoinStep(acc, step) ==
  IF step.side = "left" THEN Joined(step.digest, acc) ELSE Joined(acc, step.digest)
Climb(leaf, proof) ==
  LET acc[k \in 0 .. Len(proof)] == IF k = 0 THEN leaf ELSE JoinStep(acc[k - 1], proof[k])
  IN acc
VerifyInclusion(leaf, proof, root) == Climb(leaf, proof)[Len(proof)] = root

\* verifyCheckpoint(): the chain reaches the length and has the head there.
VerifyCheckpoint(lines, head, length) ==
  Len(lines) >= length /\ lines[length] = head

-----------------------------------------------------------------------------
(* Properties. *)

Answered(c) == pv[c].at = "answered"

\* Unless two calls for one identity overlapped or a failed write left
\* something behind, the file loads.
FileStaysLoadable == ~overlapped /\ ~spoilt => Loads(file)

\* Whoever is answered has its history in the file, and whatever happens to the
\* file afterwards, if it loads at all it contains that head at that length: the
\* answer is a checkpoint.
AnswersAreCheckpoints ==
  \A c \in Call : Answered(c) /\ Loads(file) =>
    VerifyCheckpoint(file, pv[c].list, Len(pv[c].list))

\* Every chain that a program runs on begins with the seed of one call, in
\* order, and has nothing of a seed after it; the seed is whole unless seeding
\* was cut short: the rest is then never written.
SeededOnce ==
  \A c \in Call : Running(c) \/ Answered(c) =>
    LET list == pv[c].list IN
    \E d \in Call, k \in 0 .. SeedLength :
      /\ SubSeq(list, 1, k) = SeedBodies(d, k)
      /\ \A i \in k + 1 .. Len(list) : list[i][1] = "run"
      /\ ~unseeded => k = SeedLength

\* Every entry of an answered chain is proved under the root of that chain, and
\* no proof of one entry proves another.
ProofsAgree ==
  \A n \in {Len(pv[c].list) : c \in {c \in Call : Answered(c)}} :
    LET root == MerkleRoot(n) IN
    \A i \in 1 .. n :
      LET proof == InclusionProof(n, i) IN
      \A j \in 1 .. n : VerifyInclusion(Leaf(j), proof, root) <=> i = j

FileInv == FileStaysLoadable /\ AnswersAreCheckpoints /\ SeededOnce /\ ProofsAgree

=============================================================================
