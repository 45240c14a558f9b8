-------------------------- MODULE GovernedDecode ---------------------------
(***************************************************************************)
(* src/bridge.js, the extract() of src/runtime.js and the one of           *)
(* provision/governed-ai.mjs, and src/decode.js: how a model's answer      *)
(* becomes a governed value.  An extraction compiles its admissible set    *)
(* (gamma), waits for a model, and lifts the answer back (alpha).  The     *)
(* model either decodes under the prefix automaton, one token per step,    *)
(* or is a vendor's and answers anything.  Extractions run side by side    *)
(* and share one Bridge, so also its strictness.                           *)
(*                                                                         *)
(* An extraction here has one slot.  A text is a Word; Fragment is any     *)
(* text that is no Word.  A distribution is the set of tokens with mass.   *)
(***************************************************************************)
EXTENDS Naturals, Sequences, FiniteSets, SequencesExt, Functions

CONSTANTS
  Extraction,  \* extractions that may overlap
  Word,        \* the texts that matter, ABSTAIN aside
  Abstain, Fragment,
  Token, Encode,   \* the tokenizer: the tokens of each word and of ABSTAIN
  Broader,     \* the dimension's parents, a function on some words
  Norm,        \* norm() of each word and of Fragment
  OneEdit,     \* pairs of norms at edit distance 1
  SlotAsk,     \* the slots asked for: [kind, admissible]
  MaxSteps,    \* maxSteps of governedGenerate
  MaxEdits     \* bound: changes of the source document

Strictness == {"exact", "lattice", "fuzzy"}

ASSUME DecodeAssumption ==
  /\ Encode \in [Word \cup {Abstain} -> Seq(Token) \ {<<>>}]
  /\ IsInjective(Encode)
  /\ IsFiniteSet(Word) /\ Abstain \notin Word /\ Fragment \notin Word \cup {Abstain}
  /\ DOMAIN Broader \subseteq Word
  /\ SlotAsk \subseteq [kind : {"code", "enum", "span"}, admissible : SUBSET Word]
  /\ MaxSteps \in Nat \ {0} /\ MaxEdits \in Nat

VARIABLES
  strictness,  \* bridge.strictness
  ex,          \* ex[x]: an extraction
  crossed,     \* history: extractions during which another set the strictness
  version,     \* of the source document; the manifest was cut at version 0
  decode       \* one governedDecode over fixed weights: [trace, tokens, outcome]

decodeVars == <<strictness, ex, crossed, version, decode>>

Unlifted == [how |-> "none"]
NoExtraction == [at |-> "idle", kind |-> "none", admissible |-> {}, under |-> "none",
                 ids |-> <<>>, outcome |-> "none", lifted |-> Unlifted]
NoDecode == [trace |-> <<>>, tokens |-> <<>>, outcome |-> "COMPLIANT", over |-> FALSE]

DecodeInit ==
  /\ strictness = "lattice"
  /\ ex = [x \in Extraction |-> NoExtraction]
  /\ crossed = {} /\ version = 0
  /\ decode = NoDecode

-----------------------------------------------------------------------------
(* gamma: the prefix automaton *)

Language(admissible) == {Encode[w] : w \in admissible \cup {Abstain}}
InLanguage(admissible, ids) == \E s \in Language(admissible) : IsPrefix(ids, s)
FlatUnion(admissible, ids) ==   \* Mutant: one set of tokens for every position.
  UNION {Range(s) : s \in Language(admissible)}
\* maskNext(): what may follow, or nothing once the prefix left the language.
MaskNext(admissible, ids) ==
  {t \in Token : \E s \in Language(admissible) : IsPrefix(Append(ids, t), s)}
Accepting(admissible, ids) == ids \in Language(admissible)

\* tokenizer.decode(): the text of a sequence of tokens.
Decoded(ids) == IF ids \in Range(Encode) THEN Inverse(Encode, DOMAIN Encode, Range(Encode))[ids]
                ELSE Fragment

-----------------------------------------------------------------------------
(* alpha: project() *)

Ancestors(w) ==
  LET up[n \in 0 .. Cardinality(Word)] ==
        IF n = 0 THEN {}
        ELSE up[n - 1] \cup {Broader[v] : v \in (up[n - 1] \cup {w}) \cap DOMAIN Broader}
  IN up[Cardinality(Word)]
Under(admissible) == {w \in Word : w \in admissible \/ Ancestors(w) \cap admissible # {}}

Taken(v, how, text) == [how |-> how, value |-> v, candidate |-> text]
Rejected(how) == [how |-> how]

\* The admissible words a text may be a spelling of: those with its norm, or,
\* unless they are codes, those one edit away.
Spelled(text, kind, admissible) ==
  LET same == {a \in admissible : Norm[a] = Norm[text]}
      near == {a \in admissible : {Norm[a], Norm[text]} \in OneEdit}
  IN IF same # {} THEN same ELSE IF kind = "code" THEN {} ELSE near

Project(text, kind, admissible, strict) ==
  LET spelled == Spelled(text, kind, admissible)
  IN CASE text = Abstain -> Rejected("abstain")
       [] text \in admissible -> Taken(text, "exact", text)
       [] text \notin admissible \cup {Abstain} /\ strict = "exact" -> Rejected("not-in-set")
       [] OTHER ->
            IF Ancestors(text) \cap admissible # {} THEN Taken(text, "specialised", text)
            ELSE IF \E a \in admissible : text \in Ancestors(a)
              THEN Rejected("generalisation-refused")
            ELSE IF strict = "fuzzy" /\ Cardinality(spelled) = 1
              THEN Taken(CHOOSE a \in spelled : TRUE, "respelled", text)
            ELSE IF strict = "fuzzy" /\ spelled # {} THEN Rejected("ambiguous")
            ELSE Rejected("not-in-set")

\* A span is read where the model points, of the document the manifest names:
\* how sure the model is of the place decides what the value counts as.
Located(place, doc) ==
  CASE place = "unusable" \/ doc # 0 -> Rejected("unmapped")
    [] place = "held" /\ doc = 0 -> Rejected("held")
    [] OTHER -> [how |-> "read", value |-> doc,
                 class |-> IF place = "admissible" THEN "deterministic" ELSE "proposed"]

-----------------------------------------------------------------------------
(* extract() *)

\* The admissible set must not be empty.  The caller may name a strictness,
\* which is set on the bridge, for every extraction.
Ask(x) ==
  /\ ex[x].at = "idle"
  /\ \E slot \in SlotAsk, asked \in Strictness \cup {"unasked"} :
       /\ strictness' = IF asked = "unasked" THEN strictness ELSE asked
       /\ crossed' = crossed \cup
            (IF strictness' = strictness THEN {} ELSE {y \in Extraction : ex[y].at = "asked"})
       /\ ex' = [ex EXCEPT ![x] =
            IF slot.kind \in {"code", "enum"} /\ slot.admissible = {}
            THEN [@ EXCEPT !.at = "failed"]
            ELSE [@ EXCEPT !.at = "asked", !.kind = slot.kind, !.admissible = slot.admissible,
                           !.under = strictness', !.outcome = "COMPLIANT"]]
  /\ UNCHANGED <<version, decode>>

Lift(x, answer, outcome) ==
  ex' = [ex EXCEPT ![x].at = "lifted", ![x].outcome = outcome, ![x].lifted =
           Project(answer, ex[x].kind, ex[x].admissible, strictness)]

\* A vendor's model answers anything at all.
VendorAnswers(x) ==
  /\ ex[x].at = "asked" /\ ex[x].ids = <<>>
  /\ IF ex[x].kind = "span"
     THEN \E place \in {"unusable", "held", "unstated", "proposed", "admissible"} :
            ex' = [ex EXCEPT ![x].at = "lifted", ![x].lifted = Located(place, version)]
     ELSE \E w \in Word \cup {Abstain, Fragment} : Lift(x, w, "COMPLIANT")
  /\ UNCHANGED <<strictness, crossed, version, decode>>
\* governedGenerate(): the automaton decides what the model may emit; the raw
\* distribution may give mass to any tokens, and the sampler may pick any of
\* those left.
Decoding(x) == ex[x].at = "asked" /\ ex[x].kind \in {"code", "enum"}
Emit(x) ==
  /\ Decoding(x)
  /\ Len(ex[x].ids) < MaxSteps /\ InLanguage(ex[x].admissible, ex[x].ids)
  /\ ~Accepting(ex[x].admissible, ex[x].ids)
  /\ \E raw \in SUBSET Token : LET governed == raw \cap MaskNext(ex[x].admissible, ex[x].ids) IN
       IF governed = {}
       THEN Lift(x, Decoded(ex[x].ids), "HARD_VIOLATION")
       ELSE \E t \in governed : ex' = [ex EXCEPT ![x].ids = Append(@, t)]
  /\ UNCHANGED <<strictness, crossed, version, decode>>
\* The automaton accepts, or the prefix left the language, or the steps are up.
Finish(x) ==
  /\ Decoding(x) /\ ex[x].ids # <<>>
  /\ \/ Len(ex[x].ids) = MaxSteps
     \/ Accepting(ex[x].admissible, ex[x].ids)
     \/ ~InLanguage(ex[x].admissible, ex[x].ids)
  /\ Lift(x, Decoded(ex[x].ids),
          IF Len(ex[x].ids) < MaxSteps /\ ~InLanguage(ex[x].admissible, ex[x].ids)
          THEN "HARD_VIOLATION" ELSE "COMPLIANT")
  /\ UNCHANGED <<strictness, crossed, version, decode>>
DocumentChanges ==
  /\ version < MaxEdits
  /\ version' = version + 1
  /\ UNCHANGED <<strictness, ex, crossed, decode>>

-----------------------------------------------------------------------------
(* governedDecode() over fixed weights, and its seal *)

Blocked == {Encode[Abstain][1]}   \* some token of weight 0

\* governedStep(): the raw distribution restricted, the ceilings checked.
StepRecord(raw, over, strict) ==
  LET governed == raw \ Blocked IN
  [mass |-> governed,
   outcome |-> IF governed = {} THEN "HARD_VIOLATION"
               ELSE IF over THEN (IF strict THEN "HARD_VIOLATION" ELSE "SOFT_VIOLATION")
               ELSE "COMPLIANT"]
DecodeStep ==
  /\ ~decode.over
  /\ \E raw \in SUBSET Token, over \in BOOLEAN, strict \in BOOLEAN :
       LET r == StepRecord(raw, over, strict)
           hard == r.outcome = "HARD_VIOLATION" IN
       \E t \in IF hard THEN {Abstain} ELSE r.mass :
         decode' = [trace |-> Append(decode.trace, r),
                    tokens |-> IF hard THEN decode.tokens ELSE Append(decode.tokens, t),
                    outcome |-> IF hard THEN "HARD_VIOLATION" ELSE decode.outcome,
                    over |-> hard \/ Len(decode.trace) + 1 = MaxSteps]
  /\ UNCHANGED <<strictness, ex, crossed, version>>

\* The digest of a trace covers what each step had mass on, in order; a step
\* that had none is digested as a record of that.
DecodeDigest(trace) == [n \in DOMAIN trace |-> trace[n].mass]
VerifyDecode(trace, digest) ==
  /\ \A n \in DOMAIN trace : trace[n].mass \cap Blocked = {}
  /\ DecodeDigest(trace) = digest

ExtractNext ==
  \/ \E x \in Extraction : Ask(x) \/ VendorAnswers(x) \/ Emit(x) \/ Finish(x)
  \/ DocumentChanges
DecodeNext == ExtractNext \/ DecodeStep

DecodeSpec == DecodeInit /\ [][DecodeNext]_decodeVars

-----------------------------------------------------------------------------
(* Properties. *)

LiftedOnes == {x \in Extraction : ex[x].at = "lifted" /\ "value" \in DOMAIN ex[x].lifted}

\* Whatever the model answers, a vendor's or one stopped half way through a
\* word, the value taken is an admissible one or lies below one: alpha after
\* gamma stays in the downward closure of the admissible set.  A code is
\* never repaired into another: what was not spelled as it, was refused.
ValuesAreGoverned ==
  \A x \in LiftedOnes : ex[x].kind # "span" =>
    /\ ex[x].lifted.value \in Under(ex[x].admissible)
    /\ ex[x].kind = "code" /\ ex[x].lifted.how = "respelled" =>
         Norm[ex[x].lifted.candidate] = Norm[ex[x].lifted.value]
\* An extraction is lifted as strictly as the manifest it is traced with says,
\* unless another one changed the strictness of the bridge while it waited.
StrictAsStated ==
  \A x \in LiftedOnes \ crossed : ex[x].kind # "span" =>
    ex[x].lifted.how \in CASE ex[x].under = "exact" -> {"exact"}
                           [] ex[x].under = "lattice" -> {"exact", "specialised"}
                           [] ex[x].under = "fuzzy" -> {"exact", "specialised", "respelled"}
\* A value read from a span is of the document the manifest names, even when
\* the document changes while the model looks.
SpansAreOfTheManifest ==
  \A x \in LiftedOnes : ex[x].kind = "span" => ex[x].lifted.value = 0
\* A decode never leaves the language of its automaton; one that ends in time
\* and without a violation has spelled an admissible value, or ABSTAIN, out.
DecodesSpellValues ==
  \A x \in Extraction :
    /\ InLanguage(ex[x].admissible, ex[x].ids)
    /\ ex[x].at = "lifted" /\ ex[x].ids # <<>> /\ ex[x].outcome = "COMPLIANT"
         /\ Len(ex[x].ids) < MaxSteps => ex[x].lifted.how \in {"exact", "abstain"}
\* A decode over fixed weights emits nothing that is blocked and stops at a hard
\* violation, before emitting; its own trace verifies, and no trace does that
\* lacks a step, swaps two, or moves mass.
SealsVerify ==
  LET t == decode.trace
      n == Len(t)
      digest == DecodeDigest(t)
      Swapped(i, j) == [k \in 1 .. n |-> IF k = i THEN t[j] ELSE IF k = j THEN t[i] ELSE t[k]]
  IN
  /\ \A k \in 1 .. n : t[k].outcome = "HARD_VIOLATION" => k = n /\ decode.outcome = "HARD_VIOLATION"
  /\ Len(decode.tokens) = IF decode.outcome = "HARD_VIOLATION" THEN n - 1 ELSE n
  /\ \A k \in DOMAIN decode.tokens : decode.tokens[k] \in t[k].mass \ Blocked
  /\ VerifyDecode(t, digest)
  /\ n > 0 => ~VerifyDecode(Front(t), digest)
  /\ \A i, j \in 1 .. n : t[i].mass # t[j].mass => ~VerifyDecode(Swapped(i, j), digest)
  /\ \A i \in 1 .. n, m \in SUBSET Token : m # t[i].mass =>
       ~VerifyDecode([t EXCEPT ![i].mass = m], digest)

DecodeInv ==
  /\ ValuesAreGoverned /\ StrictAsStated /\ SpansAreOfTheManifest
  /\ DecodesSpellValues /\ SealsVerify

=============================================================================
