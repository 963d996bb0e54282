------------------------ MODULE BatchPipelineProofs ------------------------
(***************************************************************************)
(* Theorems about BatchPipeline, for any candidates, numbers of            *)
(* references, inputs and answers of the batches.                          *)
(*                                                                         *)
(* The phases leave their results in dictionaries which later phases read, *)
(* all references of all candidates at once.  The inductive invariant says *)
(* what each dictionary holds for each reference once its phase is over,   *)
(* in terms of what was asked and answered for that reference alone.       *)
(***************************************************************************)
EXTENDS BatchPipeline, ScoringProofs

FactsSpace == FactsRead \cup {NoFacts}

StateSpace ==
    [facts : FactsSpace, discrepancies : Discrepancies, sentiment : Sentiments \cup {None},
     redFlags : Nat, score : (0..100) \cup {None}, review : BOOLEAN]

Types ==
    /\ shape \in Shapes
    /\ input \in [Keys -> Inputs]
    /\ phase \in Phases
    /\ invalid \subseteq Keys
    /\ facts \in [Keys -> FactsRead \cup {None, Failed}]
    /\ feeling \in [Keys -> Feelings \cup {None, Failed}]
    /\ state \in [Keys -> StateSpace]
    /\ DOMAIN result = Keys
    /\ \A k \in Keys : result[k] = NoResult \/ result[k].name = k
    /\ flags \in [Candidates -> Discrepancies]
    /\ review \in [Candidates -> BOOLEAN]
    /\ unsummarized \subseteq Keys \cup Candidates

-----------------------------------------------------------------------------
(* What the phases leave behind *)

AfterOverall == {"conclude", "done"}

AfterSummarize == {"overall"} \cup AfterOverall

AfterScore == {"summarize"} \cup AfterSummarize

AfterDiff == {"comments", "explain", "score"} \cup AfterScore

IsOpen(k) == k \in Valid /\ input[k].type = "open_text"

IsForm(k) == k \in Valid /\ input[k].type = "yes_no"

\* A failed extract item states nothing, a failed sentiment item says nothing.
StatedBy(k) == IF facts[k] = Failed THEN NoFacts ELSE facts[k]

Felt(k) ==
    IF feeling[k] \in {None, Failed} THEN [sentiment |-> "neutral", redFlags |-> 0]
    ELSE feeling[k]

\* Every item of phase 1 was answered.
ReadDone(k) ==
    /\ facts[k] \in FactsRead \cup {Failed}
    /\ feeling[k] \in Feelings \cup {Failed}

\* The state of a reference is made of the answers to its own items.
Compared(k) ==
    /\ IsOpen(k) =>
          /\ ReadDone(k)
          /\ feeling[k] \in Feelings
          /\ state[k].facts = StatedBy(k)
          /\ state[k].discrepancies = DiffFacts(Claimed[k[1]], StatedBy(k))
          /\ state[k].sentiment = feeling[k].sentiment
          /\ state[k].redFlags = feeling[k].redFlags
    /\ IsForm(k) =>
          /\ state[k].facts = NoFacts
          /\ state[k].discrepancies = FormDiscrepancies(input[k].form)
          /\ state[k].sentiment = Felt(k).sentiment
          /\ state[k].redFlags = FormRedFlags(input[k].form) + Felt(k).redFlags

Scored(k) ==
    k \in Valid =>
        /\ state[k].score =
              Score(state[k].discrepancies, state[k].redFlags, state[k].sentiment)
        /\ state[k].review =
              NeedsReview(state[k].discrepancies, state[k].redFlags, state[k].sentiment)

Reported(k) ==
    result[k] = IF k \in invalid THEN Unprocessed(k) ELSE Assembled(k, unsummarized)

Progress(k) ==
    /\ phase = "diff" /\ IsOpen(k) => ReadDone(k)
    /\ phase \in {"diff", "comments"} /\ IsForm(k) => feeling[k] = None
    /\ phase \in AfterDiff => Compared(k)
    /\ phase \in AfterScore => Scored(k)
    /\ phase \in AfterSummarize => Reported(k)

Judged(c) ==
    /\ flags[c] = CrossFlags(ResultsOf(c))
    /\ review[c] = OverallNeedsReview(ResultsOf(c), flags[c])

IInv ==
    /\ Types
    /\ phase # "validate" => invalid = {k \in Keys : ~InputValid(input[k])}
    /\ \A k \in Keys : Progress(k)
    /\ phase \in AfterOverall => \A c \in Candidates : Judged(c)
    /\ CrashHasACause

-----------------------------------------------------------------------------
LEMMA InputTypes ==
  ASSUME Types, NEW k \in Keys
  PROVE  input[k].type \in {"open_text", "yes_no"}
  BY BatchAssumption DEF Types

LEMMA NoStateTyped == NoState \in StateSpace
  BY DEF NoState, StateSpace, FactsSpace, Discrepancies, Sentiments

\* A reference is the pair of its candidate and its number.
LEMMA KeyPairs ==
  ASSUME Types
  PROVE  /\ \A k \in Keys : /\ k[1] \in Candidates /\ k[2] \in 1..shape[k[1]]
                            /\ k = <<k[1], k[2]>>
         /\ \A c \in Candidates : \A r \in 1..shape[c] : <<c, r>> \in Keys
         /\ Candidates \cap Keys = {}
  BY KeysAssumption DEF Types, Keys, KeysOf

LEMMA InitIInv == Init => IInv
<1> SUFFICES ASSUME Init PROVE IInv
  OBVIOUS
<1>1. state \in [Keys -> StateSpace]
  BY NoStateTyped DEF Init
<1>2. Types
  BY <1>1 DEF Init, Types, Phases, Discrepancies
<1>3. \A k \in Keys : Progress(k)
  BY DEF Init, Progress, AfterDiff, AfterScore, AfterSummarize, AfterOverall
<1> QED
  BY <1>2, <1>3 DEF Init, IInv, AfterOverall, CrashHasACause

-----------------------------------------------------------------------------
(* One lemma per phase *)

LEMMA ValidateStep ==
  ASSUME IInv, Validate
  PROVE  IInv'
<1>1. Keys' = Keys
  BY DEF Validate, Keys
<1>2. Types'
  BY <1>1 DEF Validate, IInv, Types, Phases
<1>3. \A k \in Keys' : Progress(k)'
  BY <1>1 DEF Validate, Progress, AfterDiff, AfterScore, AfterSummarize, AfterOverall
<1>4. invalid' = {k \in Keys' : ~InputValid(input'[k])} /\ phase' = "read"
  BY <1>1 DEF Validate
<1> QED
  BY <1>2, <1>3, <1>4 DEF IInv, AfterOverall, CrashHasACause

LEMMA ReadStep ==
  ASSUME IInv, Read
  PROVE  IInv'
<1>1. /\ phase = "read" /\ phase' = "diff" /\ Keys' = Keys /\ Valid' = Valid
      /\ UNCHANGED <<shape, input, invalid, state, result, flags, review, unsummarized>>
  BY DEF Read, Keys, Valid
<1> DEFINE asked == OfType("open_text")
<1>2. PICK f \in [asked -> FactsRead \cup {Failed}],
           g \in [asked -> Feelings \cup {Failed}] :
             /\ facts' = [k \in Keys |-> IF k \in asked THEN f[k] ELSE None]
             /\ feeling' = [k \in Keys |-> IF k \in asked THEN g[k] ELSE None]
  BY DEF Read
<1>3. /\ facts' \in [Keys -> FactsRead \cup {None, Failed}]
      /\ feeling' \in [Keys -> Feelings \cup {None, Failed}]
  BY <1>2
<1>4. Types'
  BY <1>1, <1>3 DEF IInv, Types, Phases
<1>5. ASSUME NEW k \in Keys PROVE Progress(k)'
  <2>1. IsOpen(k)' => ReadDone(k)'
    BY <1>1, <1>2 DEF IsOpen, OfType, ReadDone
  <2>2. IsForm(k)' => feeling'[k] = None
    BY <1>1, <1>2 DEF IsForm, OfType
  <2> QED
    BY <1>1, <2>1, <2>2
       DEF Progress, AfterDiff, AfterScore, AfterSummarize, AfterOverall
<1> QED
  BY <1>1, <1>4, <1>5 DEF IInv, AfterOverall, CrashHasACause

\* What phase 2 writes for one reference.
LEMMA DiffSound ==
  ASSUME IInv, Diff, NEW k \in Keys
  PROVE  state'[k] \in StateSpace /\ Compared(k)'
<1>1. /\ phase = "diff" /\ Keys' = Keys /\ Valid' = Valid
      /\ \A j \in OfType("open_text") : feeling[j] # Failed
      /\ UNCHANGED <<shape, input, invalid, facts, feeling, result, flags, review,
                     unsummarized>>
  BY DEF Diff, RaisesOn, Keys, Valid
<1>2. CASE IsOpen(k)
  <2> DEFINE found == DiffFacts(Claimed[k[1]], StatedBy(k))
  <2>1. ReadDone(k) /\ feeling[k] \in Feelings
    BY <1>1, <1>2 DEF IInv, Progress, ReadDone, IsOpen, OfType
  <2>2. feeling[k].sentiment \in Sentiments /\ feeling[k].redFlags \in Nat
    BY <2>1, BatchAssumption
  <2>3. state'[k] = [NoState EXCEPT !.facts = StatedBy(k),
                                    !.discrepancies = found,
                                    !.sentiment = feeling[k].sentiment,
                                    !.redFlags = feeling[k].redFlags]
    BY <1>1, <1>2 DEF Diff, IsOpen, OfType, StatedBy
  <2>4. found \in Discrepancies
    BY DiffTyped
  <2>5. StatedBy(k) \in FactsSpace
    BY <2>1 DEF ReadDone, StatedBy, FactsSpace
  <2> HIDE DEF found
  <2>6. /\ state'[k].facts = StatedBy(k)
        /\ state'[k].discrepancies = found
        /\ state'[k].sentiment = feeling[k].sentiment
        /\ state'[k].redFlags = feeling[k].redFlags
    BY <2>3 DEF NoState
  <2>7. state'[k] \in StateSpace
    BY <2>2, <2>3, <2>4, <2>5, NoStateTyped DEF StateSpace
  <2>8. /\ input'[k] = input[k] /\ feeling'[k] = feeling[k] /\ StatedBy(k)' = StatedBy(k)
        /\ ReadDone(k)' /\ ~IsForm(k)'
    BY <1>1, <1>2, <2>1 DEF StatedBy, ReadDone, IsOpen, IsForm
  <2> QED
    BY <2>1, <2>6, <2>7, <2>8 DEF Compared, found
<1>3. CASE IsForm(k)
  <2> DEFINE found == FormDiscrepancies(input[k].form)
             red == FormRedFlags(input[k].form)
  <2>1. feeling[k] = None
    BY <1>1, <1>3 DEF IInv, Progress
  <2>2. state'[k] = [NoState EXCEPT !.discrepancies = found, !.sentiment = "neutral",
                                    !.redFlags = red]
    BY <1>1, <1>3 DEF Diff, IsForm, OfType
  <2>3. found \in Discrepancies /\ red \in Nat
    BY FormTyped
  <2> HIDE DEF found, red
  <2>4. /\ state'[k].facts = NoFacts /\ state'[k].discrepancies = found
        /\ state'[k].sentiment = "neutral" /\ state'[k].redFlags = red
    BY <2>2 DEF NoState
  <2>5. state'[k] \in StateSpace
    BY <2>2, <2>3, NoStateTyped DEF StateSpace, Sentiments
  <2>6. Felt(k)' = [sentiment |-> "neutral", redFlags |-> 0]
    BY <1>1, <2>1 DEF Felt
  <2>7. Felt(k)'.sentiment = "neutral" /\ red + Felt(k)'.redFlags = red
    BY <2>3, <2>6
  <2>8. input'[k] = input[k] /\ ~IsOpen(k)'
    BY <1>1, <1>3 DEF IsOpen, IsForm
  <2> QED
    BY <2>4, <2>5, <2>7, <2>8 DEF Compared, found, red
<1>4. CASE ~IsOpen(k) /\ ~IsForm(k)
  <2>1. state'[k] = state[k] /\ ~IsOpen(k)' /\ ~IsForm(k)'
    BY <1>1, <1>4 DEF Diff, IsOpen, IsForm, OfType
  <2> QED
    BY <2>1 DEF IInv, Types, Compared
<1> QED
  BY <1>2, <1>3, <1>4

LEMMA DiffStep ==
  ASSUME IInv, Diff
  PROVE  IInv'
<1>1. /\ phase = "diff" /\ phase' = "comments" /\ Keys' = Keys /\ Valid' = Valid
      /\ UNCHANGED <<shape, input, invalid, facts, feeling, result, flags, review,
                     unsummarized>>
  BY DEF Diff, Keys, Valid
<1>2. DOMAIN state' = Keys /\ state' = [k \in Keys |-> state'[k]]
  BY DEF Diff
<1>3. state' \in [Keys -> StateSpace]
  BY <1>2, DiffSound
<1>4. Types'
  BY <1>1, <1>3 DEF IInv, Types, Phases
<1>5. ASSUME NEW k \in Keys PROVE Progress(k)'
  <2>1. IsForm(k)' => feeling'[k] = None
    BY <1>1 DEF IInv, Progress, IsForm
  <2> QED
    BY <1>1, <2>1, DiffSound DEF Progress, AfterScore, AfterSummarize, AfterOverall
<1> QED
  BY <1>1, <1>4, <1>5 DEF IInv, AfterOverall, CrashHasACause

LEMMA RedFlagSums == \A m, n \in Nat : m + 0 = m /\ m + n \in Nat
  OBVIOUS

\* What phase 3 makes of one reference.
LEMMA CommentsSound ==
  ASSUME IInv, phase = "comments", NEW k \in Keys,
         NEW g \in [Commented -> Feelings \cup {Failed}],
         UNCHANGED <<shape, input, invalid, facts>>,
         feeling' = [j \in Keys |-> IF j \in Commented THEN g[j] ELSE feeling[j]],
         state' = [j \in Keys |->
            IF j \in {i \in Commented : g[i] # Failed}
            THEN [state[j] EXCEPT !.sentiment = g[j].sentiment,
                                  !.redFlags = MergedFlags(@, g[j].redFlags)]
            ELSE state[j]]
  PROVE  state'[k] \in StateSpace /\ Compared(k)'
<1>1. /\ Keys' = Keys /\ Valid' = Valid /\ input'[k] = input[k] /\ facts'[k] = facts[k]
      /\ state[k] \in StateSpace
      /\ Compared(k)
  BY DEF Keys, Valid, IInv, Types, Progress, AfterDiff
<1>2. CASE k \in Commented /\ g[k] # Failed
  <2> DEFINE merged == state[k].redFlags + g[k].redFlags
  <2>1. IsForm(k) /\ ~IsOpen(k)
    BY <1>2 DEF Commented, OfType, IsForm, IsOpen
  <2>2. g[k] \in Feelings /\ feeling'[k] = g[k]
    BY <1>2
  <2>3. g[k].sentiment \in Sentiments /\ g[k].redFlags \in Nat
    BY <2>2, BatchAssumption
  <2>4. state'[k] = [state[k] EXCEPT !.sentiment = g[k].sentiment, !.redFlags = merged]
    BY <1>2 DEF MergedFlags
  <2>5. feeling[k] = None
    BY <2>1 DEF IInv, Progress
  <2>6. Felt(k).redFlags = 0
    BY <2>5 DEF Felt
  <2> DEFINE red == FormRedFlags(input[k].form)
  <2>7. red \in Nat /\ state[k].redFlags = red + Felt(k).redFlags
    BY <1>1, <2>1, FormTyped DEF Compared
  <2> HIDE DEF red
  <2>8. state[k].redFlags = red
    <3>1. red + Felt(k).redFlags = red + 0
      BY <2>6
    <3>2. red + 0 = red
      BY <2>7, RedFlagSums
    <3> QED
      BY <2>7, <3>1, <3>2
  <2>9. merged \in Nat /\ merged = red + g[k].redFlags
    <3>1. merged = red + g[k].redFlags
      BY <2>8
    <3>2. red + g[k].redFlags \in Nat
      BY <2>3, <2>7, RedFlagSums
    <3> QED
      BY <3>1, <3>2
  <2> HIDE DEF merged
  <2>10. state'[k] \in StateSpace
    BY <1>1, <2>3, <2>4, <2>9 DEF StateSpace
  <2>11. /\ state'[k].facts = state[k].facts
         /\ state'[k].discrepancies = state[k].discrepancies
         /\ state'[k].sentiment = g[k].sentiment /\ state'[k].redFlags = merged
    BY <1>1, <2>4 DEF StateSpace
  <2>12. Felt(k)' = g[k]
    BY <2>2, BatchAssumption DEF Felt
  <2>13. Compared(k)'
    BY <1>1, <2>1, <2>9, <2>11, <2>12 DEF Compared, IsOpen, red
  <2> QED
    BY <2>10, <2>13
<1>3. CASE ~(k \in Commented /\ g[k] # Failed)
  <2>1. state'[k] = state[k]
    BY <1>3
  <2>2. IsOpen(k)' <=> IsOpen(k)
    BY <1>1 DEF IsOpen
  <2>3. IsForm(k)' <=> IsForm(k)
    BY <1>1 DEF IsForm
  <2>4. CASE IsOpen(k)
    <3>1. feeling'[k] = feeling[k] /\ StatedBy(k)' = StatedBy(k)
      BY <1>1, <2>4 DEF Commented, OfType, IsOpen, StatedBy
    <3>2. ~IsForm(k)
      BY <2>4 DEF IsOpen, IsForm
    <3> QED
      BY <1>1, <2>1, <2>2, <2>3, <2>4, <3>1, <3>2 DEF Compared, ReadDone
  <2>5. CASE IsForm(k)
    <3>1. feeling[k] = None
      BY <2>5 DEF IInv, Progress
    <3>2. feeling'[k] \in {None, Failed}
      BY <1>3, <3>1
    <3>3. Felt(k)' = Felt(k)
      BY <3>1, <3>2 DEF Felt
    <3>4. ~IsOpen(k)
      BY <2>5 DEF IsOpen, IsForm
    <3> QED
      BY <1>1, <2>1, <2>2, <2>3, <2>5, <3>3, <3>4 DEF Compared
  <2>6. CASE ~IsOpen(k) /\ ~IsForm(k)
    BY <1>1, <2>1, <2>2, <2>3, <2>6 DEF Compared
  <2> QED
    BY <2>4, <2>5, <2>6
<1> QED
  BY <1>2, <1>3

LEMMA CommentsStep ==
  ASSUME IInv, Comments
  PROVE  IInv'
<1>1. /\ phase = "comments" /\ phase' = "explain" /\ Keys' = Keys
      /\ UNCHANGED <<shape, input, invalid, facts, result, flags, review, unsummarized>>
  BY DEF Comments, Keys
<1>2. PICK g \in [Commented -> Feelings \cup {Failed}] :
         /\ feeling' = [k \in Keys |-> IF k \in Commented THEN g[k] ELSE feeling[k]]
         /\ state' = [k \in Keys |->
               IF k \in {i \in Commented : g[i] # Failed}
               THEN [state[k] EXCEPT !.sentiment = g[k].sentiment,
                                     !.redFlags = MergedFlags(@, g[k].redFlags)]
               ELSE state[k]]
  BY DEF Comments
<1>3. \A k \in Keys : state'[k] \in StateSpace /\ Compared(k)'
  BY <1>1, <1>2, CommentsSound
<1>4. DOMAIN state' = Keys /\ state' = [k \in Keys |-> state'[k]]
  BY <1>2
<1>5. state' \in [Keys -> StateSpace]
  BY <1>3, <1>4
<1>6. feeling' \in [Keys -> Feelings \cup {None, Failed}]
  BY <1>2 DEF IInv, Types
<1>7. Types'
  BY <1>1, <1>5, <1>6 DEF IInv, Types, Phases
<1>8. \A k \in Keys : Progress(k)'
  BY <1>1, <1>3 DEF Progress, AfterScore, AfterSummarize, AfterOverall
<1> QED
  BY <1>1, <1>7, <1>8 DEF IInv, AfterOverall, CrashHasACause

LEMMA ExplainStep ==
  ASSUME IInv, Explain
  PROVE  IInv'
<1>1. /\ phase = "explain" /\ phase' = "score" /\ Keys' = Keys /\ Valid' = Valid
      /\ UNCHANGED <<shape, input, invalid, facts, feeling, state, result, flags, review,
                     unsummarized>>
  BY DEF Explain, Keys, Valid
<1>2. Types'
  BY <1>1 DEF IInv, Types, Phases
<1>3. \A k \in Keys : Compared(k)'
  BY <1>1 DEF IInv, Progress, AfterDiff, Compared, ReadDone, IsOpen, IsForm, StatedBy, Felt
<1>4. \A k \in Keys : Progress(k)'
  BY <1>1, <1>3 DEF Progress, AfterScore, AfterSummarize, AfterOverall
<1> QED
  BY <1>1, <1>2, <1>4 DEF IInv, AfterOverall, CrashHasACause

\* Once phase 2 is over, every reference that is processed has its entries.
LEMMA EntryMade ==
  ASSUME Types, NEW k \in Valid, Compared(k)
  PROVE  state[k].sentiment \in Sentiments
<1>1. k \in Keys /\ input[k].type \in {"open_text", "yes_no"}
  BY InputTypes DEF Valid
<1>2. CASE IsOpen(k)
  BY <1>2, BatchAssumption DEF Compared
<1>3. CASE IsForm(k)
  <2>1. feeling[k] \in Feelings \/ Felt(k) = [sentiment |-> "neutral", redFlags |-> 0]
    BY <1>1 DEF Types, Felt
  <2>2. feeling[k] \in Feelings => Felt(k) = feeling[k]
    BY BatchAssumption DEF Felt
  <2>3. Felt(k).sentiment \in Sentiments
    BY <2>1, <2>2, BatchAssumption DEF Sentiments
  <2> QED
    BY <1>3, <2>3 DEF Compared
<1> QED
  BY <1>1, <1>2, <1>3 DEF IsOpen, IsForm

\* What phase 5 makes of one reference.
LEMMA ScoreSound ==
  ASSUME IInv, ScoreAll, NEW k \in Keys
  PROVE  state'[k] \in StateSpace /\ Compared(k)' /\ Scored(k)'
<1>1. /\ phase = "score" /\ Keys' = Keys /\ Valid' = Valid
      /\ UNCHANGED <<shape, input, invalid, facts, feeling, result, flags, review,
                     unsummarized>>
  BY DEF ScoreAll, Keys, Valid
<1>2. state[k] \in StateSpace /\ Compared(k)
  BY <1>1 DEF IInv, Types, Progress, AfterDiff
<1> DEFINE x == state[k]
           score == Score(x.discrepancies, x.redFlags, x.sentiment)
           verdict == NeedsReview(x.discrepancies, x.redFlags, x.sentiment)
<1>3. ASSUME k \in Valid
      PROVE  score \in 0..100 /\ verdict \in BOOLEAN
  <2>1. x.discrepancies \in Discrepancies /\ x.redFlags \in Nat /\ x.sentiment \in Sentiments
    BY <1>2, <1>3, EntryMade DEF StateSpace, IInv
  <2>2. score \in 0..100
    BY <2>1, ScoreIsPercentage
  <2>3. verdict \in BOOLEAN
    BY DEF NeedsReview
  <2> QED
    BY <2>2, <2>3
<1>4. CASE k \in Valid
  <2>1. state'[k] = [state[k] EXCEPT !.score = score, !.review = verdict]
    BY <1>4 DEF ScoreAll
  <2> HIDE DEF score, verdict
  <2>2. state'[k] \in StateSpace
    BY <1>2, <1>3, <1>4, <2>1 DEF StateSpace
  <2>3. /\ state'[k].facts = x.facts /\ state'[k].discrepancies = x.discrepancies
        /\ state'[k].sentiment = x.sentiment /\ state'[k].redFlags = x.redFlags
        /\ state'[k].score = score /\ state'[k].review = verdict
    BY <1>2, <2>1 DEF StateSpace
  <2>4. Compared(k)'
    BY <1>1, <1>2, <2>3 DEF Compared, ReadDone, IsOpen, IsForm, StatedBy, Felt
  <2>5. Scored(k)'
    BY <2>3 DEF Scored, score, verdict
  <2> QED
    BY <2>2, <2>4, <2>5
<1>5. CASE k \notin Valid
  <2>1. state'[k] = state[k]
    BY <1>5 DEF ScoreAll
  <2> QED
    BY <1>1, <1>2, <1>5, <2>1 DEF Compared, Scored, IsOpen, IsForm
<1> QED
  BY <1>4, <1>5

LEMMA ScoreStep ==
  ASSUME IInv, ScoreAll
  PROVE  IInv'
<1>1. /\ phase = "score" /\ phase' = "summarize" /\ Keys' = Keys
      /\ UNCHANGED <<shape, input, invalid, facts, feeling, result, flags, review,
                     unsummarized>>
  BY DEF ScoreAll, Keys
<1>2. DOMAIN state' = Keys /\ state' = [k \in Keys |-> state'[k]]
  BY DEF ScoreAll
<1>3. state' \in [Keys -> StateSpace]
  BY <1>2, ScoreSound
<1>4. Types'
  BY <1>1, <1>3 DEF IInv, Types, Phases
<1>5. \A k \in Keys : Progress(k)'
  BY <1>1, ScoreSound DEF Progress, AfterSummarize, AfterOverall
<1> QED
  BY <1>1, <1>4, <1>5 DEF IInv, AfterOverall, CrashHasACause

\* The part of a reference's progress that phases 6 to 8 keep.
LEMMA ComparedKept ==
  ASSUME NEW k, Compared(k), Scored(k),
         UNCHANGED <<shape, input, invalid, facts, feeling, state>>
  PROVE  Compared(k)' /\ Scored(k)'
<1>1. Valid' = Valid
  BY DEF Valid, Keys
<1> QED
  BY <1>1 DEF Compared, Scored, ReadDone, IsOpen, IsForm, StatedBy, Felt

LEMMA SummarizeStep ==
  ASSUME IInv, Summarize
  PROVE  IInv'
<1>1. /\ phase = "summarize" /\ phase' = "overall" /\ Keys' = Keys
      /\ UNCHANGED <<shape, input, invalid, facts, feeling, state, flags, review>>
  BY DEF Summarize, Keys
<1>2. PICK missing \in SUBSET Valid :
         /\ unsummarized' = missing
         /\ result' = [k \in Keys |-> IF k \in invalid THEN Unprocessed(k)
                                      ELSE Assembled(k, missing)]
  BY DEF Summarize
<1>3. unsummarized' \subseteq Keys \cup Candidates
  BY <1>2 DEF Valid
<1>4. ASSUME NEW k \in Keys PROVE result'[k].name = k
  BY <1>2 DEF Unprocessed, Assembled
<1>5. Types'
  BY <1>1, <1>2, <1>3, <1>4 DEF IInv, Types, Phases
<1>6. ASSUME NEW k \in Keys PROVE Progress(k)'
  <2>1. Compared(k) /\ Scored(k)
    BY <1>1 DEF IInv, Progress, AfterDiff, AfterScore
  <2>2. Compared(k)' /\ Scored(k)'
    BY <1>1, <2>1, ComparedKept
  <2>3. Assembled(k, unsummarized)' = Assembled(k, missing)
    BY <1>1, <1>2 DEF Assembled
  <2>4. Unprocessed(k)' = Unprocessed(k)
    BY DEF Unprocessed, NoFacts
  <2>5. Reported(k)'
    BY <1>1, <1>2, <2>3, <2>4 DEF Reported
  <2> QED
    BY <1>1, <2>2, <2>5 DEF Progress
<1> QED
  BY <1>1, <1>5, <1>6 DEF IInv, AfterOverall, CrashHasACause

LEMMA OverallStep ==
  ASSUME IInv, Overall
  PROVE  IInv'
<1>1. /\ phase = "overall" /\ phase' = "conclude" /\ Keys' = Keys
      /\ UNCHANGED <<shape, input, invalid, facts, feeling, state, result, unsummarized>>
  BY DEF Overall, Keys
<1>2. /\ flags' = [c \in Candidates |-> CrossFlags(ResultsOf(c))]
      /\ review' = [c \in Candidates |-> OverallNeedsReview(ResultsOf(c), flags'[c])]
  BY DEF Overall
<1>3. flags' \in [Candidates -> Discrepancies]
  BY <1>2, CrossTyped
<1>4. \A c \in Candidates : OverallNeedsReview(ResultsOf(c), flags'[c]) \in BOOLEAN
  BY DEF OverallNeedsReview
<1>5. review' \in [Candidates -> BOOLEAN]
  BY <1>2, <1>4
<1>6. Types'
  BY <1>1, <1>3, <1>5 DEF IInv, Types, Phases
<1>7. ASSUME NEW k \in Keys PROVE Progress(k)'
  <2>1. Compared(k) /\ Scored(k) /\ Reported(k)
    BY <1>1 DEF IInv, Progress, AfterDiff, AfterScore, AfterSummarize
  <2>2. Compared(k)' /\ Scored(k)'
    BY <1>1, <2>1, ComparedKept
  <2>3. Reported(k)'
    BY <1>1, <2>1 DEF Reported, Assembled
  <2> QED
    BY <1>1, <2>2, <2>3 DEF Progress
<1>8. ASSUME NEW c \in Candidates PROVE Judged(c)'
  <2>1. ResultsOf(c)' = ResultsOf(c)
    BY <1>1 DEF ResultsOf
  <2> QED
    BY <1>1, <1>2, <2>1 DEF Judged
<1> QED
  BY <1>1, <1>6, <1>7, <1>8 DEF IInv, CrashHasACause

\* A summary of a candidate that failed is not one of a reference.
LEMMA ConcludeStep ==
  ASSUME IInv, Conclude
  PROVE  IInv'
<1>1. /\ phase = "conclude" /\ phase' = "done" /\ Keys' = Keys
      /\ UNCHANGED <<shape, input, invalid, facts, feeling, state, result, flags, review>>
  BY DEF Conclude, Keys
<1>2. PICK missing \in SUBSET Candidates : unsummarized' = unsummarized \cup missing
  BY DEF Conclude
<1>3. Types'
  BY <1>1, <1>2 DEF IInv, Types, Phases
<1>4. ASSUME NEW k \in Keys PROVE Progress(k)'
  <2>1. Compared(k) /\ Scored(k) /\ Reported(k)
    BY <1>1 DEF IInv, Progress, AfterDiff, AfterScore, AfterSummarize, AfterOverall
  <2>2. Compared(k)' /\ Scored(k)'
    BY <1>1, <2>1, ComparedKept
  <2>3. k \notin missing
    BY <1>2, KeyPairs DEF IInv
  <2>4. (k \in unsummarized') <=> (k \in unsummarized)
    BY <1>2, <2>3
  <2>5. Reported(k)'
    BY <1>1, <2>1, <2>4 DEF Reported, Assembled
  <2> QED
    BY <1>1, <2>2, <2>5 DEF Progress
<1>5. ASSUME NEW c \in Candidates PROVE Judged(c)'
  <2>1. ResultsOf(c)' = ResultsOf(c)
    BY <1>1 DEF ResultsOf
  <2> QED
    BY <1>1, <2>1 DEF IInv, AfterOverall, Judged
<1> QED
  BY <1>1, <1>3, <1>4, <1>5 DEF IInv, CrashHasACause

\* A pipeline that ends early leaves everything as it is.
LEMMA GivenUp ==
  ASSUME IInv, phase # "validate", phase' \in {"aborted", "crashed"},
         phase' = "crashed" => \/ \E k \in OfType("open_text") : feeling[k] = Failed
                               \/ \E c \in Candidates : shape[c] = 0,
         UNCHANGED <<shape, input, invalid, facts, feeling, state, result, flags, review,
                     unsummarized>>
  PROVE  IInv'
<1>1. Keys' = Keys /\ OfType("open_text")' = OfType("open_text")
  BY DEF Keys, Valid, OfType
<1>2. Types'
  BY <1>1 DEF IInv, Types, Phases
<1>3. \A k \in Keys : Progress(k)'
  BY DEF Progress, AfterDiff, AfterScore, AfterSummarize, AfterOverall
<1>4. phase' # "validate" => invalid' = {k \in Keys' : ~InputValid(input'[k])}
  BY <1>1 DEF IInv
<1> QED
  BY <1>1, <1>2, <1>3, <1>4 DEF IInv, AfterOverall, CrashHasACause

\* What a phase can raise on.  Everything it looks up is there: only a failed
\* sentiment item and a candidate without references are left.
LEMMA RaisingCause ==
  ASSUME IInv, RaisesOn # {}
  PROVE  /\ phase # "validate"
         /\ \/ \E k \in OfType("open_text") : feeling[k] = Failed
            \/ \E c \in Candidates : shape[c] = 0
<1> USE DEF IInv
<1>1. phase \in {"diff", "comments", "explain", "score", "summarize", "overall"}
  BY DEF RaisesOn
<1>2. CASE phase = "diff"
  <2>1. ASSUME NEW k \in OfType("yes_no")
        PROVE  input[k].form # None
    <3>1. k \in Keys /\ InputValid(input[k]) /\ input[k].type = "yes_no"
      BY <1>2 DEF OfType, Valid
    <3> QED
      BY <3>1 DEF InputValid, ShapeValid
  <2>2. PICK k \in OfType("open_text") : facts[k] = None \/ feeling[k] \in {None, Failed}
    BY <1>2, <2>1 DEF RaisesOn
  <2>3. ReadDone(k)
    BY <1>2 DEF Progress, IsOpen, OfType, Valid
  <2>4. feeling[k] = Failed
    BY <2>2, <2>3, BatchAssumption DEF ReadDone
  <2> QED
    BY <1>2, <2>4
<1>3. \A k \in Valid : phase \in AfterDiff => state[k].sentiment # None
  <2> SUFFICES ASSUME NEW k \in Valid, phase \in AfterDiff
               PROVE  state[k].sentiment # None
    OBVIOUS
  <2>1. Compared(k)
    BY DEF Progress, Valid
  <2> QED
    BY <2>1, EntryMade, BatchAssumption
<1>4. CASE phase \in {"comments", "explain", "score"}
  <2>1. Commented \subseteq Valid /\ OfType("open_text") \subseteq Valid
    BY DEF Commented, OfType
  <2> QED
    BY <1>3, <1>4, <2>1 DEF RaisesOn, AfterDiff
<1>5. CASE phase = "summarize"
  <2>1. PICK k \in Valid : state[k].score = None
    BY <1>5 DEF RaisesOn
  <2>2. Compared(k) /\ Scored(k) /\ k \in Keys
    BY <1>5 DEF Progress, AfterDiff, AfterScore, Valid
  <2>3. state[k].sentiment \in Sentiments
    BY <2>2, EntryMade
  <2>4. state[k].discrepancies \in Discrepancies /\ state[k].redFlags \in Nat
    BY <2>2 DEF Types, StateSpace
  <2>5. state[k].score \in 0..100
    BY <2>2, <2>3, <2>4, ScoreIsPercentage DEF Scored
  <2> QED
    BY <2>1, <2>5, UnparsableAssumption
<1>6. CASE phase = "overall"
  <2>1. PICK c \in Candidates : ResultsOf(c) = <<>>
    BY <1>6 DEF RaisesOn
  <2>2. shape[c] \in Nat /\ DOMAIN ResultsOf(c) = 1..shape[c]
    BY BatchAssumption DEF Types, ResultsOf
  <2>3. 1 \notin 1..shape[c]
    BY <2>1, <2>2
  <2> QED
    BY <1>6, <2>2, <2>3
<1> QED
  BY <1>1, <1>2, <1>4, <1>5, <1>6

LEMMA StepIInv ==
  ASSUME IInv, [Next]_vars
  PROVE  IInv'
<1>1. CASE Validate
  BY <1>1, ValidateStep
<1>2. CASE Read
  BY <1>2, ReadStep
<1>3. CASE Diff
  BY <1>3, DiffStep
<1>4. CASE Crash
  BY <1>4, RaisingCause, GivenUp DEF Crash
<1>5. CASE Comments
  BY <1>5, CommentsStep
<1>6. CASE Explain
  BY <1>6, ExplainStep
<1>7. CASE ScoreAll
  BY <1>7, ScoreStep
<1>8. CASE Summarize
  BY <1>8, SummarizeStep
<1>9. CASE Overall
  BY <1>9, OverallStep
<1>10. CASE Conclude
  BY <1>10, ConcludeStep
<1>11. CASE Abort
  <2>1. phase # "validate"
    BY <1>11 DEF Abort, Asked
  <2> QED
    BY <1>11, <2>1, GivenUp DEF Abort
<1>12. CASE Ended \/ UNCHANGED vars
  <2>1. UNCHANGED vars
    BY <1>12 DEF Ended
  <2>2. Keys' = Keys /\ Valid' = Valid
    BY <2>1 DEF vars, Keys, Valid
  <2>3. Types'
    BY <2>1, <2>2 DEF vars, IInv, Types
  <2>4. \A k \in Keys : Compared(k)' = Compared(k) /\ Scored(k)' = Scored(k)
    BY <2>1, <2>2 DEF vars, Compared, Scored, ReadDone, IsOpen, IsForm, StatedBy, Felt
  <2>5. \A k \in Keys : Progress(k)'
    BY <2>1, <2>2, <2>4 DEF vars, IInv, Progress, ReadDone, IsOpen, IsForm, Reported, Assembled
  <2>6. \A c \in Candidates : Judged(c)' = Judged(c)
    BY <2>1 DEF vars, Judged, ResultsOf
  <2> QED
    <3>1. OfType("open_text")' = OfType("open_text")
      BY <2>1, <2>2 DEF vars, OfType
    <3>2. CrashHasACause'
      BY <2>1, <3>1 DEF vars, IInv, CrashHasACause
    <3> QED
      BY <2>1, <2>2, <2>3, <2>5, <2>6, <3>2 DEF vars, IInv
<1> QED
  BY <1>1, <1>2, <1>3, <1>4, <1>5, <1>6, <1>7, <1>8, <1>9, <1>10, <1>11, <1>12
     DEF Next

\* The inductive invariant.
LEMMA Invariance == Spec => []IInv
  BY InitIInv, StepIInv, PTL DEF Spec

-----------------------------------------------------------------------------
(* Theorems *)

\* The dictionaries of the phases keep their types, whatever the items answer;
\* scores stay percentages and results go to the reference they are about.
THEOREM Typing == Spec => []TypeOK
<1>1. IInv => TypeOK
  <2> SUFFICES ASSUME Types PROVE TypeOK
    BY DEF IInv
  <2>1. ASSUME NEW k \in Keys
        PROVE  /\ state[k].discrepancies \in Discrepancies
               /\ state[k].sentiment \in Sentiments \cup {None}
               /\ state[k].redFlags \in Nat
               /\ state[k].score \in (0..100) \cup {None}
               /\ state[k].review \in BOOLEAN
    BY DEF Types, StateSpace
  <2> QED
    BY <2>1 DEF Types, TypeOK
<1> QED
  BY <1>1, Invariance, PTL

\* The web validation and the batch validation let the same inputs through.
LEMMA SameValidation ==
  ASSUME NEW i, i.type \in {"open_text", "yes_no"}
  PROVE  Processable(i) <=> InputValid(i)
  BY DEF Processable, InputValid, ShapeValid, RawInputValid

\* The assembled result is the one of the real-time graph for the same state,
\* but for the verdict if the summary is missing.
LEMMA AssembledIsResult ==
  ASSUME NEW k, NEW missing, k \in Valid, Scored(k),
         NEW R, R = Result(k, state[k].facts, state[k].discrepancies, state[k].sentiment,
                           state[k].redFlags)
  PROVE  Assembled(k, missing) = [R EXCEPT !.review = R.review \/ k \in missing]
<1> DEFINE s == state[k]
           score == Score(s.discrepancies, s.redFlags, s.sentiment)
           verdict == NeedsReview(s.discrepancies, s.redFlags, s.sentiment)
<1>1. s.score = score /\ s.review = verdict
  BY DEF Scored
<1>2. R = [name |-> k, facts |-> s.facts, discrepancies |-> s.discrepancies,
           sentiment |-> s.sentiment, redFlags |-> s.redFlags, score |-> score,
           review |-> verdict]
  BY DEF Result
<1>3. Assembled(k, missing) =
        [name |-> k, facts |-> s.facts, discrepancies |-> s.discrepancies,
         sentiment |-> s.sentiment, redFlags |-> s.redFlags, score |-> score,
         review |-> verdict \/ k \in missing]
  BY <1>1 DEF Assembled
<1> HIDE DEF score, verdict
<1> QED
  BY <1>2, <1>3

\* A reference whose own items succeeded gets the expected result.
LEMMA OwnResult ==
  ASSUME IInv, phase = "done", NEW k \in Keys, ~Unread(k)
  PROVE  result[k] = Expected(k)
<1> DEFINE i == input[k]
           felt == IF feeling[k] = None THEN [sentiment |-> "neutral", redFlags |-> 0]
                   ELSE feeling[k]
           whole ==
             IF ~Processable(i) THEN Unprocessed(k)
             ELSE IF i.type = "open_text"
             THEN Result(k, facts[k], DiffFacts(Claimed[k[1]], facts[k]),
                         felt.sentiment, felt.redFlags)
             ELSE Result(k, NoFacts, FormDiscrepancies(i.form), felt.sentiment,
                         FormRedFlags(i.form) + felt.redFlags)
<1>1. Expected(k) = [whole EXCEPT !.review = whole.review \/ k \in unsummarized]
  BY DEF Expected
<1>2. i.type \in {"open_text", "yes_no"}
  BY InputTypes DEF IInv
<1>3. k \in invalid <=> ~Processable(i)
  BY <1>2, SameValidation DEF IInv
<1>4. Compared(k) /\ Scored(k) /\ Reported(k)
  BY DEF IInv, Progress, AfterDiff, AfterScore, AfterSummarize, AfterOverall
<1>5. facts[k] # Failed /\ feeling[k] # Failed
  BY DEF Unread
<1>6. CASE ~Processable(i)
  <2>1. whole = Unprocessed(k) /\ result[k] = Unprocessed(k)
    BY <1>3, <1>4, <1>6 DEF Reported
  <2> HIDE DEF whole
  <2>2. (whole.review \/ k \in unsummarized) = TRUE
    BY <2>1 DEF Unprocessed
  <2>3. [whole EXCEPT !.review = TRUE] = whole
    <3>1. whole \in [{"name", "facts", "discrepancies", "sentiment", "redFlags", "score",
                     "review"} -> {whole[f] : f \in DOMAIN whole}]
      BY <2>1 DEF Unprocessed
    <3>2. whole.review = TRUE
      BY <2>1 DEF Unprocessed
    <3> QED
      BY <3>1, <3>2
  <2> QED
    BY <1>1, <2>1, <2>2, <2>3
<1>7. CASE Processable(i)
  <2>1. k \in Valid /\ result[k] = Assembled(k, unsummarized)
    BY <1>3, <1>4, <1>7 DEF Reported, Valid
  <2>2. whole = Result(k, state[k].facts, state[k].discrepancies,
                       state[k].sentiment, state[k].redFlags)
    <3>1. CASE i.type = "open_text"
      <4>1. /\ feeling[k] \in Feelings
            /\ state[k].facts = StatedBy(k)
            /\ state[k].discrepancies = DiffFacts(Claimed[k[1]], StatedBy(k))
            /\ state[k].sentiment = feeling[k].sentiment
            /\ state[k].redFlags = feeling[k].redFlags
        BY <1>4, <2>1, <3>1 DEF Compared, IsOpen
      <4>2. StatedBy(k) = facts[k] /\ felt = feeling[k]
        BY <1>5, <4>1, BatchAssumption DEF StatedBy
      <4> HIDE DEF felt
      <4> QED
        BY <1>7, <3>1, <4>1, <4>2
    <3>2. CASE i.type = "yes_no"
      <4>1. /\ state[k].facts = NoFacts
            /\ state[k].discrepancies = FormDiscrepancies(i.form)
            /\ state[k].sentiment = Felt(k).sentiment
            /\ state[k].redFlags = FormRedFlags(i.form) + Felt(k).redFlags
        BY <1>4, <2>1, <3>2 DEF Compared, IsForm
      <4>2. felt = Felt(k)
        BY <1>5 DEF Felt
      <4> HIDE DEF felt
      <4> QED
        BY <1>7, <3>2, <4>1, <4>2
    <3> QED
      BY <1>2, <3>1, <3>2
  <2> HIDE DEF whole
  <2>3. Assembled(k, unsummarized)
          = [whole EXCEPT !.review = whole.review \/ k \in unsummarized]
    BY <1>4, <2>1, <2>2, AssembledIsResult
  <2> QED
    BY <1>1, <2>1, <2>3
<1> QED
  BY <1>6, <1>7

\* Batch and real time agree: a reference whose own items succeeded gets the
\* result the real-time graph computes from the same answers, whatever happened
\* to the other references of the batch, and the candidate the verdict that
\* follows from such results.
THEOREM RealTimeEquivalence == Spec => []MatchesRealTime
<1>1. IInv => MatchesRealTime
  <2> SUFFICES ASSUME IInv, phase = "done", NEW c \in Candidates
               PROVE
        LET own == [r \in 1..shape[c] |-> IF Unread(<<c, r>>) THEN result[<<c, r>>]
                                          ELSE Expected(<<c, r>>)] IN
        /\ \A r \in 1..shape[c] : result[<<c, r>>] = own[r]
        /\ review[c] <=> OverallNeedsReview(own, CrossFlags(own))
    BY DEF MatchesRealTime
  <2> DEFINE own == [r \in 1..shape[c] |-> IF Unread(<<c, r>>) THEN result[<<c, r>>]
                                           ELSE Expected(<<c, r>>)]
  <2>1. \A r \in 1..shape[c] : result[<<c, r>>] = own[r]
    BY KeyPairs, OwnResult DEF IInv
  <2>2. own = ResultsOf(c)
    BY <2>1 DEF ResultsOf
  <2>3. review[c] <=> OverallNeedsReview(ResultsOf(c), CrossFlags(ResultsOf(c)))
    BY DEF IInv, Types, AfterOverall, Judged
  <2> HIDE DEF own
  <2>4. review[c] <=> OverallNeedsReview(own, CrossFlags(own))
    BY <2>2, <2>3
  <2> QED
    BY <2>1, <2>4 DEF own
<1> QED
  BY <1>1, Invariance, PTL

\* What the pipeline notices reaches the verdict on the candidate.
THEOREM FailuresFlagged == Spec => []NoticedFailuresFlagged
<1>1. IInv => NoticedFailuresFlagged
  <2> SUFFICES ASSUME IInv, phase = "done", NEW k \in Keys
               PROVE  /\ k \in invalid \cup unsummarized => result[k].review
                      /\ result[k].review => review[k[1]]
                      /\ result[k].redFlags > 0 => result[k].review
    BY DEF NoticedFailuresFlagged
  <2>1. Scored(k) /\ Reported(k)
    BY DEF IInv, Progress, AfterScore, AfterSummarize, AfterOverall
  <2>2. ASSUME k \in invalid
        PROVE  result[k].review
    BY <2>1, <2>2 DEF Reported, Unprocessed
  <2>3. ASSUME k \notin invalid
        PROVE  /\ k \in unsummarized => result[k].review
               /\ result[k].redFlags > 0 => result[k].review
    <3>1. /\ result[k].review = (state[k].review \/ k \in unsummarized)
          /\ result[k].redFlags = state[k].redFlags
      BY <2>1, <2>3 DEF Reported, Assembled
    <3>2. state[k].redFlags > 0 => state[k].review
      BY <2>1, <2>3 DEF Scored, Valid, NeedsReview
    <3> QED
      BY <2>3, <3>1, <3>2
  <2>4. result[k].review => review[k[1]]
    <3> DEFINE c == k[1]
               results == ResultsOf(c)
    <3>1. c \in Candidates /\ k[2] \in 1..shape[c] /\ k = <<c, k[2]>>
      BY KeyPairs DEF IInv
    <3>2. review[c] = OverallNeedsReview(results, flags[c])
      BY <3>1 DEF IInv, AfterOverall, Judged
    <3>3. k[2] \in DOMAIN results /\ results[k[2]] = result[k]
      BY <3>1 DEF ResultsOf
    <3> HIDE DEF c, results
    <3>4. result[k].review => OverallNeedsReview(results, flags[c])
      BY <3>3 DEF OverallNeedsReview
    <3> QED
      BY <3>2, <3>4 DEF c
  <2> QED
    BY <2>2, <2>3, <2>4
<1> QED
  BY <1>1, Invariance, PTL

\* No phase looks up what is not there, and no missing form is evaluated: the
\* code of the pipeline raises for the two causes that are listed and no other.
THEOREM CrashCause == Spec => []CrashHasACause
<1>1. IInv => CrashHasACause
  BY DEF IInv
<1> QED
  BY <1>1, Invariance, PTL

-----------------------------------------------------------------------------
(* Candidates cleared in a batch *)

\* A candidate the pipeline clears has references that passed the validation and
\* were summarised, reached the threshold without a red flag or a major
\* discrepancy, and agree on title and company.  That their extract items
\* succeeded does not follow, see FailedReadingFlagged.
ClearedIsCleanBut ==
    phase = "done" =>
        \A c \in Candidates : ~review[c] =>
            /\ \A r \in 1..shape[c] :
                 LET k == <<c, r>> IN
                 /\ InputValid(input[k]) /\ k \notin unsummarized
                 /\ result[k].score >= ReviewThreshold /\ result[k].redFlags = 0
                 /\ \A d \in result[k].discrepancies : d.severity # "major"
            /\ \A q, r \in 1..shape[c] : \A field \in {"job_title", "company"} :
                 \/ result[<<c, q>>].facts[field] = result[<<c, r>>].facts[field]
                 \/ None \in {result[<<c, q>>].facts[field], result[<<c, r>>].facts[field]}

LEMMA ClearedReference ==
  ASSUME IInv, phase = "done", NEW k \in Keys, ~result[k].review
  PROVE  /\ InputValid(input[k]) /\ k \notin unsummarized
         /\ result[k].score >= ReviewThreshold /\ result[k].redFlags = 0
         /\ \A d \in result[k].discrepancies : d.severity # "major"
<1> DEFINE s == state[k]
<1>1. Scored(k) /\ Reported(k)
  BY DEF IInv, Progress, AfterScore, AfterSummarize, AfterOverall
<1>2. k \notin invalid
  BY <1>1 DEF Reported, Unprocessed
<1>3. result[k] = Assembled(k, unsummarized) /\ InputValid(input[k])
  BY <1>1, <1>2 DEF Reported, IInv
<1>4. /\ result[k].score = s.score /\ result[k].redFlags = s.redFlags
      /\ result[k].discrepancies = s.discrepancies
      /\ result[k].review = (s.review \/ k \in unsummarized)
  BY <1>3 DEF Assembled
<1>5. /\ s.discrepancies \in Discrepancies /\ s.redFlags \in Nat
      /\ s.sentiment \in Sentiments
  <2>1. Compared(k) /\ k \in Valid
    BY <1>2 DEF IInv, Progress, AfterDiff, AfterScore, AfterSummarize, AfterOverall, Valid
  <2> QED
    BY <2>1, EntryMade DEF IInv, Types, StateSpace
<1>6. /\ s.score = Score(s.discrepancies, s.redFlags, s.sentiment)
      /\ s.review = NeedsReview(s.discrepancies, s.redFlags, s.sentiment)
  BY <1>1, <1>2 DEF Scored, Valid
<1> HIDE DEF s
<1>7. ~NeedsReview(s.discrepancies, s.redFlags, s.sentiment)
  BY <1>4, <1>6
<1>8. /\ Score(s.discrepancies, s.redFlags, s.sentiment) >= ReviewThreshold
      /\ s.redFlags = 0
      /\ \A d \in s.discrepancies : d.severity # "major"
  BY <1>5, <1>7, ClearedIsClean
<1> QED
  BY <1>3, <1>4, <1>6, <1>8

\* Nothing the pipeline noticed about a candidate it clears speaks against it.
THEOREM ClearedMeansClean == Spec => []ClearedIsCleanBut
<1>1. IInv => ClearedIsCleanBut
  <2> SUFFICES ASSUME IInv, phase = "done", NEW c \in Candidates, ~review[c]
               PROVE
        /\ \A r \in 1..shape[c] :
             /\ InputValid(input[<<c, r>>]) /\ <<c, r>> \notin unsummarized
             /\ result[<<c, r>>].score >= ReviewThreshold
             /\ result[<<c, r>>].redFlags = 0
             /\ \A d \in result[<<c, r>>].discrepancies : d.severity # "major"
        /\ \A q, r \in 1..shape[c] : \A field \in {"job_title", "company"} :
             \/ result[<<c, q>>].facts[field] = result[<<c, r>>].facts[field]
             \/ None \in {result[<<c, q>>].facts[field], result[<<c, r>>].facts[field]}
    BY DEF ClearedIsCleanBut
  <2> DEFINE results == ResultsOf(c)
  <2>1. /\ flags[c] = CrossFlags(results)
        /\ review[c] = OverallNeedsReview(results, flags[c])
    BY DEF IInv, AfterOverall, Judged
  <2>2. /\ shape[c] \in Nat /\ DOMAIN results = 1..shape[c]
        /\ \A r \in 1..shape[c] : results[r] = result[<<c, r>>] /\ <<c, r>> \in Keys
    BY BatchAssumption, KeyPairs DEF IInv, Types, ResultsOf
  <2> HIDE DEF results
  <2>3. CrossFlags(results) = {} /\ \A r \in DOMAIN results : ~results[r].review
    BY <2>1, ReviewSpreads
  <2>4. \A r \in 1..shape[c] :
           /\ InputValid(input[<<c, r>>]) /\ <<c, r>> \notin unsummarized
           /\ result[<<c, r>>].score >= ReviewThreshold
           /\ result[<<c, r>>].redFlags = 0
           /\ \A d \in result[<<c, r>>].discrepancies : d.severity # "major"
    BY <2>2, <2>3, ClearedReference
  <2>5. ASSUME NEW q \in 1..shape[c], NEW r \in 1..shape[c],
               NEW field \in {"job_title", "company"}
        PROVE  \/ results[q].facts[field] = results[r].facts[field]
               \/ None \in {results[q].facts[field], results[r].facts[field]}
    BY <2>2, <2>3, UnflaggedAgree
  <2> QED
    BY <2>2, <2>4, <2>5
<1> QED
  BY <1>1, Invariance, PTL
=============================================================================
