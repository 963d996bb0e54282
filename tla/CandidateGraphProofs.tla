------------------------ MODULE CandidateGraphProofs ------------------------
(***************************************************************************)
(* Theorems about CandidateGraph, for any number of references, inputs,    *)
(* model answers and limits on concurrency.                                *)
(***************************************************************************)
EXTENDS CandidateGraph, ScoringProofs

FactsSpace == FactsRead \cup {NoFacts}

StateSpace ==
    [facts : FactsSpace, discrepancies : Discrepancies, sentiment : Sentiments,
     redFlags : Nat, score : 0..100, review : BOOLEAN]

ResultSpace ==
    [name : {None} \cup {NameOf[r] : r \in Refs}, facts : FactsSpace,
     discrepancies : Discrepancies, sentiment : Sentiments \cup {"unclear"},
     redFlags : Nat, score : 0..100, review : BOOLEAN]

Types ==
    /\ limit \in ConcurrencyLimits
    /\ input \in [Refs -> Inputs]
    /\ pc \in [Refs -> Steps]
    /\ call \in [Refs -> [Calls -> {"todo", "calling", "ok", "raised"}]]
    /\ state \in [Refs -> StateSpace]
    /\ result \in [Refs -> ResultSpace]
    /\ stage \in {"fan_out", "score_overall", "summarize", "completed", "raised"}
    /\ flags \in Discrepancies
    /\ review \in BOOLEAN

\* The discrepancies and red flags of r come from all the answers that were
\* asked for.
Gathered(r) ==
    /\ input[r].type = "open_text" =>
          /\ state[r].discrepancies = DiffFacts(Claimed, state[r].facts)
          /\ \A k \in Calls : call[r][k] = "ok"
    /\ input[r].type = "yes_no" =>
          /\ state[r].discrepancies = FormDiscrepancies(input[r].form)
          /\ state[r].redFlags >= FormRedFlags(input[r].form)

Judged(r) ==
    Result(NameOf[r], state[r].facts, state[r].discrepancies, state[r].sentiment,
           state[r].redFlags)

Scored(r) ==
    /\ state[r].score = Score(state[r].discrepancies, state[r].redFlags, state[r].sentiment)
    /\ state[r].review = NeedsReview(state[r].discrepancies, state[r].redFlags,
                                     state[r].sentiment)

\* What the superstep of r says of its input, its calls, its state and its result.
Progress(r) ==
    /\ pc[r] # "done" => result[r] = NoResult
    /\ pc[r] \notin {"waiting", "done"} => Processable(input[r])
    /\ pc[r] \in {"reading", "explain"} => input[r].type = "open_text"
    /\ pc[r] = "comments" => input[r].type = "yes_no"
    /\ pc[r] \in {"explain", "comments", "score", "summarize"} => Gathered(r)
    /\ pc[r] = "summarize" => Scored(r)
    /\ pc[r] = "done" => \/ result[r] = Unprocessed(NameOf[r])
                         \/ /\ Processable(input[r])
                            /\ Gathered(r)
                            /\ result[r] = Judged(r)

\* Calls are in flight in the first superstep only, and one that raised has
\* cost the reference its result.
CallsSettled(r) ==
    \A k \in Calls :
       /\ call[r][k] = "calling" => pc[r] = "reading"
       /\ call[r][k] = "raised" =>
             \/ pc[r] = "reading"
             \/ pc[r] = "done" /\ result[r] = Unprocessed(NameOf[r])

\* The overall nodes work on the results of all references.
Overall ==
    /\ stage # "fan_out" => /\ \A r \in Refs : pc[r] = "done"
                            /\ flags = CrossFlags(result)
    /\ stage \notin {"fan_out", "score_overall"} =>
          review = OverallNeedsReview(result, flags)

IInv ==
    /\ Types
    /\ \A r \in Refs : Progress(r) /\ CallsSettled(r)
    /\ Overall

-----------------------------------------------------------------------------
(* The facts of the scoring module the proofs need *)

LEMMA InputTypes ==
  ASSUME Types, NEW r \in Refs
  PROVE  input[r].type \in {"open_text", "yes_no"}
  BY GraphAssumption DEF Types

LEMMA NoStateTyped == NoState \in StateSpace
  BY DEF NoState, StateSpace, FactsSpace, Discrepancies, Sentiments

LEMMA ResultsTyped ==
  ASSUME NEW r \in Refs
  PROVE  NoResult \in ResultSpace /\ Unprocessed(NameOf[r]) \in ResultSpace
<1>1. /\ {} \in Discrepancies
      /\ NoFacts \in FactsSpace
      /\ {"neutral", "unclear"} \subseteq Sentiments \cup {"unclear"}
  BY DEF Discrepancies, FactsSpace, Sentiments
<1> DEFINE names == {None} \cup {NameOf[q] : q \in Refs}
<1>2. None \in names /\ NameOf[r] \in names
  OBVIOUS
<1> HIDE DEF names
<1>3. ResultSpace = [name : names, facts : FactsSpace,
                     discrepancies : Discrepancies, sentiment : Sentiments \cup {"unclear"},
                     redFlags : Nat, score : 0..100, review : BOOLEAN]
  BY DEF ResultSpace, names
<1>4. NoResult \in ResultSpace
  BY <1>1, <1>2, <1>3 DEF NoResult
<1>5. Unprocessed(NameOf[r]) \in ResultSpace
  BY <1>1, <1>2, <1>3 DEF Unprocessed
<1> QED
  BY <1>4, <1>5

\* A reference that has its result is known by it.
LEMMA ResultsDiffer ==
  ASSUME NEW r \in Refs
  PROVE  Unprocessed(NameOf[r]) # NoResult /\ Judged(r) # NoResult
  BY GraphAssumption DEF Unprocessed, NoResult, Judged, Result

\* The placeholder is told by its sentiment, and is left to a human.
LEMMA PlaceholderFields ==
  ASSUME NEW r \in Refs
  PROVE  /\ Unprocessed(NameOf[r]).sentiment = "unclear"
         /\ Unprocessed(NameOf[r]).review = TRUE
         /\ Unprocessed(NameOf[r]).name = NameOf[r]
  BY DEF Unprocessed

LEMMA ScoreTyped ==
  ASSUME NEW s \in StateSpace
  PROVE  /\ Score(s.discrepancies, s.redFlags, s.sentiment) \in 0..100
         /\ NeedsReview(s.discrepancies, s.redFlags, s.sentiment) \in BOOLEAN
<1>1. /\ s.discrepancies \in Discrepancies
      /\ s.redFlags \in Nat
      /\ s.sentiment \in Sentiments
  BY DEF StateSpace
<1>2. Score(s.discrepancies, s.redFlags, s.sentiment) \in 0..100
  BY <1>1, ScoreIsPercentage
<1>3. NeedsReview(s.discrepancies, s.redFlags, s.sentiment) \in BOOLEAN
  BY DEF NeedsReview
<1> QED
  BY <1>2, <1>3

LEMMA InitIInv == Init => IInv
<1> SUFFICES ASSUME Init PROVE IInv
  OBVIOUS
<1>1. Types
  <2>1. state \in [Refs -> StateSpace]
    BY NoStateTyped DEF Init
  <2>2. result \in [Refs -> ResultSpace]
    BY ResultsTyped DEF Init
  <2> QED
    BY <2>1, <2>2 DEF Init, Types, Steps, Discrepancies
<1>2. \A r \in Refs : Progress(r) /\ CallsSettled(r)
  BY DEF Init, Progress, CallsSettled
<1>3. Overall
  BY DEF Init, Overall
<1> QED
  BY <1>1, <1>2, <1>3 DEF IInv

-----------------------------------------------------------------------------
(* One step of one reference *)

\* Only what belongs to r changes.
Local(r) ==
    /\ UNCHANGED <<limit, input, stage, flags, review>>
    /\ \A q \in Refs \ {r} :
          /\ pc'[q] = pc[q] /\ call'[q] = call[q]
          /\ state'[q] = state[q] /\ result'[q] = result[q]

StepSound(r) ==
    /\ stage = "fan_out" /\ pc[r] # "done"
    /\ Local(r)
    /\ Types'
    /\ Progress(r)' /\ CallsSettled(r)'

LEMMA OthersKept ==
  ASSUME IInv, NEW r \in Refs, StepSound(r)
  PROVE  IInv'
<1>1. \A q \in Refs \ {r} : Progress(q)' /\ CallsSettled(q)'
  BY DEF IInv, StepSound, Local, Progress, CallsSettled, Gathered, Judged, Scored
<1>2. Overall'
  BY DEF StepSound, Local, Overall
<1> QED
  BY <1>1, <1>2 DEF IInv, StepSound

\* A reference still at work keeps the candidate graph at its barrier.
LEMMA AtBarrier ==
  ASSUME IInv, NEW r \in Refs, pc[r] # "done"
  PROVE  stage = "fan_out"
  BY DEF IInv, Overall

LEMMA IsolateSound ==
  ASSUME IInv, NEW r \in Refs, pc[r] # "done", Isolate(r),
         \A k \in Calls : call[r][k] # "calling",
         UNCHANGED <<limit, input, call, state, stage, flags, review>>
  PROVE  StepSound(r)
<1>1. stage = "fan_out"
  BY AtBarrier
<1>2. Types'
  BY ResultsTyped DEF IInv, Types, Isolate, Goto, Steps
<1>3. Local(r)
  BY DEF IInv, Types, Isolate, Goto, Local
<1>4. pc'[r] = "done" /\ result'[r] = Unprocessed(NameOf[r])
  BY DEF IInv, Types, Isolate, Goto
<1>5. Progress(r)' /\ CallsSettled(r)'
  BY <1>4 DEF Progress, CallsSettled, Unprocessed
<1> QED
  BY <1>1, <1>2, <1>3, <1>5 DEF StepSound

LEMMA BeginSound ==
  ASSUME IInv, NEW r \in Refs, BeginReference(r)
  PROVE  StepSound(r)
<1>1. /\ stage = "fan_out" /\ pc[r] = "waiting"
      /\ UNCHANGED <<limit, input, call, stage, flags, review>>
      /\ Enter(r)
  BY DEF BeginReference
<1>2. /\ \A k \in Calls : call[r][k] \notin {"calling", "raised"}
      /\ result[r] = NoResult
  BY <1>1 DEF IInv, Progress, CallsSettled
<1>3. CASE /\ input[r].type = "open_text" /\ Processable(input[r])
           /\ Goto(r, "reading")
           /\ UNCHANGED <<state, result>>
  <2>1. pc'[r] = "reading" /\ result'[r] = NoResult /\ input'[r] = input[r]
        /\ call'[r] = call[r]
    BY <1>1, <1>2, <1>3 DEF IInv, Types, Goto
  <2>2. Types'
    BY <1>1, <1>3 DEF IInv, Types, Goto, Steps
  <2>3. Local(r)
    BY <1>1, <1>3 DEF IInv, Types, Goto, Local
  <2>4. Progress(r)' /\ CallsSettled(r)'
    BY <1>2, <1>3, <2>1 DEF Progress, CallsSettled
  <2> QED
    BY <1>1, <2>2, <2>3, <2>4 DEF StepSound
<1>4. ASSUME input[r].type = "yes_no", Processable(input[r]),
             state' = [state EXCEPT
                ![r].discrepancies = FormDiscrepancies(input[r].form),
                ![r].redFlags = FormRedFlags(input[r].form)],
             Goto(r, IF input[r].form.additional_comments THEN "comments" ELSE "score"),
             UNCHANGED result
      PROVE  StepSound(r)
  <2>1. /\ FormDiscrepancies(input[r].form) \in Discrepancies
        /\ FormRedFlags(input[r].form) \in Nat
    BY FormTyped
  <2>2. /\ state' \in [Refs -> StateSpace]
        /\ state'[r].discrepancies = FormDiscrepancies(input[r].form)
        /\ state'[r].redFlags = FormRedFlags(input[r].form)
        /\ \A q \in Refs \ {r} : state'[q] = state[q]
    <3> DEFINE d == FormDiscrepancies(input[r].form)
               f == FormRedFlags(input[r].form)
               s == [state[r] EXCEPT !.discrepancies = d, !.redFlags = f]
    <3>1. state[r] \in StateSpace /\ state \in [Refs -> StateSpace]
      BY DEF IInv, Types
    <3>2. d \in Discrepancies /\ f \in Nat
      BY <2>1
    <3>3. state' = [state EXCEPT ![r] = s]
      BY <1>4, <3>1
    <3> HIDE DEF d, f
    <3>4. s \in StateSpace /\ s.discrepancies = d /\ s.redFlags = f
      BY <3>1, <3>2 DEF StateSpace
    <3> HIDE DEF s
    <3> QED
      BY <3>1, <3>3, <3>4 DEF d, f
  <2>3. /\ pc' \in [Refs -> Steps]
        /\ pc'[r] \in {"comments", "score"}
        /\ \A q \in Refs \ {r} : pc'[q] = pc[q]
    BY <1>4 DEF IInv, Types, Goto, Steps
  <2>4. Types'
    BY <1>1, <1>4, <2>2, <2>3 DEF IInv, Types
  <2>5. Local(r)
    BY <1>1, <1>4, <2>2, <2>3 DEF Local
  <2>6. Gathered(r)'
    BY <1>1, <1>4, <2>1, <2>2 DEF Gathered
  <2>7. Progress(r)' /\ CallsSettled(r)'
    BY <1>1, <1>2, <1>4, <2>3, <2>6 DEF Progress, CallsSettled
  <2> QED
    BY <1>1, <2>4, <2>5, <2>7 DEF StepSound
<1>5. CASE Isolate(r) /\ UNCHANGED state
  BY <1>1, <1>2, <1>5, IsolateSound
<1> QED
  BY <1>1, <1>3, <1>4, <1>5 DEF Enter

\* A step that changes one call of r, and of its state what that call reads.
LEMMA CallSound ==
  ASSUME IInv, NEW r \in Refs, NEW k \in Calls, pc[r] = "reading",
         NEW status \in {"calling", "ok", "raised"}, NEW s \in StateSpace,
         call' = [call EXCEPT ![r][k] = status],
         state' = [state EXCEPT ![r] = s],
         UNCHANGED <<limit, input, pc, result, stage, flags, review>>
  PROVE  StepSound(r)
<1>1. stage = "fan_out"
  BY AtBarrier
<1>2. Types'
  BY DEF IInv, Types
<1>3. Local(r)
  BY DEF IInv, Types, Local
<1>4. pc'[r] = "reading"
  OBVIOUS
<1>5. Progress(r)' /\ CallsSettled(r)'
  BY <1>4 DEF IInv, Progress, CallsSettled
<1> QED
  BY <1>1, <1>2, <1>3, <1>5 DEF StepSound

LEMMA CallingIsReading ==
  ASSUME IInv, NEW r \in Refs, NEW k \in Calls, call[r][k] = "calling"
  PROVE  pc[r] = "reading"
  BY DEF IInv, CallsSettled

LEMMA CallsStepSound ==
  ASSUME IInv, NEW r \in Refs,
         \/ \E k \in Calls : StartCall(r, k) \/ RaiseCall(r, k)
         \/ ReturnFacts(r) \/ ReturnFeeling(r)
  PROVE  StepSound(r)
<1>1. /\ state \in [Refs -> StateSpace]
      /\ state[r] \in StateSpace
      /\ state = [state EXCEPT ![r] = state[r]]
      /\ {"extract", "feel"} \subseteq Calls
  BY DEF IInv, Types, Calls
<1>2. ASSUME NEW k \in Calls, StartCall(r, k) PROVE StepSound(r)
  <2>1. /\ pc[r] = "reading" /\ call' = [call EXCEPT ![r][k] = "calling"]
        /\ state' = [state EXCEPT ![r] = state[r]]
        /\ UNCHANGED <<limit, input, pc, result, stage, flags, review>>
    BY <1>1, <1>2 DEF StartCall
  <2> QED
    BY <1>1, <2>1, CallSound
<1>3. ASSUME NEW k \in Calls, RaiseCall(r, k) PROVE StepSound(r)
  <2>1. /\ call[r][k] = "calling" /\ call' = [call EXCEPT ![r][k] = "raised"]
        /\ state' = [state EXCEPT ![r] = state[r]]
        /\ UNCHANGED <<limit, input, pc, result, stage, flags, review>>
    BY <1>1, <1>3 DEF RaiseCall
  <2> QED
    BY <1>1, <2>1, CallingIsReading, CallSound
<1>4. CASE ReturnFacts(r)
  <2>1. PICK f \in FactsRead : state' = [state EXCEPT ![r].facts = f]
    BY <1>4 DEF ReturnFacts
  <2>2. /\ [state[r] EXCEPT !.facts = f] \in StateSpace
        /\ state' = [state EXCEPT ![r] = [state[r] EXCEPT !.facts = f]]
    BY <1>1, <2>1 DEF StateSpace, FactsSpace
  <2>3. /\ call[r]["extract"] = "calling" /\ call' = [call EXCEPT ![r]["extract"] = "ok"]
        /\ UNCHANGED <<limit, input, pc, result, stage, flags, review>>
    BY <1>4 DEF ReturnFacts
  <2> QED
    BY <1>1, <2>2, <2>3, CallingIsReading, CallSound
<1>5. CASE ReturnFeeling(r)
  <2>1. PICK f \in Feelings :
           state' = [state EXCEPT ![r].sentiment = f.sentiment, ![r].redFlags = f.redFlags]
    BY <1>5 DEF ReturnFeeling
  <2> DEFINE s == [state[r] EXCEPT !.sentiment = f.sentiment, !.redFlags = f.redFlags]
  <2>2. f.sentiment \in Sentiments /\ f.redFlags \in Nat
    BY GraphAssumption
  <2>3. s \in StateSpace
    BY <1>1, <2>2 DEF StateSpace
  <2>4. state' = [state EXCEPT ![r] = s]
    BY <1>1, <2>1
  <2>5. /\ call[r]["feel"] = "calling" /\ call' = [call EXCEPT ![r]["feel"] = "ok"]
        /\ UNCHANGED <<limit, input, pc, result, stage, flags, review>>
    BY <1>5 DEF ReturnFeeling
  <2> HIDE DEF s
  <2> QED
    BY <1>1, <2>3, <2>4, <2>5, CallingIsReading, CallSound
<1> QED
  BY <1>2, <1>3, <1>4, <1>5

LEMMA AbandonSound ==
  ASSUME IInv, NEW r \in Refs, AbandonReading(r)
  PROVE  StepSound(r)
<1>1. /\ pc[r] # "done" /\ Isolate(r)
      /\ \A k \in Calls : call[r][k] # "calling"
      /\ UNCHANGED <<limit, input, call, state, stage, flags, review>>
  BY DEF AbandonReading, ReadingRaised
<1> QED
  BY <1>1, IsolateSound

\* A step inside the subgraph of r, once no call is in flight any more.
LEMMA InsideSound ==
  ASSUME IInv, NEW r \in Refs, pc[r] # "done",
         \A k \in Calls : call[r][k] \notin {"calling", "raised"},
         NEW step \in {"explain", "comments", "score", "summarize"},
         Goto(r, step), NEW s \in StateSpace, state' = [state EXCEPT ![r] = s],
         UNCHANGED <<limit, input, call, result, stage, flags, review>>,
         Gathered(r)', Processable(input[r]),
         step = "explain" => input[r].type = "open_text",
         step = "comments" => input[r].type = "yes_no",
         step = "summarize" => Scored(r)'
  PROVE  StepSound(r)
<1>1. stage = "fan_out"
  BY AtBarrier
<1>2. pc' \in [Refs -> Steps] /\ pc'[r] = step
      /\ \A q \in Refs \ {r} : pc'[q] = pc[q]
  BY DEF IInv, Types, Goto, Steps
<1>3. Types'
  BY <1>2 DEF IInv, Types
<1>4. Local(r)
  BY <1>2 DEF IInv, Types, Local
<1>5. result[r] = NoResult
  BY DEF IInv, Progress
<1>6. Progress(r)' /\ CallsSettled(r)'
  BY <1>2, <1>5 DEF Progress, CallsSettled
<1> QED
  BY <1>1, <1>3, <1>4, <1>6 DEF StepSound

\* After the first superstep all calls of r have ended well.
LEMMA CallsEnded ==
  ASSUME IInv, NEW r \in Refs, pc[r] \in {"explain", "comments", "score", "summarize"}
  PROVE  /\ \A k \in Calls : call[r][k] \notin {"calling", "raised"}
         /\ Gathered(r) /\ Processable(input[r])
         /\ state \in [Refs -> StateSpace] /\ state[r] \in StateSpace
         /\ state = [state EXCEPT ![r] = state[r]]
  BY DEF IInv, Types, Progress, CallsSettled

LEMMA DiffSound ==
  ASSUME IInv, NEW r \in Refs, DiffFactsNode(r)
  PROVE  StepSound(r)
<1> DEFINE found == DiffFacts(Claimed, state[r].facts)
           s == [state[r] EXCEPT !.discrepancies = found]
           step == IF found = {} THEN "score" ELSE "explain"
<1>1. /\ pc[r] = "reading" /\ {call[r][k] : k \in Calls} = {"ok"}
      /\ state' = [state EXCEPT ![r].discrepancies = found]
      /\ Goto(r, step)
      /\ UNCHANGED <<limit, input, call, result, stage, flags, review>>
  BY DEF DiffFactsNode, Diff
<1>2. \A k \in Calls : call[r][k] = "ok"
  BY <1>1
<1>3. found \in Discrepancies
  BY DiffTyped
<1>4. state[r] \in StateSpace /\ state \in [Refs -> StateSpace]
  BY DEF IInv, Types
<1>5. Processable(input[r]) /\ input[r].type = "open_text"
  BY <1>1 DEF IInv, Progress
<1>6. step \in {"score", "explain"}
  OBVIOUS
<1> HIDE DEF found, step
<1>7. s \in StateSpace /\ s.discrepancies = found /\ s.facts = state[r].facts
  BY <1>3, <1>4 DEF StateSpace
<1>8. state' = [state EXCEPT ![r] = s]
  BY <1>1, <1>4
<1>9. state'[r].discrepancies = DiffFacts(Claimed, state'[r].facts)
  BY <1>4, <1>7, <1>8 DEF found
<1>10. Gathered(r)'
  BY <1>1, <1>2, <1>5, <1>9 DEF Gathered
<1> HIDE DEF s
<1> QED
  BY <1>1, <1>2, <1>5, <1>6, <1>7, <1>8, <1>10, InsideSound

LEMMA ExplainSound ==
  ASSUME IInv, NEW r \in Refs, ExplainDiscrepancies(r)
  PROVE  StepSound(r)
<1>1. /\ pc[r] = "explain"
      /\ UNCHANGED <<limit, input, call, state, stage, flags, review>>
      /\ \/ Isolate(r)
         \/ Goto(r, "score") /\ UNCHANGED result
  BY DEF ExplainDiscrepancies
<1>2. CASE Isolate(r)
  BY <1>1, <1>2, CallsEnded, IsolateSound
<1>3. CASE Goto(r, "score") /\ UNCHANGED result
  <2>1. Gathered(r)'
    BY <1>1, CallsEnded DEF Gathered
  <2>2. state' = [state EXCEPT ![r] = state[r]]
    BY <1>1, CallsEnded
  <2> QED
    BY <1>1, <1>3, <2>1, <2>2, CallsEnded, InsideSound
<1> QED
  BY <1>1, <1>2, <1>3

LEMMA CommentsSound ==
  ASSUME IInv, NEW r \in Refs, SentimentFromComments(r)
  PROVE  StepSound(r)
<1>1. /\ pc[r] = "comments"
      /\ UNCHANGED <<limit, input, call, stage, flags, review>>
  BY DEF SentimentFromComments
<1>2. CASE Isolate(r) /\ UNCHANGED state
  BY <1>1, <1>2, CallsEnded, IsolateSound
<1>3. ASSUME NEW f \in Feelings, Goto(r, "score"), UNCHANGED result,
             state' = [state EXCEPT ![r].sentiment = f.sentiment,
                                    ![r].redFlags = @ + f.redFlags]
      PROVE  StepSound(r)
  <2> DEFINE n == state[r].redFlags + f.redFlags
             s == [state[r] EXCEPT !.sentiment = f.sentiment, !.redFlags = n]
  <2>1. f.sentiment \in Sentiments /\ f.redFlags \in Nat
    BY GraphAssumption
  <2>2. state[r] \in StateSpace /\ state \in [Refs -> StateSpace]
    BY DEF IInv, Types
  <2>3. state' = [state EXCEPT ![r] = s]
    BY <1>3, <2>2
  <2>4. state[r].redFlags \in Nat /\ n \in Nat /\ n >= state[r].redFlags
    BY <2>1, <2>2 DEF StateSpace
  <2> HIDE DEF n
  <2>5. /\ s \in StateSpace /\ s.discrepancies = state[r].discrepancies
        /\ s.redFlags = n
    BY <2>1, <2>2, <2>4 DEF StateSpace
  <2> HIDE DEF s
  <2>6. input[r].type = "yes_no" /\ Gathered(r)
    BY <1>1 DEF IInv, Progress
  <2>7. state'[r] = s /\ FormRedFlags(input[r].form) \in Nat
    BY <2>2, <2>3, FormTyped
  <2>8. Gathered(r)'
    BY <1>1, <2>4, <2>5, <2>6, <2>7 DEF Gathered
  <2> QED
    BY <1>1, <1>3, <2>3, <2>5, <2>8, CallsEnded, InsideSound
<1> QED
  BY <1>2, <1>3 DEF SentimentFromComments

LEMMA ScoreSound ==
  ASSUME IInv, NEW r \in Refs, ScoreConfidence(r)
  PROVE  StepSound(r)
<1> DEFINE x == state[r]
           score == Score(x.discrepancies, x.redFlags, x.sentiment)
           verdict == NeedsReview(x.discrepancies, x.redFlags, x.sentiment)
           s == [state[r] EXCEPT !.score = score, !.review = verdict]
<1>1. /\ pc[r] = "score"
      /\ state' = [state EXCEPT ![r].score = score, ![r].review = verdict]
      /\ Goto(r, "summarize")
      /\ UNCHANGED <<limit, input, call, result, stage, flags, review>>
  BY DEF ScoreConfidence
<1>2. state[r] \in StateSpace /\ state \in [Refs -> StateSpace]
  BY DEF IInv, Types
<1>3. score \in 0..100 /\ verdict \in BOOLEAN
  BY <1>2, ScoreTyped
<1> HIDE DEF score, verdict
<1>4. /\ s \in StateSpace
      /\ s.discrepancies = x.discrepancies /\ s.redFlags = x.redFlags
      /\ s.sentiment = x.sentiment /\ s.facts = x.facts
      /\ s.score = score /\ s.review = verdict
  BY <1>2, <1>3 DEF StateSpace
<1>5. state' = [state EXCEPT ![r] = s]
  BY <1>1, <1>2
<1> HIDE DEF s
<1>6. state'[r] = s
  BY <1>2, <1>5
<1>7. Gathered(r)'
  BY <1>1, <1>4, <1>6, CallsEnded DEF Gathered
<1>8. Scored(r)'
  BY <1>4, <1>6 DEF Scored, score, verdict
<1> QED
  BY <1>1, <1>4, <1>5, <1>7, <1>8, CallsEnded, InsideSound

LEMMA SummarizeSound ==
  ASSUME IInv, NEW r \in Refs, Summarize(r)
  PROVE  StepSound(r)
<1> DEFINE s == state[r]
           made == [name |-> NameOf[r], facts |-> s.facts,
                    discrepancies |-> s.discrepancies, sentiment |-> s.sentiment,
                    redFlags |-> s.redFlags, score |-> s.score, review |-> s.review]
<1>1. /\ pc[r] = "summarize"
      /\ UNCHANGED <<limit, input, call, state, stage, flags, review>>
  BY DEF Summarize
<1>2. CASE Isolate(r)
  BY <1>1, <1>2, CallsEnded, IsolateSound
<1>3. CASE result' = [result EXCEPT ![r] = made] /\ Goto(r, "done")
  <2>1. stage = "fan_out"
    BY <1>1, AtBarrier
  <2>2. made \in ResultSpace
    <3>1. NameOf[r] \in {None} \cup {NameOf[q] : q \in Refs}
      OBVIOUS
    <3>2. s \in StateSpace
      BY DEF IInv, Types
    <3> QED
      BY <3>1, <3>2 DEF ResultSpace, StateSpace
  <2>3. made = Judged(r)
    BY <1>1 DEF IInv, Progress, Scored, Judged, Result
  <2> HIDE DEF made
  <2>4. Types'
    BY <1>1, <1>3, <2>2 DEF IInv, Types, Goto, Steps
  <2>5. Local(r)
    BY <1>1, <1>3 DEF IInv, Types, Goto, Local
  <2>6. pc'[r] = "done" /\ result'[r] = made
    BY <1>3 DEF IInv, Types, Goto
  <2>7. Gathered(r)' /\ Judged(r)' = Judged(r)
    BY <1>1, CallsEnded DEF Gathered, Judged
  <2>8. Progress(r)'
    BY <1>1, <2>3, <2>6, <2>7, CallsEnded DEF Progress
  <2>9. CallsSettled(r)'
    BY <1>1, CallsEnded DEF CallsSettled
  <2> QED
    BY <1>1, <2>1, <2>4, <2>5, <2>8, <2>9 DEF StepSound
<1> QED
  BY <1>2, <1>3 DEF Summarize

LEMMA ReferenceStepSound ==
  ASSUME IInv, NEW r \in Refs, ReferenceStep(r)
  PROVE  StepSound(r)
  BY BeginSound, CallsStepSound, AbandonSound, DiffSound, ExplainSound, CommentsSound,
     ScoreSound, SummarizeSound DEF ReferenceStep

-----------------------------------------------------------------------------
(* The invariant *)

LEMMA IInvStep == IInv /\ [Next]_vars => IInv'
<1> SUFFICES ASSUME IInv, [Next]_vars PROVE IInv'
  OBVIOUS
<1>1. ASSUME NEW r \in Refs, ReferenceStep(r) PROVE IInv'
  BY <1>1, ReferenceStepSound, OthersKept
<1>2. CASE CrossCheckReferences
  <2>1. CrossFlags(result) \in Discrepancies
    BY CrossTyped
  <2>2. Types'
    BY <1>2, <2>1 DEF CrossCheckReferences, IInv, Types
  <2>3. \A r \in Refs : Progress(r)' /\ CallsSettled(r)'
    BY <1>2 DEF CrossCheckReferences, IInv, Progress, CallsSettled, Gathered, Judged, Scored
  <2>4. Overall'
    BY <1>2 DEF CrossCheckReferences, Overall
  <2> QED
    BY <2>2, <2>3, <2>4 DEF IInv
<1>3. CASE ScoreOverall
  <2>1. OverallNeedsReview(result, flags) \in BOOLEAN
    BY DEF OverallNeedsReview
  <2>2. Types'
    BY <1>3, <2>1 DEF ScoreOverall, IInv, Types
  <2>3. \A r \in Refs : Progress(r)' /\ CallsSettled(r)'
    BY <1>3 DEF ScoreOverall, IInv, Progress, CallsSettled, Gathered, Judged, Scored
  <2>4. Overall'
    BY <1>3 DEF ScoreOverall, IInv, Overall
  <2> QED
    BY <2>2, <2>3, <2>4 DEF IInv
<1>4. CASE OverallSummary
  <2>1. Types'
    BY <1>4 DEF OverallSummary, IInv, Types
  <2>2. \A r \in Refs : Progress(r)' /\ CallsSettled(r)'
    BY <1>4 DEF OverallSummary, IInv, Progress, CallsSettled, Gathered, Judged, Scored
  <2>3. Overall'
    BY <1>4 DEF OverallSummary, IInv, Overall
  <2> QED
    BY <2>1, <2>2, <2>3 DEF IInv
<1>5. CASE UNCHANGED vars
  BY <1>5 DEF vars, IInv, Types, Progress, CallsSettled, Gathered, Judged, Scored, Overall
<1> QED
  BY <1>1, <1>2, <1>3, <1>4, <1>5 DEF Next, Step, Ended

LEMMA Invariance == Spec => []IInv
<1> QED
  BY InitIInv, IInvStep, PTL DEF Spec

-----------------------------------------------------------------------------
(* What the run of a candidate guarantees *)

\* Whatever the models answer and whichever calls raise, every reference stays
\* in one of its supersteps, with a score from 0 to 100.
THEOREM Typing == Spec => []TypeOK
<1>1. IInv => TypeOK
  <2> SUFFICES ASSUME IInv PROVE TypeOK
    OBVIOUS
  <2>1. ASSUME NEW r \in Refs, result[r] # NoResult
        PROVE  result[r].name = NameOf[r]
    <3>1. Judged(r).name = NameOf[r]
      BY DEF Judged, Result
    <3>2. result[r] \in {Unprocessed(NameOf[r]), Judged(r)}
      BY <2>1 DEF IInv, Progress
    <3> QED
      BY <3>1, <3>2, PlaceholderFields
  <2>2. \A r \in Refs : state[r] \in StateSpace /\ result[r] \in ResultSpace
    BY DEF IInv, Types
  <2> QED
    BY <2>1, <2>2 DEF IInv, Types, TypeOK, StateSpace, ResultSpace, FactsSpace
<1> QED
  BY <1>1, Invariance, PTL

\* Failure isolation: when the overall nodes run, every reference has its
\* result, failed or not.
THEOREM EveryoneReported == Spec => []EveryReferenceReported
<1>1. IInv => EveryReferenceReported
  BY ResultsDiffer DEF IInv, Overall, Progress, EveryReferenceReported
<1> QED
  BY <1>1, Invariance, PTL

\* A result that was not given up is what the graph computes read from top to
\* bottom, however calls and references were interleaved.
THEOREM Sequential == Spec => []ResultsAreSequential
<1>1. IInv => ResultsAreSequential
  <2> SUFFICES ASSUME IInv, NEW r \in Refs, Readable(r)
               PROVE  LET s == state[r]
                          found == IF input[r].type = "open_text"
                                   THEN DiffFacts(Claimed, s.facts)
                                   ELSE FormDiscrepancies(input[r].form)
                      IN /\ result[r] = Result(NameOf[r], s.facts, found,
                                               s.sentiment, s.redFlags)
                         /\ input[r].type = "open_text" => \A k \in Calls : call[r][k] = "ok"
                         /\ input[r].type = "yes_no" =>
                               s.redFlags >= FormRedFlags(input[r].form)
    BY DEF ResultsAreSequential
  <2>1. Gathered(r) /\ result[r] = Judged(r)
    BY PlaceholderFields DEF IInv, Progress, Readable
  <2>2. input[r].type \in {"open_text", "yes_no"}
    BY InputTypes DEF IInv
  <2> QED
    BY <2>1, <2>2 DEF Gathered, Judged
<1> QED
  BY <1>1, Invariance, PTL

\* Every date of a reported result is judged by its distance from the claim, if
\* there is one, and never for being unreadable.
THEOREM DatesAreJudged == Spec => []DatesJudged
<1>1. IInv => DatesJudged
  <2> SUFFICES ASSUME IInv, NEW r \in Refs, Readable(r), input[r].type = "open_text",
                      NEW field \in {"start_date", "end_date"}
               PROVE  LET claim == Claimed[field]
                          said == result[r].facts[field]
                          around(months) == (claim - months)..(claim + months)
                      IN {d.severity : d \in {e \in result[r].discrepancies : e.field = field}} =
                           CASE said = None -> {}
                             [] said # None /\ claim = None -> {"major"}
                             [] None \notin {said, claim} /\ Unparsable \in {said, claim} -> {}
                             [] {said, claim} \subseteq Int ->
                                  IF said \in around(MinorMonthTolerance) THEN {}
                                  ELSE IF said \in around(ModerateMonthTolerance)
                                  THEN {"moderate"} ELSE {"major"}
    BY DEF DatesJudged
  <2> DEFINE facts == state[r].facts
  <2>1. Gathered(r) /\ result[r] = Judged(r)
    BY PlaceholderFields DEF IInv, Progress, Readable
  <2>2. result[r].facts = facts /\ result[r].discrepancies = DiffFacts(Claimed, facts)
    BY <2>1 DEF Gathered, Judged, Result
  <2>3. \A month \in {facts.start_date, facts.end_date, Claimed.start_date, Claimed.end_date} :
           month \in Int \cup {None, Unparsable}
    <3>1. facts \in FactsRead \cup {NoFacts}
      BY DEF IInv, Types, StateSpace, FactsSpace
    <3>2. NoFacts.start_date = None /\ NoFacts.end_date = None
      BY DEF NoFacts
    <3> QED
      BY <3>1, <3>2, GraphAssumption
  <2>4. Claimed.start_date # None
    BY GraphAssumption
  <2> HIDE DEF facts
  <2>5. {d.severity : d \in {e \in DiffFacts(Claimed, facts) : e.field = field}}
          = DateSeverity(Claimed[field], facts[field])
    BY <2>3, <2>4, DatesOfDiff
  <2>6. {Claimed[field], facts[field]} \subseteq Int \cup {None, Unparsable}
    <3>1. CASE field = "start_date"
      BY <2>3, <3>1
    <3>2. CASE field = "end_date"
      BY <2>3, <3>2
    <3> QED
      BY <3>1, <3>2
  <2> DEFINE claim == Claimed[field]
             said == facts[field]
  <2> HIDE DEF claim, said
  <2>7. claim \in Int \cup {None, Unparsable} /\ said \in Int \cup {None, Unparsable}
    BY <2>6 DEF claim, said
  <2>8. DateSeverity(claim, said) =
           CASE said = None -> {}
             [] said # None /\ claim = None -> {"major"}
             [] None \notin {said, claim} /\ Unparsable \in {said, claim} -> {}
             [] {said, claim} \subseteq Int ->
                  IF said \in (claim - MinorMonthTolerance)..(claim + MinorMonthTolerance)
                  THEN {}
                  ELSE IF said \in (claim - ModerateMonthTolerance)
                                    ..(claim + ModerateMonthTolerance)
                  THEN {"moderate"} ELSE {"major"}
    BY <2>7, SeverityByDistance
  <2> QED
    BY <2>2, <2>5, <2>8 DEF claim, said
<1> QED
  BY <1>1, Invariance, PTL

\* A reference that is not left to a human was read to the end and is clean.
LEMMA ClearedReference ==
  ASSUME IInv, NEW r \in Refs, pc[r] = "done", ~result[r].review
  PROVE  /\ Readable(r) /\ Processable(input[r])
         /\ result[r].score >= ReviewThreshold /\ result[r].redFlags = 0
         /\ \A d \in result[r].discrepancies : d.severity # "major"
<1> DEFINE s == state[r]
<1>1. result[r] = Judged(r) /\ Processable(input[r])
  <2>1. \/ result[r] = Unprocessed(NameOf[r])
        \/ Processable(input[r]) /\ result[r] = Judged(r)
    BY DEF IInv, Progress
  <2> QED
    BY <2>1, PlaceholderFields
<1>2. /\ s.discrepancies \in Discrepancies /\ s.redFlags \in Nat
      /\ s.sentiment \in Sentiments
  BY DEF IInv, Types, StateSpace
<1>3. /\ result[r].sentiment = s.sentiment
      /\ result[r].redFlags = s.redFlags
      /\ result[r].discrepancies = s.discrepancies
      /\ result[r].score = Score(s.discrepancies, s.redFlags, s.sentiment)
      /\ result[r].review = NeedsReview(s.discrepancies, s.redFlags, s.sentiment)
  BY <1>1 DEF Judged, Result
<1>4. Readable(r)
  BY <1>1, <1>2, <1>3, ResultsDiffer DEF Readable, Sentiments
<1>5. ~NeedsReview(s.discrepancies, s.redFlags, s.sentiment)
  BY <1>3
<1> HIDE DEF s
<1>6. /\ Score(s.discrepancies, s.redFlags, s.sentiment) >= ReviewThreshold
      /\ s.redFlags = 0
      /\ \A d \in s.discrepancies : d.severity # "major"
  BY <1>2, <1>5, ClearedIsClean
<1> QED
  BY <1>1, <1>3, <1>4, <1>6

\* A candidate cleared without human review has only references that were
\* valid, read to the end and clean, and that agree on title and company.
THEOREM ClearedMeansClean == Spec => []ClearedCandidateIsClean
<1>1. IInv => ClearedCandidateIsClean
  <2> SUFFICES ASSUME IInv, stage = "completed", ~review
               PROVE  ClearedCandidateIsClean
    BY DEF ClearedCandidateIsClean
  <2>1. /\ \A r \in Refs : pc[r] = "done"
        /\ flags = CrossFlags(result)
        /\ review = OverallNeedsReview(result, flags)
    BY DEF IInv, Overall
  <2>2. DOMAIN result = Refs
    BY DEF IInv, Types
  <2>3. CrossFlags(result) = {} /\ \A r \in Refs : ~result[r].review
    BY <2>1, <2>2, ReviewSpreads
  <2>4. ASSUME NEW r \in Refs PROVE InputValid(input[r])
    <3>1. Processable(input[r])
      BY <2>1, <2>3, ClearedReference
    <3>2. input[r].type \in {"open_text", "yes_no"}
      BY InputTypes DEF IInv
    <3> QED
      BY <3>1, <3>2 DEF Processable, InputValid, ShapeValid, RawInputValid
  <2>5. ASSUME NEW q \in Refs, NEW r \in Refs, NEW field \in {"job_title", "company"}
        PROVE  \/ result[q].facts[field] = result[r].facts[field]
               \/ None \in {result[q].facts[field], result[r].facts[field]}
    BY <2>2, <2>3, UnflaggedAgree, GraphAssumption DEF Refs
  <2> QED
    BY <2>1, <2>3, <2>4, <2>5, ClearedReference DEF ClearedCandidateIsClean
<1> QED
  BY <1>1, Invariance, PTL

\* When no two references share a name, none of their ratings is dropped.
LEMMA RatingsKept ==
  ASSUME NEW results, DOMAIN results = Refs, NEW r \in Refs,
         \A q \in Refs : results[q].name = results[r].name => q = r,
         results[r].facts.performance_rating # None
  PROVE  results[r].facts.performance_rating \in RatingsByName(results)
<1>1. ~(r > r)
  BY DEF Refs
<1>2. \A k \in DOMAIN results :
         k > r /\ results[k].name = results[r].name
            => results[k].facts.performance_rating = None
  BY <1>1
<1> QED
  BY <1>2 DEF RatingsByName

\* References that rate the candidate strong and weak are flagged, provided that
\* no two of them have the same name: with that exception the docstring of
\* cross_check_references holds.
THEOREM ConflictsFlagged ==
  ASSUME \A q, r \in Refs : NameOf[q] = NameOf[r] => q = r
  PROVE  Spec => []ConflictingRatingsFlagged
<1>1. IInv => ConflictingRatingsFlagged
  <2> SUFFICES ASSUME IInv, stage \in {"summarize", "completed"},
                      NEW p \in Refs, result[p].facts.performance_rating = "strong",
                      NEW q \in Refs, result[q].facts.performance_rating = "weak"
               PROVE  \E d \in flags : d.field = "performance_rating"
    BY DEF ConflictingRatingsFlagged
  <2>1. DOMAIN result = Refs /\ flags = CrossFlags(result)
    BY DEF IInv, Types, Overall
  <2>2. ASSUME NEW r \in Refs PROVE result[r].name = NameOf[r]
    <3>1. result[r] = Unprocessed(NameOf[r]) \/ result[r] = Judged(r)
      BY DEF IInv, Overall, Progress
    <3>2. Judged(r).name = NameOf[r]
      BY DEF Judged, Result
    <3> QED
      BY <3>1, <3>2, PlaceholderFields
  <2>3. \A a, b \in Refs : result[a].name = result[b].name => a = b
    BY <2>2
  <2>4. "strong" \in RatingsByName(result) /\ "weak" \in RatingsByName(result)
    BY <2>1, <2>3, RatingsKept, RatingAssumption
  <2>5. Discrepancy("performance_rating", "major") \in flags
    BY <2>1, <2>4 DEF CrossFlags
  <2> QED
    BY <2>5 DEF Discrepancy
<1> QED
  BY <1>1, Invariance, PTL

\* No later step, of this reference or another, changes a result, and the
\* candidate graph moves on only when every reference has one.
THEOREM Finality == Spec => ResultsAreFinal
<1>1. ASSUME IInv, Next
      PROVE  /\ \A r \in Refs : result[r] # NoResult => result'[r] = result[r]
             /\ stage' # stage => \A r \in Refs : result[r] # NoResult
  <2>1. ASSUME NEW q \in Refs, ReferenceStep(q)
        PROVE  /\ \A r \in Refs : result[r] # NoResult => result'[r] = result[r]
               /\ stage' = stage
    <3>1. pc[q] # "done" /\ Local(q)
      BY <1>1, <2>1, ReferenceStepSound DEF StepSound
    <3>2. result[q] = NoResult
      BY <1>1, <3>1 DEF IInv, Progress
    <3> QED
      BY <3>1, <3>2 DEF Local
  <2>2. CASE CrossCheckReferences \/ ScoreOverall \/ OverallSummary
    <3>1. result' = result /\ \A r \in Refs : pc[r] = "done"
      BY <1>1, <2>2 DEF CrossCheckReferences, ScoreOverall, OverallSummary, IInv, Overall
    <3>2. \A r \in Refs : result[r] # NoResult
      BY <1>1, <3>1, ResultsDiffer DEF IInv, Progress
    <3> QED
      BY <3>1, <3>2
  <2>3. CASE Ended
    BY <2>3 DEF Ended, vars
  <2> QED
    BY <1>1, <2>1, <2>2, <2>3 DEF Next, Step
<1>2. IInv /\ [Next]_vars =>
        [/\ \A r \in Refs : result[r] # NoResult => result'[r] = result[r]
         /\ stage' # stage => \A r \in Refs : result[r] # NoResult]_vars
  BY <1>1
<1> QED
  BY <1>2, Invariance, PTL DEF Spec, ResultsAreFinal

-----------------------------------------------------------------------------
(* The graph implements the review policy *)

VerdictOf(r) ==
    IF result[r] = NoResult THEN "pending"
    ELSE IF result[r].review THEN "review" ELSE "cleared"

UnreadOf(r) ==
    \/ pc[r] = "done" /\ ~Readable(r)
    \/ "raised" \in {call[r][k] : k \in Calls}

Verdicts == [r \in Refs |-> VerdictOf(r)]

Unread == [r \in Refs |-> UnreadOf(r)]

OverallVerdict ==
    IF stage \in {"fan_out", "score_overall"} THEN "pending"
    ELSE IF review THEN "review" ELSE "cleared"

\* A step of one reference is a step of the policy if its own verdict moves as
\* the policy allows.
LEMMA StepOfPolicy ==
  ASSUME NEW r \in Refs, Local(r),
         \/ VerdictOf(r)' = VerdictOf(r) /\ (UnreadOf(r)' <=> UnreadOf(r))
         \/ VerdictOf(r) = "pending" /\ VerdictOf(r)' = "pending" /\ UnreadOf(r)'
         \/ /\ VerdictOf(r) = "pending" /\ ~UnreadOf(r)
            /\ VerdictOf(r)' = "cleared" /\ ~UnreadOf(r)'
         \/ /\ VerdictOf(r) = "pending" /\ VerdictOf(r)' = "review"
            /\ UnreadOf(r)' \/ ~UnreadOf(r)
  PROVE  [Policy!Next]_(Policy!policyVars)
<1>1. \A q \in Refs \ {r} :
         VerdictOf(q)' = VerdictOf(q) /\ (UnreadOf(q)' <=> UnreadOf(q))
  BY DEF Local, VerdictOf, UnreadOf, Readable
<1>2. OverallVerdict' = OverallVerdict
  BY DEF Local, OverallVerdict
<1>3. Verdicts' = [Verdicts EXCEPT ![r] = VerdictOf(r)']
  BY <1>1 DEF Verdicts
<1>4. \A q \in Refs : UnreadOf(q) \in BOOLEAN /\ UnreadOf(q)' \in BOOLEAN
  BY DEF UnreadOf
<1>5. ASSUME UnreadOf(r)' <=> UnreadOf(r) PROVE Unread' = Unread
  BY <1>1, <1>4, <1>5, Zenon DEF Unread
<1>6. ASSUME UnreadOf(r)' PROVE Unread' = [Unread EXCEPT ![r] = TRUE]
  BY <1>1, <1>4, <1>6 DEF Unread
<1>7. Verdicts[r] = VerdictOf(r) /\ (Unread[r] <=> UnreadOf(r))
  BY DEF Verdicts, Unread
<1>8. CASE VerdictOf(r)' = VerdictOf(r) /\ (UnreadOf(r)' <=> UnreadOf(r))
  <2>1. Verdicts' = Verdicts
    BY <1>1, <1>8 DEF Verdicts
  <2>2. UNCHANGED Policy!policyVars
    BY <1>2, <1>5, <1>8, <2>1
       DEF Policy!policyVars, Verdicts, Unread, OverallVerdict, VerdictOf, UnreadOf
  <2> QED
    BY <2>2
<1>9. CASE VerdictOf(r) = "pending" /\ VerdictOf(r)' = "pending" /\ UnreadOf(r)'
  <2>1. Verdicts' = Verdicts
    BY <1>1, <1>9 DEF Verdicts
  <2>2. Policy!GoesWrong(r)
    BY <1>2, <1>6, <1>7, <1>9, <2>1
       DEF Policy!GoesWrong, Verdicts, Unread, OverallVerdict, VerdictOf, UnreadOf
  <2> QED
    BY <2>2 DEF Policy!Next
<1>10. CASE /\ VerdictOf(r) = "pending" /\ ~UnreadOf(r)
            /\ VerdictOf(r)' = "cleared" /\ ~UnreadOf(r)'
  <2>1. Verdicts' = [Verdicts EXCEPT ![r] = "cleared"]
    BY <1>3, <1>10
  <2>2. Unread' = Unread
    BY <1>5, <1>10
  <2>3. Policy!Clear(r)
    BY <1>2, <1>7, <1>10, <2>1, <2>2
       DEF Policy!Clear, Verdicts, Unread, OverallVerdict, VerdictOf, UnreadOf
  <2> QED
    BY <2>3 DEF Policy!Next
<1>11. CASE /\ VerdictOf(r) = "pending" /\ VerdictOf(r)' = "review"
            /\ UnreadOf(r)' \/ ~UnreadOf(r)
  <2>1. Verdicts' = [Verdicts EXCEPT ![r] = "review"]
    BY <1>3, <1>11
  <2>2. Unread' = Unread \/ Unread' = [Unread EXCEPT ![r] = TRUE]
    BY <1>5, <1>6, <1>11
  <2>3. Policy!Review(r)
    BY <1>2, <1>7, <1>11, <2>1, <2>2
       DEF Policy!Review, Verdicts, Unread, OverallVerdict, VerdictOf, UnreadOf
  <2> QED
    BY <2>3 DEF Policy!Next
<1> QED
  BY <1>8, <1>9, <1>10, <1>11

\* A reference at work has no verdict, and is unread once one of its calls raised.
LEMMA AtWork ==
  ASSUME IInv, NEW r \in Refs, pc[r] # "done"
  PROVE  /\ VerdictOf(r) = "pending"
         /\ UnreadOf(r) <=> \E k \in Calls : call[r][k] = "raised"
  BY DEF IInv, Progress, VerdictOf, UnreadOf

LEMMA IsolateRefines ==
  ASSUME IInv, NEW r \in Refs, pc[r] # "done", Local(r), Isolate(r)
  PROVE  [Policy!Next]_(Policy!policyVars)
<1>1. pc'[r] = "done" /\ result'[r] = Unprocessed(NameOf[r])
  BY DEF IInv, Types, Isolate, Goto
<1>2. VerdictOf(r)' = "review"
  BY <1>1, PlaceholderFields, ResultsDiffer DEF VerdictOf
<1>3. UnreadOf(r)'
  BY <1>1, PlaceholderFields DEF UnreadOf, Readable
<1> QED
  BY <1>2, <1>3, AtWork, StepOfPolicy

\* A step after which the reference is still at work, and the calls that had
\* raised are still there.
LEMMA AtWorkRefines ==
  ASSUME IInv, NEW r \in Refs, pc[r] # "done", StepSound(r), pc'[r] # "done",
         \A k \in Calls : call[r][k] = "raised" => call'[r][k] = "raised"
  PROVE  [Policy!Next]_(Policy!policyVars)
<1>1. result'[r] = NoResult /\ Local(r)
  BY DEF StepSound, Progress
<1>2. VerdictOf(r)' = "pending"
  BY <1>1 DEF VerdictOf
<1>3. UnreadOf(r)' <=> \E k \in Calls : call'[r][k] = "raised"
  BY DEF UnreadOf
<1>4. UnreadOf(r) => UnreadOf(r)'
  BY <1>3, AtWork
<1> QED
  BY <1>1, <1>2, <1>4, AtWork, StepOfPolicy

LEMMA SummarizeRefines ==
  ASSUME IInv, NEW r \in Refs, Summarize(r)
  PROVE  [Policy!Next]_(Policy!policyVars)
<1>1. /\ pc[r] = "summarize" /\ UNCHANGED <<call, state>> /\ StepSound(r)
  BY SummarizeSound DEF Summarize
<1>2. CASE Isolate(r)
  BY <1>1, <1>2, IsolateRefines DEF StepSound
<1>3. CASE ~Isolate(r)
  <2> DEFINE s == state[r]
             made == [name |-> NameOf[r], facts |-> s.facts,
                      discrepancies |-> s.discrepancies, sentiment |-> s.sentiment,
                      redFlags |-> s.redFlags, score |-> s.score, review |-> s.review]
  <2>1. result' = [result EXCEPT ![r] = made] /\ Goto(r, "done")
    BY <1>3 DEF Summarize
  <2>2. s.sentiment \in Sentiments /\ s.review \in BOOLEAN
    BY DEF IInv, Types, StateSpace
  <2>3. made.name = NameOf[r] /\ made.sentiment = s.sentiment /\ made.review = s.review
    OBVIOUS
  <2> HIDE DEF made
  <2>4. pc'[r] = "done" /\ result'[r] = made
    BY <2>1 DEF IInv, Types, Goto
  <2>5. NoResult.name # made.name
    BY <2>3, GraphAssumption DEF NoResult
  <2>6. VerdictOf(r)' \in {"review", "cleared"}
    BY <2>4, <2>5 DEF VerdictOf
  <2>7. Readable(r)'
    BY <2>2, <2>3, <2>4, <2>5 DEF Readable, Sentiments
  <2>8. ~UnreadOf(r) /\ ~UnreadOf(r)'
    BY <1>1, <2>7, CallsEnded DEF UnreadOf
  <2> QED
    BY <1>1, <2>6, <2>8, AtWork, StepOfPolicy DEF StepSound
<1> QED
  BY <1>2, <1>3

LEMMA ReferenceStepRefines ==
  ASSUME IInv, NEW r \in Refs, ReferenceStep(r)
  PROVE  [Policy!Next]_(Policy!policyVars)
<1>1. StepSound(r) /\ pc[r] # "done" /\ Local(r)
  BY ReferenceStepSound DEF StepSound
<1>2. pc \in [Refs -> Steps] /\ call \in [Refs -> [Calls -> {"todo", "calling", "ok", "raised"}]]
  BY DEF IInv, Types
<1>3. CASE Isolate(r)
  BY <1>1, <1>3, IsolateRefines
<1>4. CASE ~Isolate(r) /\ BeginReference(r)
  <2>1. pc'[r] # "done" /\ call' = call
    BY <1>2, <1>4 DEF BeginReference, Enter, Goto
  <2> QED
    BY <1>1, <2>1, AtWorkRefines
<1>5. ASSUME \/ \E k \in Calls : StartCall(r, k) \/ RaiseCall(r, k)
             \/ ReturnFacts(r) \/ ReturnFeeling(r)
      PROVE  [Policy!Next]_(Policy!policyVars)
  <2>1. pc' = pc
    BY <1>5 DEF StartCall, RaiseCall, ReturnFacts, ReturnFeeling
  <2>2. PICK k \in Calls, status \in {"calling", "ok", "raised"} :
           call[r][k] # "raised" /\ call' = [call EXCEPT ![r][k] = status]
    BY <1>5 DEF StartCall, RaiseCall, ReturnFacts, ReturnFeeling, Calls
  <2>3. \A j \in Calls : call[r][j] = "raised" => call'[r][j] = "raised"
    BY <1>2, <2>2
  <2> QED
    BY <1>1, <2>1, <2>3, AtWorkRefines
<1>6. CASE /\ ~Isolate(r)
           /\ \/ DiffFactsNode(r) \/ ExplainDiscrepancies(r) \/ SentimentFromComments(r)
              \/ ScoreConfidence(r)
  <2>1. pc'[r] # "done" /\ call' = call
    BY <1>2, <1>6 DEF DiffFactsNode, Diff, ExplainDiscrepancies, SentimentFromComments,
                      ScoreConfidence, Goto
  <2> QED
    BY <1>1, <2>1, AtWorkRefines
<1>7. CASE Summarize(r)
  BY <1>7, SummarizeRefines
<1>8. AbandonReading(r) => Isolate(r)
  BY DEF AbandonReading
<1> QED
  BY <1>3, <1>4, <1>5, <1>6, <1>7, <1>8 DEF ReferenceStep

LEMMA OverallRefines ==
  ASSUME IInv, ScoreOverall
  PROVE  Policy!Conclude
<1>1. /\ stage = "score_overall" /\ stage' = "summarize"
      /\ review' = OverallNeedsReview(result, flags)
      /\ UNCHANGED <<pc, call, result>>
  BY DEF ScoreOverall
<1>2. \A r \in Refs : pc[r] = "done"
  BY <1>1 DEF IInv, Overall
<1>3. \A r \in Refs : VerdictOf(r) # "pending"
  BY <1>2, ResultsDiffer DEF IInv, Progress, VerdictOf
<1>4. UNCHANGED <<Verdicts, Unread>>
  BY <1>1 DEF Verdicts, Unread, VerdictOf, UnreadOf, Readable
<1>5. OverallVerdict = "pending"
  BY <1>1 DEF OverallVerdict
<1>6. OverallVerdict' = IF review' THEN "review" ELSE "cleared"
  BY <1>1 DEF OverallVerdict
<1>7. ASSUME ~review' PROVE \A r \in Refs : VerdictOf(r) = "cleared"
  <2>1. DOMAIN result = Refs
    BY DEF IInv, Types
  <2>2. \A r \in Refs : ~result[r].review
    BY <1>1, <1>7, <2>1, ReviewSpreads
  <2> QED
    BY <1>3, <2>2 DEF VerdictOf
<1>8. \A r \in Refs : Verdicts[r] = VerdictOf(r)
  BY DEF Verdicts
<1>9. \/ OverallVerdict' = "review"
      \/ OverallVerdict' = "cleared" /\ \A r \in Refs : Verdicts[r] = "cleared"
  BY <1>6, <1>7, <1>8
<1>10. \A r \in Refs : Verdicts[r] # "pending"
  BY <1>3, <1>8
<1> QED
  BY <1>4, <1>5, <1>9, <1>10
     DEF Policy!Conclude, Verdicts, Unread, OverallVerdict, VerdictOf, UnreadOf

LEMMA StepRefines == IInv /\ [Next]_vars => [Policy!Next]_(Policy!policyVars)
<1> SUFFICES ASSUME IInv, [Next]_vars PROVE [Policy!Next]_(Policy!policyVars)
  OBVIOUS
<1>1. ASSUME NEW r \in Refs, ReferenceStep(r) PROVE [Policy!Next]_(Policy!policyVars)
  BY <1>1, ReferenceStepRefines
<1>2. CASE ScoreOverall
  BY <1>2, OverallRefines DEF Policy!Next
<1>3. CASE CrossCheckReferences \/ OverallSummary \/ UNCHANGED vars
  <2>1. /\ UNCHANGED <<pc, call, result, review>>
        /\ OverallVerdict' = OverallVerdict
    BY <1>3 DEF CrossCheckReferences, OverallSummary, vars, OverallVerdict
  <2>2. UNCHANGED <<Verdicts, Unread>>
    BY <2>1 DEF Verdicts, Unread, VerdictOf, UnreadOf, Readable
  <2> QED
    BY <2>1, <2>2
       DEF Policy!policyVars, Verdicts, Unread, OverallVerdict, VerdictOf, UnreadOf
<1> QED
  BY <1>1, <1>2, <1>3 DEF Next, Step, Ended

\* The run of the graphs is a behaviour of the review policy: one verdict per
\* reference, never withdrawn; nothing unread is cleared; the candidate is
\* cleared only after, and only if, every reference is.
THEOREM Refinement == Spec => ImplementsPolicy
<1>1. Init => Policy!Init
  <2> SUFFICES ASSUME Init PROVE Policy!Init
    OBVIOUS
  <2>1. \A r \in Refs : VerdictOf(r) = "pending" /\ UnreadOf(r) = FALSE
    BY DEF Init, VerdictOf, UnreadOf
  <2>2. /\ Verdicts = [r \in Refs |-> "pending"]
        /\ Unread = [r \in Refs |-> FALSE]
        /\ OverallVerdict = "pending"
    BY <2>1 DEF Init, Verdicts, Unread, OverallVerdict
  <2> QED
    BY <2>2 DEF Policy!Init, Verdicts, Unread, OverallVerdict, VerdictOf, UnreadOf
<1> QED
  BY <1>1, StepRefines, Invariance, PTL DEF Spec, ImplementsPolicy, Policy!Spec
=============================================================================
