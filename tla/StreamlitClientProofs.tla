----------------------- MODULE StreamlitClientProofs -----------------------
(***************************************************************************)
(* Theorems about StreamlitClient, for any identifiers, inputs of the form *)
(* and bounds on references, clicks and restarts.                          *)
(*                                                                         *)
(* A run of the script can be ended at almost any point, and the service   *)
(* goes on between any two of them.  The inductive invariant says what is  *)
(* left of a run at each point, and what an answer the page has received,  *)
(* perhaps long ago, still says about the check it is of.                  *)
(***************************************************************************)
EXTENDS StreamlitClient, FiniteSetTheorems, SequenceTheorems, TLAPS

Accepted == {c \in Checks : life[c].status # "absent"}

\* The submission of this run, which has not become a check yet.
Underway == IF pc = "posting" \/ event = "submit" THEN 1 ELSE 0

Counted ==
    /\ IsFiniteSet(Accepted)
    /\ Cardinality(Accepted) + late + Underway <= submits
    /\ submits <= clicks

\* The buttons of the upper sections are handled first, and "Add reference" is
\* there only while the session has room.
ButtonsFit ==
    /\ event \in {"save", "add", "remove", "submit"} => pc = "top"
    /\ event = "add" => Len(session.references) < MaxReferences

\* The list on the page is that of the session, except in a run that has not come
\* to it or is clearing the session; so a "Remove" clicked on a page at rest
\* still finds its reference.
ListRight ==
    /\ pc \notin {"top", "forget_candidate", "forget_check"} =>
          listed = session.references
    /\ event = "remove" /\ meant # None =>
          index \in DOMAIN session.references /\ session.references[index] = meant

\* How far "Start a new check" has come.
Clearing ==
    /\ pc \in {"forget_candidate", "forget_check"} =>
          event = "new" /\ session.references = <<>>
    /\ pc = "forget_check" => ~session.candidate

\* The session knows accepted checks only, and a 202 not stored only while the
\* script is about to.
Known ==
    /\ {session.check_id, reply} \ {None} \subseteq Accepted
    /\ reply # None => pc = "store"

\* What is shown of a check is what it is, or was before it was lost.
Truthful(id, status) ==
    /\ id \in Accepted
    /\ status = "running" => life[id].status # "queued"
    /\ status = "completed" => life[id].status \in {"completed", "lost"}
    /\ status = "failed" =>
          life[id].status \in {"failed", "lost"} \/ half[id] = "failed"

PageRight ==
    /\ pc \in {"bottom", "idle"} => page.id = session.check_id
    /\ page.id # None => Truthful(page.id, page.status)

AnswerRight ==
    /\ pc \in {"fetching", "show"} => session.check_id # None
    /\ pc = "show" => Shown(data) # "none" /\ Truthful(session.check_id, Shown(data))

RefreshRight ==
    pc = "sleeping" => page.status \in Unfinished /\ (auto \/ event = "refresh")

IInv ==
    /\ TypeOK
    /\ Counted
    /\ ButtonsFit
    /\ ListRight
    /\ Clearing
    /\ Known
    /\ PageRight
    /\ AnswerRight
    /\ RefreshRight
    /\ OrphansHaveACause

-----------------------------------------------------------------------------
(* The checks *)

LEMMA InitIInv == Init => IInv
<1> SUFFICES ASSUME Init PROVE IInv
  OBVIOUS
<1>1. life = [c \in Checks |-> Service!LifeOf("absent")]
  BY DEF Init, Service!Init
<1>2. Service!LifecycleTypeOK
  BY <1>1 DEF Service!LifecycleTypeOK, Service!Life, Service!Statuses, Service!LifeOf
<1>3. Accepted = {}
  BY <1>1 DEF Accepted, Service!LifeOf
<1>4. session \in Session /\ session.check_id = None /\ Len(session.references) <= MaxReferences
  <2>1. PICK n \in 0..MaxReferences :
          session = [candidate |-> n > 0, references |-> [i \in 1..n |-> MaxClicks + i],
                     check_id |-> None]
    BY DEF Init
  <2>2. n \in Nat /\ n <= MaxReferences /\ \A i \in 1..n : MaxClicks + i \in Nat
    BY ClientAssumption
  <2>3. [i \in 1..n |-> MaxClicks + i] \in Seq(Nat) /\ Len([i \in 1..n |-> MaxClicks + i]) = n
    BY <2>2, IsASeq
  <2> QED
    BY <2>1, <2>2, <2>3 DEF Session
<1>5. TypeOK
  <2>1. 0 \in 0..MaxClicks /\ 0 \in 0..MaxRestarts
    BY ClientAssumption
  <2>2. data \in [status : {"none"} \cup Unfinished \cup Terminal, payload : BOOLEAN]
    BY DEF Init, NoData, Answer
  <2>3. listed \in Seq(Nat) /\ index \in Nat /\ meant = None
    BY EmptySeq DEF Init
  <2>4. half \in [Checks -> {"none"} \cup Terminal] /\ pc \in Points
    BY DEF Init, Points
  <2> QED
    BY <1>2, <1>4, <2>1, <2>2, <2>3, <2>4 DEF Init, TypeOK
<1>6. Counted
  <2>1. IsFiniteSet(Accepted) /\ Cardinality(Accepted) = 0
    BY <1>3, FS_EmptySet
  <2> QED
    BY <2>1 DEF Init, Counted, Underway
<1>7. OrphansHaveACause
  BY <1>3 DEF Accepted, OrphansHaveACause
<1> QED
  BY <1>4, <1>5, <1>6, <1>7
     DEF Init, IInv, ButtonsFit, ListRight, Clearing, Known, PageRight, AnswerRight,
         RefreshRight, NoPage, View

\* Accepting a check adds it to the accepted ones, the others stay as they are.
LEMMA AcceptEffect ==
  ASSUME TypeOK, NEW c \in Checks, Accept(c)
  PROVE  /\ c \notin Accepted
         /\ Accepted' = Accepted \cup {c}
         /\ \A d \in Checks \ {c} : life'[d] = life[d]
         /\ Service!LifecycleTypeOK'
<1>1. /\ life \in [Checks -> Service!Life]
      /\ life[c].status = "absent"
      /\ life' = [life EXCEPT ![c] = Service!LifeOf("queued")]
  BY DEF TypeOK, Service!LifecycleTypeOK, Accept, Service!Accept
<1>2. /\ Service!LifeOf("queued") \in Service!Life
      /\ Service!LifeOf("queued").status = "queued"
  BY DEF Service!LifeOf, Service!Life, Service!Statuses
<1>3. /\ life' \in [Checks -> Service!Life]
      /\ life'[c].status = "queued"
      /\ \A d \in Checks \ {c} : life'[d] = life[d]
  BY <1>1, <1>2
<1> QED
  BY <1>1, <1>3 DEF Accepted, Service!LifecycleTypeOK

\* What the service's other steps do to a check.
LEMMA ServiceEffect ==
  ASSUME TypeOK, NEW c \in Checks, ServiceStep(c)
  PROVE  /\ Accepted' = Accepted
         /\ Service!LifecycleTypeOK'
         /\ half' \in [Checks -> {"none"} \cup Terminal]
         /\ \A id, status : Truthful(id, status) => Truthful(id, status)'
<1>1. life \in [Checks -> Service!Life] /\ half \in [Checks -> {"none"} \cup Terminal]
  BY DEF TypeOK, Service!LifecycleTypeOK
<1>2. CASE Service!Start(c) /\ UNCHANGED half
  <2>1. /\ life[c].status = "queued"
        /\ life' = [life EXCEPT ![c] = Service!LifeOf("running")]
        /\ half' = half
    BY <1>2 DEF Service!Start
  <2>2. /\ Service!LifeOf("running") \in Service!Life
        /\ Service!LifeOf("running").status = "running"
    BY DEF Service!LifeOf, Service!Life, Service!Statuses
  <2>3. /\ life' \in [Checks -> Service!Life]
        /\ life'[c].status = "running"
        /\ \A d \in Checks \ {c} : life'[d] = life[d]
    BY <1>1, <2>1, <2>2
  <2>4. Accepted' = Accepted
    BY <2>1, <2>3 DEF Accepted
  <2>5. \A id, status : Truthful(id, status) => Truthful(id, status)'
    BY <2>1, <2>3, <2>4 DEF Truthful, Accepted
  <2> QED
    BY <1>1, <2>1, <2>3, <2>4, <2>5 DEF Service!LifecycleTypeOK
<1>3. CASE WriteStatus(c)
  <2>1. PICK s \in Terminal : half' = [half EXCEPT ![c] = s]
    BY <1>3 DEF WriteStatus
  <2>2. half[c] = "none" /\ life' = life /\ Accepted' = Accepted
    BY <1>3 DEF WriteStatus, Accepted
  <2>3. /\ half' \in [Checks -> {"none"} \cup Terminal]
        /\ \A d \in Checks \ {c} : half'[d] = half[d]
    BY <1>1, <2>1
  <2>4. \A id, status : Truthful(id, status) => Truthful(id, status)'
    BY <2>2, <2>3 DEF Truthful, Accepted
  <2>5. Service!LifecycleTypeOK'
    BY <1>1, <2>2 DEF Service!LifecycleTypeOK
  <2> QED
    BY <2>2, <2>3, <2>4, <2>5
<1>4. CASE WritePayload(c)
  <2>1. /\ half' = [half EXCEPT ![c] = "none"]
        /\ half[c] \in Terminal
        /\ life[c].status = "running"
        /\ \E l \in Service!Life : l.status = half[c] /\ life' = [life EXCEPT ![c] = l]
    <3>1. CASE half[c] = "completed" /\ Service!Complete(c)
      <4> DEFINE l == [status |-> "completed", result |-> c, error |-> None]
      <4>1. l \in Service!Life /\ l.status = half[c]
        BY <3>1 DEF Service!Life, Service!Statuses
      <4> QED
        BY <1>4, <3>1, <4>1 DEF WritePayload, Service!Complete, Terminal
    <3>2. CASE half[c] = "failed" /\ Service!Fail(c)
      <4> DEFINE l == [status |-> "failed", result |-> None, error |-> c]
      <4>1. l \in Service!Life /\ l.status = half[c]
        BY <3>2 DEF Service!Life, Service!Statuses
      <4> QED
        BY <1>4, <3>2, <4>1 DEF WritePayload, Service!Fail, Terminal
    <3> QED
      BY <1>4, <3>1, <3>2 DEF WritePayload
  <2>2. PICK l \in Service!Life : l.status = half[c] /\ life' = [life EXCEPT ![c] = l]
    BY <2>1
  <2>3. /\ life' \in [Checks -> Service!Life]
        /\ life'[c].status = half[c]
        /\ half' \in [Checks -> {"none"} \cup Terminal]
        /\ \A d \in Checks \ {c} : life'[d] = life[d] /\ half'[d] = half[d]
    BY <1>1, <2>1, <2>2
  <2>4. Accepted' = Accepted
    BY <2>1, <2>3 DEF Accepted, Terminal
  <2>5. \A id, status : Truthful(id, status) => Truthful(id, status)'
    BY <2>1, <2>3, <2>4 DEF Truthful, Accepted, Terminal
  <2> QED
    BY <2>3, <2>4, <2>5 DEF Service!LifecycleTypeOK
<1> QED
  BY <1>2, <1>3, <1>4 DEF ServiceStep

\* A restart forgets results, not which checks were accepted.
LEMMA RestartEffect ==
  ASSUME TypeOK, Restart
  PROVE  /\ Accepted' = Accepted
         /\ Service!LifecycleTypeOK'
         /\ half' \in [Checks -> {"none"} \cup Terminal]
         /\ \A id, status : Truthful(id, status) => Truthful(id, status)'
<1>1. /\ life \in [Checks -> Service!Life]
      /\ life' = [c \in Checks |-> IF life[c].status = "absent" THEN life[c]
                                   ELSE Service!LifeOf("lost")]
      /\ half' = [c \in Checks |-> "none"]
  BY DEF TypeOK, Service!LifecycleTypeOK, Restart, Service!Restart
<1>2. /\ Service!LifeOf("lost") \in Service!Life
      /\ Service!LifeOf("lost").status = "lost"
  BY DEF Service!LifeOf, Service!Life, Service!Statuses
<1>3. /\ life' \in [Checks -> Service!Life]
      /\ \A c \in Checks : life'[c].status =
            IF life[c].status = "absent" THEN "absent" ELSE "lost"
  BY <1>1, <1>2
<1>4. Accepted' = Accepted
  BY <1>3 DEF Accepted
<1>5. \A id, status : Truthful(id, status) => Truthful(id, status)'
  BY <1>3, <1>4 DEF Truthful, Accepted
<1> QED
  BY <1>1, <1>3, <1>4, <1>5 DEF Service!LifecycleTypeOK

\* What is true of a check stays true while others are accepted, or none.
LEMMA TruthKept ==
  ASSUME TypeOK,
         \/ UNCHANGED <<life, half>>
         \/ \E c \in Checks : Accept(c) /\ UNCHANGED half
  PROVE  /\ Accepted \subseteq Accepted'
         /\ Service!LifecycleTypeOK'
         /\ half' \in [Checks -> {"none"} \cup Terminal]
         /\ \A id, status : Truthful(id, status) => Truthful(id, status)'
<1>1. CASE UNCHANGED <<life, half>>
  BY <1>1 DEF Truthful, Accepted, TypeOK, Service!LifecycleTypeOK
<1>2. ASSUME NEW c \in Checks, Accept(c), UNCHANGED half
      PROVE  /\ Accepted \subseteq Accepted'
             /\ Service!LifecycleTypeOK'
             /\ half' \in [Checks -> {"none"} \cup Terminal]
             /\ \A id, status : Truthful(id, status) => Truthful(id, status)'
  BY <1>2, AcceptEffect DEF Truthful, Accepted, TypeOK
<1> QED
  BY <1>1, <1>2

\* The steps that accept no check and leave the service alone.
Aside ==
    \/ UserStep
    \/ SaveCandidate \/ AddReference \/ RemoveReference \/ PassForms \/ Submit
    \/ PostFails \/ StoreCheckId \/ Result \/ Fetch \/ Show \/ SleepAndRerun
    \/ StartNewCheck \/ ForgetCandidate \/ ForgetCheck \/ EndRun

Accepting(c) == AcceptLate(c) \/ PostAnswered(c) \/ PostUnanswered(c)

LEMMA NextCases ==
  ASSUME Next
  PROVE  \/ Aside
         \/ \E c \in Checks : Accepting(c)
         \/ \E c \in Checks : ServiceStep(c)
         \/ Restart
  BY DEF Next, ScriptStep, Aside, Accepting

LEMMA AsideLeavesService ==
  ASSUME Aside
  PROVE  UNCHANGED <<life, half>>
<1>1. CASE UserStep
  BY <1>1 DEF UserStep, Click, ClickRemove, Reload, Begin
<1>2. CASE PostFails
  BY <1>2 DEF PostFails
<1>3. CASE SaveCandidate \/ AddReference \/ RemoveReference \/ PassForms \/ Submit
  BY <1>3 DEF SaveCandidate, AddReference, RemoveReference, PassForms, Submit, Unchanged,
              service
<1>4. CASE StoreCheckId \/ Result \/ Fetch \/ Show \/ SleepAndRerun
  BY <1>4 DEF StoreCheckId, Result, Fetch, Show, SleepAndRerun, Unchanged, service
<1>5. CASE StartNewCheck \/ ForgetCandidate \/ ForgetCheck \/ EndRun
  BY <1>5 DEF StartNewCheck, ForgetCandidate, ForgetCheck, EndRun, Unchanged, service
<1> QED
  BY <1>1, <1>2, <1>3, <1>4, <1>5 DEF Aside

LEMMA AcceptingAccepts ==
  ASSUME NEW c, Accepting(c)
  PROVE  /\ Accept(c)
         /\ UNCHANGED <<half, restarts, session, auto, listed, page, event, index, meant,
                        clicks, submits>>
<1>1. CASE AcceptLate(c)
  BY <1>1 DEF AcceptLate, script, shown
<1>2. CASE PostAnswered(c)
  BY <1>2 DEF PostAnswered, shown
<1>3. CASE PostUnanswered(c)
  BY <1>3 DEF PostUnanswered, Goto, shown
<1> QED
  BY <1>1, <1>2, <1>3 DEF Accepting

\* What the service does leaves the browser alone.
LEMMA BehindThePage ==
  ASSUME (\E c \in Checks : ServiceStep(c)) \/ Restart
  PROVE  UNCHANGED <<session, auto, listed, page, pc, event, index, meant, reply, data,
                     clicks, submits, parted>>
  BY DEF ServiceStep, Restart, script, shown

\* Whatever happens, checks stay accepted and what was true of one stays true.
LEMMA ChecksStep ==
  ASSUME TypeOK, Next
  PROVE  /\ Accepted \subseteq Accepted'
         /\ Service!LifecycleTypeOK'
         /\ half' \in [Checks -> {"none"} \cup Terminal]
         /\ \A id, status : Truthful(id, status) => Truthful(id, status)'
<1>1. CASE Aside
  BY <1>1, AsideLeavesService, TruthKept
<1>2. ASSUME NEW c \in Checks, Accepting(c)
      PROVE  /\ Accepted \subseteq Accepted'
             /\ Service!LifecycleTypeOK'
             /\ half' \in [Checks -> {"none"} \cup Terminal]
             /\ \A id, status : Truthful(id, status) => Truthful(id, status)'
  <2>1. Accept(c) /\ UNCHANGED half
    BY <1>2, AcceptingAccepts
  <2> QED
    BY <2>1, TruthKept
<1>3. ASSUME NEW c \in Checks, ServiceStep(c)
      PROVE  /\ Accepted \subseteq Accepted'
             /\ Service!LifecycleTypeOK'
             /\ half' \in [Checks -> {"none"} \cup Terminal]
             /\ \A id, status : Truthful(id, status) => Truthful(id, status)'
  BY <1>3, ServiceEffect
<1>4. CASE Restart
  BY <1>4, RestartEffect
<1> QED
  BY <1>1, <1>2, <1>3, <1>4, NextCases

-----------------------------------------------------------------------------
(* Counting submissions *)

\* Submissions that have become a check, or still may, do not outnumber those
\* that were made.
LEMMA Balance ==
  \A n, l, u, s, l2, u2, s2 \in Nat :
     n + l + u <= s /\ l2 + u2 + s <= l + u + s2 => n + l2 + u2 <= s2
  OBVIOUS

LEMMA BalanceAccepted ==
  \A n, l, u, s, l2, u2 \in Nat :
     n + l + u <= s /\ l2 + u2 + 1 = l + u => n + 1 + l2 + u2 <= s
  OBVIOUS

\* What the user does starts a run for one button, or for none.
LEMMA UserEffect ==
  ASSUME IInv, UserStep
  PROVE  /\ clicks < MaxClicks /\ clicks' = clicks + 1
         /\ late' = IF pc = "posting" THEN late + 1 ELSE late
         /\ submits' = IF event' = "submit" THEN submits + 1 ELSE submits
         /\ pc' = "top" /\ reply' = None /\ data' = NoData /\ restarts' = restarts
         /\ event' \in Buttons \cup {"none"} /\ index' \in Nat /\ auto' \in BOOLEAN
         /\ \/ UNCHANGED <<session, listed, page>> /\ Part({reply})
            \/ /\ session' = EmptySession /\ listed' = <<>> /\ page' = NoPage
               /\ event' = "none" /\ Part({session.check_id, reply})
         /\ event' = "add" => Len(session.references) < MaxReferences
         /\ \/ meant' = None
            \/ /\ event' = "remove" /\ meant' = session.references[index']
               /\ index' \in DOMAIN session.references
<1>1. auto \in BOOLEAN /\ listed \in Seq(Nat)
  BY DEF IInv, TypeOK
<1>2. ASSUME NEW b \in Buttons \ {"remove"}, Click(b)
      PROVE  /\ event' = (IF b = "toggle" THEN "none" ELSE b)
             /\ submits' = IF event' = "submit" THEN submits + 1 ELSE submits
             /\ event' = "add" => Len(session.references) < MaxReferences
  BY <1>2 DEF Click, Clickable
<1>3. CASE \E b \in Buttons \ {"remove"} : Click(b)
  <2>1. PICK b \in Buttons \ {"remove"} : Click(b)
    BY <1>3
  <2>2. /\ UNCHANGED <<session, listed, page>> /\ Part({reply})
        /\ index' = 0 /\ meant' = None
        /\ auto' = IF b = "toggle" THEN ~auto ELSE auto
    BY <2>1 DEF Click, shown
  <2>3. event' \in Buttons \cup {"none"} /\ auto' \in BOOLEAN
    BY <1>1, <1>2, <2>1, <2>2
  <2>4. /\ submits' = IF event' = "submit" THEN submits + 1 ELSE submits
        /\ event' = "add" => Len(session.references) < MaxReferences
    BY <1>2, <2>1
  <2>5. Begin
    BY <2>1 DEF Click
  <2>6. index' \in Nat
    BY <2>2
  <2> QED
    BY <2>2, <2>3, <2>4, <2>5, <2>6 DEF Begin
<1>4. ASSUME NEW i \in DOMAIN listed, ClickRemove(i)
      PROVE  /\ index' = i /\ i \in Nat /\ event' = "remove"
             /\ \/ meant' = None
                \/ i \in DOMAIN session.references /\ meant' = session.references[i]
  <2>1. index' = i /\ event' = "remove" /\ meant' = IF pc = "idle" THEN listed[i] ELSE None
    BY <1>4 DEF ClickRemove
  <2>2. i \in Nat
    BY <1>1, LenProperties
  <2>3. pc = "idle" => listed = session.references
    BY DEF IInv, ListRight
  <2> QED
    BY <2>1, <2>2, <2>3
<1>5. CASE \E i \in DOMAIN listed : ClickRemove(i)
  <2>1. PICK i \in DOMAIN listed : ClickRemove(i)
    BY <1>5
  <2>2. submits' = submits /\ UNCHANGED <<session, auto, listed, page>> /\ Part({reply})
    BY <2>1 DEF ClickRemove, shown
  <2> QED
    BY <1>1, <1>4, <2>1, <2>2 DEF ClickRemove, Begin, Buttons
<1>6. CASE Reload
  BY <1>6 DEF Reload, Begin
<1> QED
  BY <1>3, <1>5, <1>6 DEF UserStep

\* What a step that accepts no check does to the counters.
LEMMA AsideCounts ==
  ASSUME IInv, Aside
  PROVE  /\ late' \in Nat /\ submits' \in Nat /\ clicks' \in Nat
         /\ late' + Underway' + submits <= late + Underway + submits'
         /\ submits' <= clicks'
<1> DEFINE Goal == /\ late' \in Nat /\ submits' \in Nat /\ clicks' \in Nat
                   /\ late' + Underway' + submits <= late + Underway + submits'
                   /\ submits' <= clicks'
<1>1. /\ late \in Nat /\ submits \in Nat /\ clicks \in Nat
      /\ submits <= clicks
      /\ event = "submit" => pc = "top"
  BY DEF IInv, TypeOK, Counted, ButtonsFit
<1>2. CASE UserStep
  BY <1>1, <1>2, UserEffect DEF Underway
<1>3. CASE Submit
  BY <1>1, <1>3 DEF Submit, Submitting, Handled, Underway, Unchanged, service
<1>4. CASE PostFails
  <2>1. /\ pc = "posting" /\ event # "submit" /\ pc' = "result" /\ event' = event
        /\ late' \in {late, late + 1} /\ UNCHANGED <<submits, clicks>>
    BY <1>1, <1>4 DEF PostFails, Goto
  <2>2. Underway = 1 /\ Underway' = 0
    BY <2>1 DEF Underway
  <2>3. late' \in Nat /\ late' <= late + 1
    BY <1>1, <2>1
  <2>4. late' + Underway' + submits <= late + Underway + submits'
    <3>1. \A m, n, k \in Nat : m <= n + 1 => m + 0 + k <= n + 1 + k
      OBVIOUS
    <3>2. late' + 0 + submits <= late + 1 + submits
      BY <1>1, <2>3, <3>1
    <3> QED
      BY <2>1, <2>2, <3>2
  <2> QED
    BY <1>1, <2>1, <2>3, <2>4
<1>5. ASSUME UNCHANGED <<late, submits, clicks>>, pc' # "posting",
             event' \in {event, "none"}
      PROVE  Goal
  BY <1>1, <1>5 DEF Underway
<1>6. CASE RemoveReference \/ SleepAndRerun \/ ForgetCheck
  <2>1. UNCHANGED <<late, submits, clicks>> /\ pc' # "posting" /\ event' = "none"
    BY <1>6 DEF RemoveReference, SleepAndRerun, ForgetCheck, Rerun, Unchanged, service
  <2> QED
    BY <1>5, <2>1
<1>7. CASE SaveCandidate \/ AddReference \/ PassForms
  <2>1. /\ UNCHANGED <<late, submits, clicks>>
        /\ pc' = "result" /\ event' \in {event, "none"}
    BY <1>7 DEF SaveCandidate, AddReference, PassForms, Handled, Goto, Unchanged, service
  <2> QED
    BY <1>5, <2>1
<1>8. CASE StoreCheckId \/ Result \/ Fetch \/ Show
  <2>1. /\ UNCHANGED <<late, submits, clicks>>
        /\ pc' # "posting" /\ event' \in {event, "none"}
    BY <1>8 DEF StoreCheckId, Result, Fetch, Show, Goto, Unchanged, service
  <2> QED
    BY <1>5, <2>1
<1>9. CASE StartNewCheck \/ ForgetCandidate \/ EndRun
  <2>1. /\ UNCHANGED <<late, submits, clicks>>
        /\ pc' # "posting" /\ event' \in {event, "none"}
    BY <1>9 DEF StartNewCheck, ForgetCandidate, EndRun, Goto, Handled, Unchanged, service
  <2> QED
    BY <1>5, <2>1
<1> QED
  BY <1>2, <1>3, <1>4, <1>6, <1>7, <1>8, <1>9 DEF Aside

\* And one that accepts a check.
LEMMA AcceptingCounts ==
  ASSUME IInv, NEW c \in Checks, Accepting(c)
  PROVE  /\ late' \in Nat
         /\ late' + Underway' + 1 = late + Underway
<1>1. late \in Nat /\ (event = "submit" => pc = "top")
  BY DEF IInv, TypeOK, ButtonsFit
<1>2. CASE AcceptLate(c)
  BY <1>1, <1>2 DEF AcceptLate, script, Underway
<1>3. CASE PostAnswered(c) \/ PostUnanswered(c)
  <2>1. /\ pc = "posting" /\ event # "submit" /\ pc' # "posting"
        /\ UNCHANGED <<late, event>>
    BY <1>1, <1>3 DEF PostAnswered, PostUnanswered, Goto
  <2> QED
    BY <1>1, <2>1 DEF Underway
<1> QED
  BY <1>2, <1>3 DEF Accepting

LEMMA CountedStep ==
  ASSUME IInv, Next
  PROVE  Counted'
<1>1. /\ IsFiniteSet(Accepted) /\ Cardinality(Accepted) \in Nat
      /\ Cardinality(Accepted) + late + Underway <= submits
      /\ submits <= clicks
      /\ late \in Nat /\ submits \in Nat
  BY FS_CardinalityType DEF IInv, TypeOK, Counted
<1>2. Underway \in Nat /\ Underway' \in Nat
  BY DEF Underway
<1>3. CASE Aside
  <2>1. Accepted' = Accepted
    BY <1>3, AsideLeavesService DEF Accepted
  <2>2. Cardinality(Accepted) + late' + Underway' <= submits'
    BY <1>1, <1>2, <1>3, AsideCounts, Balance
  <2> QED
    BY <1>1, <1>3, <2>1, <2>2, AsideCounts DEF Counted
<1>4. ASSUME NEW c \in Checks, Accepting(c) PROVE Counted'
  <2>1. c \notin Accepted /\ Accepted' = Accepted \cup {c}
    BY <1>4, AcceptingAccepts, AcceptEffect DEF IInv
  <2>2. IsFiniteSet(Accepted') /\ Cardinality(Accepted') = Cardinality(Accepted) + 1
    BY <1>1, <2>1, FS_AddElement
  <2>3. UNCHANGED <<submits, clicks>>
    BY <1>4, AcceptingAccepts
  <2>4. Cardinality(Accepted) + 1 + late' + Underway' <= submits
    BY <1>1, <1>2, <1>4, AcceptingCounts, BalanceAccepted
  <2> QED
    BY <1>1, <2>2, <2>3, <2>4 DEF Counted
<1>5. CASE (\E c \in Checks : ServiceStep(c)) \/ Restart
  <2>1. Accepted' = Accepted
    BY <1>5, ServiceEffect, RestartEffect DEF IInv
  <2>2. UNCHANGED <<pc, event, submits, clicks>> /\ late' \in Nat /\ late' <= late
    BY <1>1, <1>5, BehindThePage DEF ServiceStep, Restart
  <2> QED
    BY <1>1, <2>1, <2>2 DEF Counted, Underway
<1> QED
  BY <1>3, <1>4, <1>5, NextCases

-----------------------------------------------------------------------------
(* Types *)

\* The parts of TypeOK about the run of the script, and about the rest of the
\* browser and the user.
RunTypes ==
    /\ pc \in Points
    /\ event \in Buttons \cup {"none"} /\ index \in Nat /\ meant \in Nat \cup {None}
    /\ reply \in Checks \cup {None}
    /\ data \in [status : {"none"} \cup Unfinished \cup Terminal, payload : BOOLEAN]

PageTypes ==
    /\ listed \in Seq(Nat)
    /\ auto \in BOOLEAN
    /\ \/ page = NoPage
       \/ /\ page.id \in Checks
          /\ page.status \in {"fetch_error", "exception"} \cup Unfinished \cup Terminal

SessionTypes ==
    /\ session \in Session /\ Len(session.references) <= MaxReferences
    /\ parted \subseteq Checks

BoundTypes == clicks \in 0..MaxClicks /\ restarts \in 0..MaxRestarts

LEMMA EmptyTypes ==
  /\ EmptySession \in Session /\ Len(EmptySession.references) <= MaxReferences
  /\ EmptySession.check_id = None /\ EmptySession.references = <<>>
  /\ <<>> \in Seq(Nat)
  /\ NoData \in [status : {"none"} \cup Unfinished \cup Terminal, payload : BOOLEAN]
  /\ NoPage.id = None /\ NoPage.status = "none"
<1>1. <<>> \in Seq(Nat) /\ Len(<<>>) = 0 /\ MaxReferences \in Nat
  BY EmptySeq, ClientAssumption
<1> QED
  BY <1>1 DEF EmptySession, Session, NoData, Answer, NoPage, View

LEMMA PartTyped ==
  ASSUME NEW checks, checks \subseteq Checks \cup {None}, parted \subseteq Checks,
         Part(checks)
  PROVE  parted' \subseteq Checks
  BY DEF Part

\* What a GET may bring back.
LEMMA AnswersTyped ==
  ASSUME TypeOK, NEW c \in Checks, NEW answer \in Answers(c)
  PROVE  /\ answer \in [status : Unfinished \cup Terminal, payload : BOOLEAN]
         /\ Truthful(c, Shown(answer))
<1>1. /\ life[c].status \in Unfinished \cup Terminal
      /\ \/ answer = Answer(life[c].status, TRUE) /\ life[c].status \in Terminal
         \/ answer = Answer(life[c].status, FALSE) /\ life[c].status \in Unfinished
         \/ answer = Answer(half[c], FALSE) /\ half[c] \in Terminal
  <2>1. CASE life[c].status \in Unfinished
    BY <2>1 DEF Answers
  <2>2. CASE life[c].status \in Terminal
    BY <2>2 DEF Answers, Unfinished, Terminal
  <2>3. CASE life[c].status \notin Unfinished \cup Terminal
    BY <2>3 DEF Answers
  <2> QED
    BY <2>1, <2>2, <2>3
<1>2. c \in Accepted
  BY <1>1 DEF Accepted, Unfinished, Terminal
<1>3. CASE answer = Answer(life[c].status, TRUE) /\ life[c].status \in Terminal
  BY <1>2, <1>3 DEF Answer, Shown, NoData, Truthful, Terminal
<1>4. CASE answer = Answer(life[c].status, FALSE) /\ life[c].status \in Unfinished
  BY <1>2, <1>4 DEF Answer, Shown, NoData, Truthful, Unfinished
<1>5. CASE answer = Answer(half[c], FALSE) /\ half[c] \in Terminal
  BY <1>2, <1>5 DEF Answer, Shown, NoData, Truthful, Terminal
<1> QED
  BY <1>1, <1>3, <1>4, <1>5

\* One reference less.
LEMMA RemoveAtTyped ==
  ASSUME NEW refs \in Seq(Nat), NEW i \in DOMAIN refs
  PROVE  RemoveAt(refs, i) \in Seq(Nat) /\ Len(RemoveAt(refs, i)) <= Len(refs)
<1> DEFINE n == Len(refs)
           before == SubSeq(refs, 1, i - 1)
           after == SubSeq(refs, i + 1, n)
<1>1. /\ n \in Nat /\ i \in 1..n /\ i \in Int /\ n \in Int
      /\ \A j \in 1..n : refs[j] \in Nat
  BY LenProperties, ElementOfSeq
<1>2. before \in Seq(Nat) /\ Len(before) = i - 1
  <2>1. \A j \in 1..i - 1 : refs[j] \in Nat
    BY <1>1
  <2>2. before \in Seq(Nat) /\ Len(before) = IF 1 <= i - 1 THEN i - 1 - 1 + 1 ELSE 0
    <3>1. i - 1 \in Int /\ 1 \in Int
      BY <1>1
    <3> QED
      BY <2>1, <3>1, SubSeqProperties
  <2> QED
    BY <1>1, <2>2
<1>3. after \in Seq(Nat) /\ Len(after) = n - i
  <2>1. \A j \in i + 1..n : refs[j] \in Nat
    BY <1>1
  <2>2. after \in Seq(Nat) /\ Len(after) = IF i + 1 <= n THEN n - (i + 1) + 1 ELSE 0
    <3>1. i + 1 \in Int /\ n \in Int
      BY <1>1
    <3> QED
      BY <2>1, <3>1, SubSeqProperties
  <2> QED
    BY <1>1, <2>2
<1>4. before \o after \in Seq(Nat) /\ Len(before \o after) = Len(before) + Len(after)
  BY <1>2, <1>3, ConcatProperties
<1>5. Len(before) + Len(after) <= n
  BY <1>1, <1>2, <1>3
<1> QED
  BY <1>4, <1>5 DEF RemoveAt

\* What the script does to the session leaves a session.
LEMMA SessionChanged ==
  ASSUME session \in Session
  PROVE  /\ \A id \in Checks \cup {None} : [session EXCEPT !.check_id = id] \in Session
         /\ \A ready \in BOOLEAN : [session EXCEPT !.candidate = ready] \in Session
         /\ \A refs \in Seq(Nat) : [session EXCEPT !.references = refs] \in Session
  BY DEF Session

LEMMA SessionTypesStep ==
  ASSUME IInv, Next
  PROVE  SessionTypes'
<1>1. /\ SessionTypes /\ reply \in Checks \cup {None}
      /\ session.references \in Seq(Nat) /\ session.check_id \in Checks \cup {None}
      /\ Len(session.references) \in Nat /\ MaxReferences \in Nat
  BY LenProperties, ClientAssumption DEF IInv, TypeOK, SessionTypes, Session
<1>2. ASSUME session' = session, parted' = parted PROVE SessionTypes'
  BY <1>1, <1>2 DEF SessionTypes
<1>3. ASSUME NEW refs \in Seq(Nat), Len(refs) <= MaxReferences,
             session' = [session EXCEPT !.references = refs], parted' = parted
      PROVE  SessionTypes'
  BY <1>1, <1>3, SessionChanged DEF SessionTypes, Session
<1>4. CASE UserStep
  <2>1. parted' \subseteq Checks
    BY <1>1, <1>4, UserEffect, PartTyped DEF SessionTypes
  <2> QED
    BY <1>1, <1>4, <2>1, UserEffect, EmptyTypes DEF SessionTypes
<1>5. CASE SaveCandidate
  BY <1>1, <1>5 DEF SaveCandidate, SessionTypes, Session
<1>6. CASE AddReference
  <2>1. Len(session.references) < MaxReferences /\ clicks \in Nat
    BY <1>6 DEF AddReference, IInv, TypeOK, ButtonsFit
  <2>2. /\ Append(session.references, clicks) \in Seq(Nat)
        /\ Len(Append(session.references, clicks)) = Len(session.references) + 1
    BY <1>1, <2>1, AppendProperties
  <2>3. \/ session' = session
        \/ session' = [session EXCEPT !.references = Append(@, clicks)]
    BY <1>6 DEF AddReference
  <2>4. parted' = parted
    BY <1>6 DEF AddReference
  <2> QED
    BY <1>1, <1>2, <1>3, <2>1, <2>2, <2>3, <2>4
<1>7. CASE RemoveReference
  <2>1. /\ index \in DOMAIN session.references /\ parted' = parted
        /\ session' = [session EXCEPT !.references = RemoveAt(@, index)]
    BY <1>7 DEF RemoveReference, Removing
  <2>2. /\ RemoveAt(session.references, index) \in Seq(Nat)
        /\ Len(RemoveAt(session.references, index)) <= Len(session.references)
    BY <1>1, <2>1, RemoveAtTyped
  <2>3. Len(RemoveAt(session.references, index)) <= MaxReferences
    BY <1>1, <2>2, LenProperties DEF SessionTypes
  <2> QED
    BY <1>1, <1>3, <2>1, <2>2, <2>3
<1>8. CASE PassForms \/ Submit \/ Result \/ Fetch \/ Show \/ SleepAndRerun \/ EndRun
  BY <1>2, <1>8 DEF PassForms, Submit, Result, Fetch, Show, SleepAndRerun, EndRun
<1>9. CASE PostFails
  BY <1>2, <1>9 DEF PostFails, AfterFailure
<1>10. CASE StoreCheckId \/ ForgetCheck
  <2>1. session' = [session EXCEPT !.check_id = reply]
        \/ session' = [session EXCEPT !.check_id = None]
    BY <1>10 DEF StoreCheckId, ForgetCheck
  <2>2. session' \in Session /\ session'.references = session.references
    BY <1>1, <2>1 DEF SessionTypes, Session
  <2>3. parted' \subseteq Checks
    BY <1>1, <1>10, PartTyped DEF StoreCheckId, ForgetCheck, SessionTypes
  <2> QED
    BY <1>1, <2>2, <2>3 DEF SessionTypes
<1>11. CASE StartNewCheck
  <2>1. <<>> \in Seq(Nat) /\ Len(<<>>) <= MaxReferences
    BY <1>1, EmptySeq
  <2>2. session' = [session EXCEPT !.references = <<>>] /\ parted' = parted
    BY <1>11 DEF StartNewCheck
  <2> QED
    BY <1>3, <2>1, <2>2
<1>12. CASE ForgetCandidate
  BY <1>1, <1>12 DEF ForgetCandidate, SessionTypes, Session
<1>13. ASSUME NEW c \in Checks, Accepting(c) PROVE SessionTypes'
  <2>1. session' = session /\ parted' \subseteq parted \cup {c}
    BY <1>13, AcceptingAccepts DEF Accepting, AcceptLate, PostAnswered, PostUnanswered
  <2> QED
    BY <1>1, <2>1 DEF SessionTypes
<1>14. CASE (\E c \in Checks : ServiceStep(c)) \/ Restart
  BY <1>2, <1>14, BehindThePage
<1> QED
  BY <1>4, <1>5, <1>6, <1>7, <1>8, <1>9, <1>10, <1>11, <1>12, <1>13, <1>14, NextCases
     DEF Aside

LEMMA RunTypesStep ==
  ASSUME IInv, Next
  PROVE  RunTypes'
<1>1. RunTypes
  BY DEF IInv, TypeOK, RunTypes
<1>2. ASSUME NEW p \in Points, Goto(p) \/ Handled(p) PROVE RunTypes'
  BY <1>1, <1>2 DEF Goto, Handled, RunTypes
<1>3. ASSUME Rerun PROVE RunTypes'
  BY <1>3, EmptyTypes DEF Rerun, RunTypes, Points
<1>4. CASE UserStep
  <2>1. meant' \in Nat \cup {None}
    <3>1. session.references \in Seq(Nat)
      BY DEF IInv, TypeOK, Session
    <3>2. \A i \in DOMAIN session.references : session.references[i] \in Nat
      BY <3>1, LenProperties, ElementOfSeq
    <3> QED
      BY <1>4, <3>2, UserEffect
  <2> QED
    BY <1>4, <2>1, UserEffect, EmptyTypes DEF RunTypes, Points
<1>5. CASE SaveCandidate \/ AddReference \/ PassForms
  BY <1>2, <1>5 DEF SaveCandidate, AddReference, PassForms, Points
<1>6. CASE RemoveReference \/ SleepAndRerun \/ ForgetCheck
  BY <1>3, <1>6 DEF RemoveReference, SleepAndRerun, ForgetCheck
<1>7. CASE Submit \/ PostFails \/ Result \/ StartNewCheck \/ ForgetCandidate \/ EndRun
  BY <1>2, <1>7
     DEF Submit, PostFails, Result, StartNewCheck, ForgetCandidate, EndRun, Points
<1>8. CASE StoreCheckId
  BY <1>1, <1>8 DEF StoreCheckId, RunTypes, Points
<1>9. CASE Fetch
  <2>1. session.check_id \in Checks
    BY <1>9 DEF Fetch, IInv, TypeOK, AnswerRight, Session
  <2>2. data' \in [status : {"none"} \cup Unfinished \cup Terminal, payload : BOOLEAN]
    BY <1>9, <2>1, AnswersTyped, EmptyTypes DEF Fetch, Fetched, IInv
  <2> QED
    BY <1>1, <1>9, <2>2 DEF Fetch, RunTypes, Points
<1>10. CASE Show
  <2>1. data' = NoData /\ UNCHANGED <<index, meant, reply>>
    BY <1>10 DEF Show
  <2>2. pc' \in Points /\ event' \in {event, "none"}
    BY <1>10 DEF Show, Points
  <2> QED
    BY <1>1, <2>1, <2>2, EmptyTypes DEF RunTypes
<1>11. ASSUME NEW c \in Checks, Accepting(c) PROVE RunTypes'
  <2>1. UNCHANGED <<event, index, meant>>
    BY <1>11, AcceptingAccepts
  <2>2. pc' \in Points /\ data' = data /\ reply' \in {reply, c}
    BY <1>1, <1>11 DEF Accepting, AcceptLate, PostAnswered, PostUnanswered, Goto, script,
                       RunTypes, Points
  <2> QED
    BY <1>1, <2>1, <2>2 DEF RunTypes
<1>12. CASE (\E c \in Checks : ServiceStep(c)) \/ Restart
  BY <1>1, <1>12, BehindThePage DEF RunTypes
<1> QED
  BY <1>4, <1>5, <1>6, <1>7, <1>8, <1>9, <1>10, <1>11, <1>12, NextCases DEF Aside

LEMMA PageTypesStep ==
  ASSUME IInv, Next
  PROVE  PageTypes'
<1>1. /\ PageTypes /\ session'.references \in Seq(Nat)
      /\ data \in [status : {"none"} \cup Unfinished \cup Terminal, payload : BOOLEAN]
  BY SessionTypesStep DEF IInv, TypeOK, PageTypes, SessionTypes, Session
<1>2. ASSUME listed' \in {listed, session'.references}, auto' \in {auto, FALSE},
             page' \in {page, NoPage}
      PROVE  PageTypes'
  BY <1>1, <1>2 DEF PageTypes
<1>3. CASE UserStep
  BY <1>1, <1>3, UserEffect, EmptyTypes DEF PageTypes
<1>4. CASE SaveCandidate \/ AddReference \/ PassForms \/ Submit
  BY <1>2, <1>4 DEF SaveCandidate, AddReference, PassForms, Submit, ListReferences
<1>5. CASE RemoveReference \/ PostFails \/ StoreCheckId \/ Fetch \/ SleepAndRerun
  BY <1>2, <1>5
     DEF RemoveReference, PostFails, StoreCheckId, Fetch, SleepAndRerun, shown
<1>6. CASE Result
  BY <1>2, <1>6 DEF Result
<1>7. CASE StartNewCheck \/ ForgetCandidate \/ ForgetCheck \/ EndRun
  BY <1>2, <1>7 DEF StartNewCheck, ForgetCandidate, ForgetCheck, EndRun, shown
<1>8. CASE Show
  <2>1. /\ page'.id = session.check_id /\ page'.status = Shown(data)
        /\ UNCHANGED <<auto, listed>>
    BY <1>8 DEF Show, View
  <2>2. session.check_id \in Checks /\ Shown(data) # "none"
    BY <1>8 DEF Show, IInv, TypeOK, AnswerRight, Session
  <2>3. Shown(data) \in {"fetch_error", "exception"} \cup Unfinished \cup Terminal
    BY <1>1, <2>2 DEF Shown
  <2> QED
    BY <1>1, <2>1, <2>2, <2>3 DEF PageTypes
<1>9. ASSUME NEW c \in Checks, Accepting(c) PROVE PageTypes'
  BY <1>2, <1>9, AcceptingAccepts
<1>10. CASE (\E c \in Checks : ServiceStep(c)) \/ Restart
  BY <1>2, <1>10, BehindThePage
<1> QED
  BY <1>3, <1>4, <1>5, <1>6, <1>7, <1>8, <1>9, <1>10, NextCases DEF Aside

LEMMA BoundTypesStep ==
  ASSUME IInv, Next
  PROVE  BoundTypes'
<1>1. BoundTypes /\ MaxClicks \in Nat /\ MaxRestarts \in Nat
  BY ClientAssumption DEF IInv, TypeOK, BoundTypes
<1>2. ASSUME UNCHANGED <<clicks, restarts>> PROVE BoundTypes'
  BY <1>1, <1>2 DEF BoundTypes
<1>3. CASE UserStep
  BY <1>1, <1>3, UserEffect DEF BoundTypes
<1>4. CASE SaveCandidate \/ AddReference \/ RemoveReference \/ PassForms \/ Submit
  BY <1>2, <1>4
     DEF SaveCandidate, AddReference, RemoveReference, PassForms, Submit, Unchanged, service
<1>5. CASE PostFails
  BY <1>2, <1>5 DEF PostFails
<1>6. CASE StoreCheckId \/ Result \/ Fetch \/ Show \/ SleepAndRerun
  BY <1>2, <1>6 DEF StoreCheckId, Result, Fetch, Show, SleepAndRerun, Unchanged, service
<1>7. CASE StartNewCheck \/ ForgetCandidate \/ ForgetCheck \/ EndRun
  BY <1>2, <1>7 DEF StartNewCheck, ForgetCandidate, ForgetCheck, EndRun, Unchanged, service
<1>8. ASSUME NEW c \in Checks, Accepting(c) PROVE BoundTypes'
  BY <1>2, <1>8, AcceptingAccepts
<1>9. CASE \E c \in Checks : ServiceStep(c)
  BY <1>2, <1>9, BehindThePage DEF ServiceStep
<1>10. CASE Restart
  BY <1>1, <1>10, BehindThePage DEF Restart, BoundTypes
<1> QED
  BY <1>3, <1>4, <1>5, <1>6, <1>7, <1>8, <1>9, <1>10, NextCases DEF Aside

\* The counters of lost and submitted POSTs are bounded by the clicks.
LEMMA TypeStep ==
  ASSUME IInv, Next
  PROVE  TypeOK'
<1>1. SessionTypes' /\ RunTypes' /\ PageTypes' /\ BoundTypes' /\ Counted'
  BY SessionTypesStep, RunTypesStep, PageTypesStep, BoundTypesStep, CountedStep
<1>2. late' \in Nat /\ submits' \in Nat
  <2>1. late \in Nat /\ submits \in Nat
    BY DEF IInv, TypeOK
  <2>2. CASE Aside
    BY <2>2, AsideCounts
  <2>3. ASSUME NEW c \in Checks, Accepting(c) PROVE late' \in Nat /\ submits' \in Nat
    BY <2>1, <2>3, AcceptingCounts, AcceptingAccepts
  <2>4. CASE (\E c \in Checks : ServiceStep(c)) \/ Restart
    BY <2>1, <2>4 DEF ServiceStep, Restart
  <2> QED
    BY <2>2, <2>3, <2>4, NextCases
<1>3. late' \in 0..MaxClicks /\ submits' \in 0..MaxClicks
  <2> DEFINE n == Cardinality(Accepted')
  <2>1. n \in Nat /\ n + late' + Underway' <= submits'
    BY <1>1, FS_CardinalityType DEF Counted
  <2>2. submits' <= clicks' /\ clicks' \in 0..MaxClicks
    BY <1>1 DEF Counted, BoundTypes
  <2>3. Underway' \in Nat /\ MaxClicks \in Nat
    BY ClientAssumption DEF Underway
  <2> HIDE DEF n
  <2>4. late' <= submits'
    <3>1. \A m, l, u, t \in Nat : m + l + u <= t => l <= t
      OBVIOUS
    <3> QED
      BY <1>2, <2>1, <2>3, <3>1
  <2> QED
    BY <1>2, <2>2, <2>3, <2>4
<1>4. Service!LifecycleTypeOK' /\ half' \in [Checks -> {"none"} \cup Terminal]
  BY ChecksStep DEF IInv
<1> QED
  BY <1>1, <1>3, <1>4 DEF TypeOK, SessionTypes, RunTypes, PageTypes, BoundTypes

-----------------------------------------------------------------------------
(* What is left of a run at each point of the script *)

LEMMA ButtonsFitStep ==
  ASSUME IInv, Next
  PROVE  ButtonsFit'
<1>1. ButtonsFit
  BY DEF IInv
<1>2. ASSUME event' \notin {"save", "add", "remove", "submit"} PROVE ButtonsFit'
  BY <1>2 DEF ButtonsFit
<1>3. ASSUME UNCHANGED <<pc, event, session>> PROVE ButtonsFit'
  BY <1>1, <1>3 DEF ButtonsFit
<1>4. ASSUME pc # "top", event' \in {event, "none"} PROVE ButtonsFit'
  BY <1>1, <1>2, <1>4 DEF ButtonsFit
<1>5. CASE UserStep
  <2>1. event' = "add" => session' = session
    BY <1>5, UserEffect
  <2> QED
    BY <1>5, <2>1, UserEffect DEF ButtonsFit
<1>6. CASE SaveCandidate \/ AddReference \/ RemoveReference \/ Submit
  BY <1>2, <1>6 DEF SaveCandidate, AddReference, RemoveReference, Submit, Handled, Rerun
<1>7. CASE PassForms
  BY <1>2, <1>7 DEF PassForms, Handled, Goto
<1>8. CASE PostFails \/ StoreCheckId \/ Result \/ Fetch \/ Show
  BY <1>4, <1>8 DEF PostFails, StoreCheckId, Result, Fetch, Show, Goto
<1>9. CASE SleepAndRerun \/ StartNewCheck \/ ForgetCandidate \/ ForgetCheck \/ EndRun
  BY <1>4, <1>9
     DEF SleepAndRerun, StartNewCheck, ForgetCandidate, ForgetCheck, EndRun, Goto, Handled,
         Rerun
<1>10. ASSUME NEW c \in Checks, Accepting(c) PROVE ButtonsFit'
  <2>1. event' = event /\ session' = session /\ (pc' = pc \/ pc = "posting")
    BY <1>10, AcceptingAccepts
       DEF Accepting, AcceptLate, PostAnswered, PostUnanswered, script
  <2> QED
    BY <1>3, <1>4, <2>1
<1>11. CASE (\E c \in Checks : ServiceStep(c)) \/ Restart
  BY <1>3, <1>11, BehindThePage
<1> QED
  BY <1>5, <1>6, <1>7, <1>8, <1>9, <1>10, <1>11, NextCases DEF Aside

\* The list is drawn whenever the script comes to it, and the session changes
\* only above that point, or in a run that will start over.
LEMMA ListRightStep ==
  ASSUME IInv, Next
  PROVE  ListRight'
<1>1. ListRight /\ ButtonsFit /\ session \in Session
  BY DEF IInv, TypeOK
<1>2. ASSUME event' # "remove",
             \/ pc' \in {"top", "forget_candidate", "forget_check"}
             \/ listed' = session'.references
      PROVE  ListRight'
  BY <1>2 DEF ListRight
<1>3. ASSUME UNCHANGED <<session, listed, pc, event, index, meant>> PROVE ListRight'
  BY <1>1, <1>3 DEF ListRight
<1>4. ASSUME pc \notin {"top", "forget_candidate", "forget_check"},
             session'.references = session.references, listed' = listed,
             event' \in {event, "none"}
      PROVE  ListRight'
  <2>1. listed = session.references /\ event # "remove"
    BY <1>1, <1>4 DEF ListRight, ButtonsFit
  <2> QED
    BY <1>2, <1>4, <2>1
<1>5. CASE UserStep
  <2>1. pc' = "top"
    BY <1>5, UserEffect
  <2>2. CASE meant' = None
    BY <2>1, <2>2 DEF ListRight
  <2>3. CASE /\ event' = "remove" /\ meant' = session.references[index']
             /\ index' \in DOMAIN session.references
    <3>1. session' = session
      BY <1>5, <2>3, UserEffect
    <3> QED
      BY <2>1, <2>3, <3>1 DEF ListRight
  <2> QED
    BY <1>5, <2>2, <2>3, UserEffect
<1>6. CASE SaveCandidate \/ AddReference \/ Submit
  BY <1>2, <1>6 DEF SaveCandidate, AddReference, Submit, ListReferences, Handled
<1>7. CASE PassForms
  BY <1>2, <1>7 DEF PassForms, ListReferences, Handled, Goto
<1>8. CASE RemoveReference \/ SleepAndRerun \/ ForgetCheck
  BY <1>2, <1>8 DEF RemoveReference, SleepAndRerun, ForgetCheck, Rerun
<1>9. CASE PostFails \/ Result \/ Fetch \/ Show \/ EndRun
  BY <1>4, <1>9
     DEF PostFails, AfterFailure, Result, Fetch, Show, EndRun, Goto, Handled, shown
<1>10. CASE StoreCheckId
  <2>1. session'.references = session.references
    BY <1>1, <1>10 DEF StoreCheckId, Session
  <2> QED
    BY <1>4, <1>10, <2>1 DEF StoreCheckId, shown
<1>11. CASE StartNewCheck
  BY <1>2, <1>11 DEF StartNewCheck, Goto
<1>12. CASE ForgetCandidate
  <2>1. event = "new"
    BY <1>12 DEF ForgetCandidate, IInv, Clearing
  <2> QED
    BY <1>2, <1>12, <2>1 DEF ForgetCandidate, Goto
<1>13. ASSUME NEW c \in Checks, Accepting(c) PROVE ListRight'
  <2>1. UNCHANGED <<session, listed, event, index, meant>>
    BY <1>13, AcceptingAccepts
  <2>2. pc' = pc \/ pc = "posting"
    BY <1>13 DEF Accepting, AcceptLate, PostAnswered, PostUnanswered, script
  <2> QED
    BY <1>3, <1>4, <2>1, <2>2
<1>14. CASE (\E c \in Checks : ServiceStep(c)) \/ Restart
  BY <1>3, <1>14, BehindThePage
<1> QED
  BY <1>5, <1>6, <1>7, <1>8, <1>9, <1>10, <1>11, <1>12, <1>13, <1>14, NextCases DEF Aside

LEMMA ClearingStep ==
  ASSUME IInv, Next
  PROVE  Clearing'
<1>1. Clearing /\ session \in Session
  BY DEF IInv, TypeOK
<1>2. ASSUME pc' \notin {"forget_candidate", "forget_check"} PROVE Clearing'
  BY <1>2 DEF Clearing
<1>3. ASSUME UNCHANGED <<pc, event, session>> PROVE Clearing'
  BY <1>1, <1>3 DEF Clearing
<1>4. CASE UserStep
  BY <1>2, <1>4, UserEffect
<1>5. CASE SaveCandidate \/ AddReference \/ RemoveReference \/ PassForms \/ Submit
  BY <1>2, <1>5 DEF SaveCandidate, AddReference, RemoveReference, PassForms, Submit,
                    Handled, Goto, Rerun
<1>6. CASE PostFails \/ StoreCheckId \/ Result \/ Fetch \/ Show \/ SleepAndRerun
  BY <1>2, <1>6 DEF PostFails, StoreCheckId, Result, Fetch, Show, SleepAndRerun, Goto, Rerun
<1>7. CASE ForgetCheck \/ EndRun
  BY <1>2, <1>7 DEF ForgetCheck, EndRun, Handled, Rerun
<1>8. CASE StartNewCheck
  <2>1. session'.references = <<>> /\ event' = "new" /\ pc' = "forget_candidate"
    BY <1>1, <1>8 DEF StartNewCheck, Goto, Session
  <2> QED
    BY <2>1 DEF Clearing
<1>9. CASE ForgetCandidate
  <2>1. event = "new" /\ session.references = <<>>
    BY <1>1, <1>9 DEF ForgetCandidate, Clearing
  <2>2. ~session'.candidate /\ session'.references = session.references /\ event' = event
    BY <1>1, <1>9 DEF ForgetCandidate, Goto, Session
  <2> QED
    BY <2>1, <2>2 DEF Clearing
<1>10. ASSUME NEW c \in Checks, Accepting(c) PROVE Clearing'
  <2>1. UNCHANGED <<session, event>>
    BY <1>10, AcceptingAccepts
  <2>2. pc' = pc \/ pc' \in {"store", "result"}
    BY <1>10 DEF Accepting, AcceptLate, PostAnswered, PostUnanswered, Goto, script
  <2> QED
    BY <1>2, <1>3, <2>1, <2>2
<1>11. CASE (\E c \in Checks : ServiceStep(c)) \/ Restart
  BY <1>3, <1>11, BehindThePage
<1> QED
  BY <1>4, <1>5, <1>6, <1>7, <1>8, <1>9, <1>10, <1>11, NextCases DEF Aside

\* The session and the script learn of a check only when it is accepted.
LEMMA KnownStep ==
  ASSUME IInv, Next
  PROVE  Known'
<1>1. Known /\ Accepted \subseteq Accepted' /\ session \in Session
  BY ChecksStep DEF IInv, TypeOK
<1>2. ASSUME session'.check_id \in {session.check_id, None},
             \/ reply' = None
             \/ reply' = reply /\ (pc = "store" => pc' = "store")
      PROVE  Known'
  BY <1>1, <1>2 DEF Known
<1>3. CASE UserStep
  BY <1>2, <1>3, UserEffect, EmptyTypes
<1>4. CASE SaveCandidate
  BY <1>1, <1>2, <1>4 DEF SaveCandidate, Handled, Session
<1>5. CASE AddReference
  <2>1. session'.check_id = session.check_id
    BY <1>1, <1>5 DEF AddReference, Session
  <2> QED
    BY <1>2, <1>5, <2>1 DEF AddReference, Handled
<1>6. CASE RemoveReference \/ ForgetCheck
  BY <1>1, <1>2, <1>6 DEF RemoveReference, ForgetCheck, Rerun, Session
<1>7. CASE PassForms \/ Submit \/ Result \/ Fetch \/ EndRun
  BY <1>2, <1>7 DEF PassForms, Submit, Result, Fetch, EndRun, Handled, Goto
<1>8. CASE PostFails
  BY <1>2, <1>8 DEF PostFails, AfterFailure, Goto
<1>9. CASE StoreCheckId
  <2>1. session'.check_id = reply /\ reply' = None
    BY <1>1, <1>9 DEF StoreCheckId, Session
  <2> QED
    BY <1>1, <2>1 DEF Known
<1>10. CASE Show \/ SleepAndRerun
  BY <1>2, <1>10 DEF Show, SleepAndRerun, Rerun
<1>11. CASE StartNewCheck \/ ForgetCandidate
  BY <1>1, <1>2, <1>11 DEF StartNewCheck, ForgetCandidate, Goto, Session
<1>12. ASSUME NEW c \in Checks, Accepting(c) PROVE Known'
  <2>1. c \in Accepted' /\ session' = session
    BY <1>12, AcceptingAccepts, AcceptEffect DEF IInv
  <2>2. \/ reply' = c /\ pc' = "store"
        \/ reply' = reply /\ (pc = "store" => pc' = "store")
    BY <1>12 DEF Accepting, AcceptLate, PostAnswered, PostUnanswered, Goto, script
  <2> QED
    BY <1>1, <2>1, <2>2 DEF Known
<1>13. CASE (\E c \in Checks : ServiceStep(c)) \/ Restart
  BY <1>2, <1>13, BehindThePage
<1> QED
  BY <1>3, <1>4, <1>5, <1>6, <1>7, <1>8, <1>9, <1>10, <1>11, <1>12, <1>13, NextCases
     DEF Aside

\* What is shown is redrawn from the check of the session by every run that is
\* not ended before.
LEMMA PageRightStep ==
  ASSUME IInv, Next
  PROVE  PageRight'
<1>1. /\ PageRight /\ AnswerRight /\ session \in Session
      /\ \A id, status : Truthful(id, status) => Truthful(id, status)'
  BY ChecksStep DEF IInv, TypeOK
<1>2. ASSUME page' = page, pc' \notin {"idle", "bottom"} PROVE PageRight'
  BY <1>1, <1>2 DEF PageRight
<1>3. ASSUME UNCHANGED <<page, session, pc>> PROVE PageRight'
  BY <1>1, <1>3 DEF PageRight
<1>4. CASE UserStep
  <2>1. pc' = "top" /\ (page' = page \/ page' = NoPage)
    BY <1>4, UserEffect
  <2> QED
    BY <1>2, <2>1, EmptyTypes DEF PageRight
<1>5. CASE RemoveReference \/ SleepAndRerun \/ StartNewCheck \/ ForgetCandidate \/ ForgetCheck
  BY <1>2, <1>5
     DEF RemoveReference, SleepAndRerun, StartNewCheck, ForgetCandidate, ForgetCheck, Rerun,
         Goto, shown
<1>6. CASE SaveCandidate \/ AddReference \/ PassForms \/ Submit
  BY <1>2, <1>6 DEF SaveCandidate, AddReference, PassForms, Submit, Handled, Goto
<1>7. CASE PostFails \/ StoreCheckId \/ Fetch
  BY <1>2, <1>7 DEF PostFails, StoreCheckId, Fetch, Goto, shown
<1>8. CASE Result
  <2>1. CASE session.check_id = None
    BY <1>8, <2>1, EmptyTypes DEF Result, PageRight
  <2>2. CASE session.check_id # None
    BY <1>2, <1>8, <2>2 DEF Result, Goto
  <2> QED
    BY <2>1, <2>2
<1>9. CASE Show
  <2>1. page'.id = session.check_id /\ page'.status = Shown(data) /\ session' = session
    BY <1>9 DEF Show, View
  <2>2. Truthful(page.id, page.status)'
    BY <1>1, <1>9, <2>1 DEF AnswerRight, Show, Truthful
  <2> QED
    BY <2>1, <2>2 DEF PageRight
<1>10. CASE EndRun
  BY <1>1, <1>10 DEF EndRun, Handled, PageRight, shown
<1>11. ASSUME NEW c \in Checks, Accepting(c) PROVE PageRight'
  <2>1. UNCHANGED <<page, session>>
    BY <1>11, AcceptingAccepts
  <2>2. pc' = pc \/ pc' \in {"store", "result"}
    BY <1>11 DEF Accepting, AcceptLate, PostAnswered, PostUnanswered, Goto, script
  <2> QED
    BY <1>2, <1>3, <2>1, <2>2
<1>12. CASE (\E c \in Checks : ServiceStep(c)) \/ Restart
  BY <1>3, <1>12, BehindThePage
<1> QED
  BY <1>4, <1>5, <1>6, <1>7, <1>8, <1>9, <1>10, <1>11, <1>12, NextCases DEF Aside

\* An answer that was received stays true of the check of the session, whatever
\* happens before it is shown.
LEMMA AnswerRightStep ==
  ASSUME IInv, Next
  PROVE  AnswerRight'
<1>1. /\ AnswerRight /\ Known /\ session \in Session
      /\ \A id, status : Truthful(id, status) => Truthful(id, status)'
      /\ Accepted \subseteq Accepted'
  BY ChecksStep DEF IInv, TypeOK
<1>2. ASSUME pc' \notin {"fetching", "show"} PROVE AnswerRight'
  BY <1>2 DEF AnswerRight
<1>3. ASSUME UNCHANGED <<pc, session, data>> PROVE AnswerRight'
  <2>1. Shown(data)' = Shown(data)
    BY <1>3 DEF Shown
  <2> QED
    BY <1>1, <1>3, <2>1 DEF AnswerRight
<1>4. CASE UserStep
  BY <1>2, <1>4, UserEffect
<1>5. CASE RemoveReference \/ SleepAndRerun \/ ForgetCheck
  BY <1>2, <1>5 DEF RemoveReference, SleepAndRerun, ForgetCheck, Rerun
<1>6. CASE StartNewCheck \/ ForgetCandidate \/ EndRun
  BY <1>2, <1>6 DEF StartNewCheck, ForgetCandidate, EndRun, Goto, Handled
<1>7. CASE SaveCandidate \/ AddReference \/ PassForms \/ Submit \/ PostFails
  BY <1>2, <1>7 DEF SaveCandidate, AddReference, PassForms, Submit, PostFails, Handled, Goto
<1>8. CASE StoreCheckId \/ Show
  BY <1>2, <1>8 DEF StoreCheckId, Show
<1>9. CASE Result
  BY <1>9 DEF Result, Goto, AnswerRight
<1>10. CASE Fetch
  <2>1. session.check_id \in Checks /\ session.check_id \in Accepted
    BY <1>1, <1>10 DEF Fetch, AnswerRight, Known, Session
  <2>2. session' = session /\ pc' = "show"
    BY <1>10 DEF Fetch
  <2>3. data' \in Answers(session.check_id) \/ data' = NoData
    BY <1>10 DEF Fetch, Fetched
  <2> DEFINE answer == data'
  <2>4. Shown(answer) # "none" /\ Truthful(session.check_id, Shown(answer))
    <3>1. CASE data' \in Answers(session.check_id)
      BY <2>1, <3>1, AnswersTyped DEF IInv, Shown, Unfinished, Terminal
    <3>2. CASE data' = NoData
      BY <2>1, <3>2 DEF Shown, Truthful
    <3> QED
      BY <2>3, <3>1, <3>2
  <2>5. session.check_id # None
    BY <2>1, ClientAssumption
  <2>6. UNCHANGED <<life, half>>
    BY <1>10 DEF Fetch, Unchanged, service
  <2>7. Shown(data)' # "none" /\ Truthful(session.check_id, Shown(data))'
    BY <2>2, <2>4, <2>6 DEF Truthful, Accepted, Shown
  <2> QED
    BY <2>2, <2>5, <2>7 DEF AnswerRight
<1>11. ASSUME NEW c \in Checks, Accepting(c) PROVE AnswerRight'
  <2>1. \/ UNCHANGED <<pc, session, data>>
        \/ pc' \in {"store", "result"}
    BY <1>11, AcceptingAccepts DEF Accepting, AcceptLate, PostAnswered, PostUnanswered, Goto, script
  <2> QED
    BY <1>2, <1>3, <2>1
<1>12. CASE (\E c \in Checks : ServiceStep(c)) \/ Restart
  BY <1>3, <1>12, BehindThePage
<1> QED
  BY <1>4, <1>5, <1>6, <1>7, <1>8, <1>9, <1>10, <1>11, <1>12, NextCases DEF Aside

\* The page sleeps for a check it shows unfinished, if it was told to.
LEMMA RefreshRightStep ==
  ASSUME IInv, Next
  PROVE  RefreshRight'
<1>1. RefreshRight /\ data \in [status : {"none"} \cup Unfinished \cup Terminal, payload : BOOLEAN]
  BY DEF IInv, TypeOK
<1>2. ASSUME pc' # "sleeping" PROVE RefreshRight'
  BY <1>2 DEF RefreshRight
<1>3. ASSUME UNCHANGED <<pc, page, auto, event>> PROVE RefreshRight'
  BY <1>1, <1>3 DEF RefreshRight
<1>4. CASE UserStep
  BY <1>2, <1>4, UserEffect
<1>5. CASE RemoveReference \/ SleepAndRerun \/ ForgetCheck
  BY <1>2, <1>5 DEF RemoveReference, SleepAndRerun, ForgetCheck, Rerun
<1>6. CASE StartNewCheck \/ ForgetCandidate \/ EndRun
  BY <1>2, <1>6 DEF StartNewCheck, ForgetCandidate, EndRun, Goto, Handled
<1>7. CASE SaveCandidate \/ AddReference \/ PassForms \/ Submit \/ PostFails \/ Result
  BY <1>2, <1>7
     DEF SaveCandidate, AddReference, PassForms, Submit, PostFails, Result, Handled, Goto
<1>8. CASE StoreCheckId \/ Fetch
  BY <1>2, <1>8 DEF StoreCheckId, Fetch
<1>9. CASE Show
  <2>1. CASE pc' = "sleeping"
    <3>1. Refreshing /\ page'.status = Shown(data) /\ UNCHANGED <<auto, event>>
      BY <1>9, <2>1 DEF Show, View
    <3>2. Shown(data) = data.status
      BY <3>1 DEF Refreshing, Shown, NoData, Answer, Unfinished
    <3> QED
      BY <3>1, <3>2 DEF Refreshing, RefreshRight
  <2> QED
    BY <1>2, <2>1
<1>10. ASSUME NEW c \in Checks, Accepting(c) PROVE RefreshRight'
  <2>1. \/ UNCHANGED <<pc, page, auto, event>>
        \/ pc' \in {"store", "result"}
    BY <1>10, AcceptingAccepts DEF Accepting, AcceptLate, PostAnswered, PostUnanswered, Goto, script
  <2> QED
    BY <1>2, <1>3, <2>1
<1>11. CASE (\E c \in Checks : ServiceStep(c)) \/ Restart
  BY <1>3, <1>11, BehindThePage
<1> QED
  BY <1>4, <1>5, <1>6, <1>7, <1>8, <1>9, <1>10, <1>11, NextCases DEF Aside

-----------------------------------------------------------------------------
(* The checks the session has no hold of *)

LEMMA OrphansStep ==
  ASSUME IInv, Next
  PROVE  OrphansHaveACause'
<1> DEFINE Held == {session.check_id, reply}
           Orphaned == \A c \in Accepted : c \in parted \cup Held
<1>1. /\ Orphaned /\ Known /\ session \in Session
      /\ reply # None => pc = "store"
  BY DEF IInv, TypeOK, Known, OrphansHaveACause, Accepted
<1>2. None \notin Accepted
  BY ClientAssumption DEF Accepted
<1>3. ASSUME \A c \in Accepted' : c \in parted' \cup {session'.check_id, reply'}
      PROVE  OrphansHaveACause'
  BY <1>3 DEF OrphansHaveACause, Accepted
<1>4. ASSUME Accepted' = Accepted,
             \A c \in Accepted : c \in parted \cup Held
                                    => c \in parted' \cup {session'.check_id, reply'}
      PROVE  OrphansHaveACause'
  BY <1>1, <1>3, <1>4
<1>5. Aside => Accepted' = Accepted
  BY AsideLeavesService DEF Accepted
<1>6. CASE Aside
  <2>1. Accepted' = Accepted
    BY <1>5, <1>6
  <2>2. ASSUME parted' = parted, session'.check_id = session.check_id,
               reply' \in {reply, None}, pc # "store" \/ reply' = reply
        PROVE  OrphansHaveACause'
    BY <1>1, <1>2, <1>4, <2>1, <2>2
  <2>3. CASE UserStep
    <3>1. reply' = None
      BY <2>3, UserEffect
    <3>2. CASE session' = session /\ Part({reply})
      BY <1>2, <1>4, <2>1, <3>2 DEF Part
    <3>3. CASE Part({session.check_id, reply})
      BY <1>2, <1>4, <2>1, <3>3 DEF Part
    <3> QED
      BY <2>3, <3>2, <3>3, UserEffect
  <2>4. CASE SaveCandidate
    BY <1>1, <2>2, <2>4 DEF SaveCandidate, Handled, Session
  <2>5. CASE AddReference
    <3>1. session'.check_id = session.check_id
      BY <1>1, <2>5 DEF AddReference, Session
    <3> QED
      BY <2>2, <2>5, <3>1 DEF AddReference, Handled
  <2>6. CASE RemoveReference
    <3>1. session'.check_id = session.check_id
      BY <1>1, <2>6 DEF RemoveReference, Session
    <3> QED
      BY <2>2, <2>6, <3>1 DEF RemoveReference, Rerun
  <2>7. CASE PassForms \/ Submit \/ Result \/ Fetch \/ EndRun
    BY <2>2, <2>7 DEF PassForms, Submit, Result, Fetch, EndRun, Handled, Goto
  <2>8. CASE PostFails
    BY <2>2, <2>8 DEF PostFails, AfterFailure, Goto
  <2>9. CASE StoreCheckId
    <3>1. session'.check_id = reply
      BY <1>1, <2>9 DEF StoreCheckId, Session
    <3> QED
      BY <1>2, <1>4, <2>1, <2>9, <3>1 DEF StoreCheckId, Part
  <2>10. CASE Show \/ SleepAndRerun
    BY <2>2, <2>10 DEF Show, SleepAndRerun, Rerun
  <2>11. CASE StartNewCheck \/ ForgetCandidate
    BY <1>1, <2>2, <2>11 DEF StartNewCheck, ForgetCandidate, Goto, Session
  <2>12. CASE ForgetCheck
    <3>1. session'.check_id = None /\ reply = None
      BY <1>1, <2>12 DEF ForgetCheck, Session
    <3> QED
      BY <1>2, <1>4, <2>1, <2>12, <3>1 DEF ForgetCheck, Part
  <2> QED
    BY <1>6, <2>3, <2>4, <2>5, <2>6, <2>7, <2>8, <2>9, <2>10, <2>11, <2>12 DEF Aside
<1>7. ASSUME NEW c \in Checks, Accepting(c) PROVE OrphansHaveACause'
  <2>1. Accepted' = Accepted \cup {c} /\ session' = session
    BY <1>7, AcceptingAccepts, AcceptEffect DEF IInv
  <2>2. CASE AcceptLate(c) \/ PostUnanswered(c)
    BY <1>1, <1>3, <2>1, <2>2 DEF AcceptLate, PostUnanswered, Goto, script
  <2>3. CASE PostAnswered(c)
    BY <1>1, <1>2, <1>3, <2>1, <2>3 DEF PostAnswered
  <2> QED
    BY <1>7, <2>2, <2>3 DEF Accepting
<1>8. CASE (\E c \in Checks : ServiceStep(c)) \/ Restart
  <2>1. Accepted' = Accepted
    BY <1>8, ServiceEffect, RestartEffect DEF IInv
  <2> QED
    BY <1>4, <1>8, <2>1, BehindThePage
<1> QED
  BY <1>6, <1>7, <1>8, NextCases

-----------------------------------------------------------------------------
(* Theorems *)

LEMMA StutterIInv ==
  ASSUME IInv, UNCHANGED vars
  PROVE  IInv'
<1>1. /\ UNCHANGED <<life, half, late, restarts, pc, event, index, meant, reply, data>>
      /\ UNCHANGED <<session, auto, listed, page, clicks, submits, parted>>
  BY DEF vars, service, script, shown
<1>2. TypeOK'
  BY <1>1 DEF IInv, TypeOK, Service!LifecycleTypeOK
<1>3. Accepted' = Accepted /\ Underway' = Underway
  BY <1>1 DEF Accepted, Underway
<1>4. Counted' /\ ButtonsFit' /\ ListRight' /\ Clearing' /\ Known' /\ RefreshRight'
  BY <1>1, <1>3 DEF IInv, Counted, ButtonsFit, ListRight, Clearing, Known, RefreshRight
<1>5. Shown(data)' = Shown(data)
  BY <1>1 DEF Shown
<1>6. PageRight' /\ AnswerRight'
  BY <1>1, <1>3, <1>5 DEF IInv, PageRight, AnswerRight, Truthful
<1>7. OrphansHaveACause'
  BY <1>1 DEF IInv, OrphansHaveACause
<1> QED
  BY <1>2, <1>4, <1>6, <1>7 DEF IInv

LEMMA StepIInv ==
  ASSUME IInv, [Next]_vars
  PROVE  IInv'
<1>1. CASE Next
  BY <1>1, TypeStep, CountedStep, ButtonsFitStep, ListRightStep, ClearingStep, KnownStep,
     PageRightStep, AnswerRightStep, RefreshRightStep, OrphansStep DEF IInv
<1>2. CASE UNCHANGED vars
  BY <1>2, StutterIInv
<1> QED
  BY <1>1, <1>2

\* The inductive invariant.
LEMMA Invariance == Spec => []IInv
  BY InitIInv, StepIInv, PTL DEF Spec

\* The session, the script and the page stay well-formed, in particular the
\* number of references, wherever a run is ended.
THEOREM Typing == Spec => []TypeOK
<1>1. IInv => TypeOK
  BY DEF IInv
<1> QED
  BY <1>1, Invariance, PTL

\* Reruns of the script never repeat a POST: the checks that exist, or still may
\* because a POST is open, do not outnumber the submissions.
THEOREM OneCheckEach == Spec => []OneCheckPerSubmission
<1>1. IInv => OneCheckPerSubmission
  <2> SUFFICES ASSUME IInv PROVE OneCheckPerSubmission
    OBVIOUS
  <2> DEFINE n == Cardinality(Accepted)
             posting == IF pc = "posting" THEN 1 ELSE 0
  <2>1. /\ n \in Nat /\ late \in Nat /\ submits \in Nat /\ Underway \in Nat
        /\ posting \in Nat /\ posting <= Underway
        /\ n + late + Underway <= submits
    BY FS_CardinalityType DEF IInv, TypeOK, Counted, Underway
  <2>2. \A m, l, u, p, s \in Nat : m + l + u <= s /\ p <= u => m + l + p <= s
    OBVIOUS
  <2> HIDE DEF n, posting
  <2>3. n + late + posting <= submits
    BY <2>1, <2>2
  <2> QED
    BY <2>3 DEF OneCheckPerSubmission, Accepted, n, posting
<1> QED
  BY <1>1, Invariance, PTL

\* The page at rest is about the check of the session, and what it ever shows as
\* the outcome of a check is its outcome, unless a restart has lost it since.
THEOREM PageIsTruthful == Spec => []PageTruthful
<1>1. IInv => PageTruthful
  BY DEF IInv, PageRight, PageTruthful, Truthful, Accepted
<1> QED
  BY <1>1, Invariance, PTL

\* A check nobody polls for was parted with in one of the ways that are counted.
THEOREM OrphansExplained == Spec => []OrphansHaveACause
<1>1. IInv => OrphansHaveACause
  BY DEF IInv
<1> QED
  BY <1>1, Invariance, PTL

\* "Start a new check" is handled unless another click, a traceback or the
\* auto-refresh of an unfinished check gets in between.
THEOREM NewCheckHandled == Spec => NewCheckLostOnlyToRefresh
<1> DEFINE Excused == \/ session' = EmptySession
                      \/ clicks' # clicks
                      \/ page'.status = "exception"
                      \/ auto /\ page.status \in Unfinished
<1>1. ASSUME IInv, Next, event = "new", event' # "new" PROVE Excused
  <2>1. CASE UserStep
    <3>1. clicks' = clicks + 1 /\ clicks \in Nat
      BY <1>1, <2>1, UserEffect DEF IInv, TypeOK
    <3> QED
      BY <3>1
  <2>2. CASE SaveCandidate \/ AddReference \/ RemoveReference \/ PassForms \/ Submit
    BY <1>1, <2>2 DEF SaveCandidate, AddReference, RemoveReference, Removing, PassForms,
                      Submit, Submitting, Goto
  <2>3. CASE PostFails \/ StoreCheckId \/ Result \/ Fetch
    BY <1>1, <2>3 DEF PostFails, StoreCheckId, Result, Fetch, Goto
  <2>4. CASE Show
    BY <1>1, <2>4 DEF Show
  <2>5. CASE SleepAndRerun
    BY <1>1, <2>5 DEF SleepAndRerun, IInv, RefreshRight
  <2>6. CASE StartNewCheck \/ ForgetCandidate \/ EndRun
    BY <1>1, <2>6 DEF StartNewCheck, ForgetCandidate, EndRun, Goto
  <2>7. CASE ForgetCheck
    <3>1. session \in Session /\ session.references = <<>> /\ ~session.candidate
      BY <1>1, <2>7 DEF ForgetCheck, IInv, TypeOK, Clearing
    <3>2. session' = [session EXCEPT !.check_id = None]
      BY <2>7 DEF ForgetCheck
    <3> QED
      BY <3>1, <3>2 DEF Session, EmptySession
  <2>8. ASSUME NEW c \in Checks, Accepting(c) PROVE FALSE
    BY <1>1, <2>8, AcceptingAccepts
  <2>9. CASE (\E c \in Checks : ServiceStep(c)) \/ Restart
    BY <1>1, <2>9, BehindThePage
  <2> QED
    BY <1>1, <2>1, <2>2, <2>3, <2>4, <2>5, <2>6, <2>7, <2>8, <2>9, NextCases DEF Aside
<1>2. IInv /\ [Next]_vars => [event = "new" /\ event' # "new" => Excused]_vars
  BY <1>1
<1> QED
  BY <1>2, Invariance, PTL DEF Spec, NewCheckLostOnlyToRefresh

\* A "Remove" clicked on a page at rest takes the reference it stood beside: the
\* session has not changed since the list was drawn.
THEOREM RemovalAsMeant == Spec => RemovesWhatWasMeant
<1> DEFINE Removed == \E i \in DOMAIN session.references :
                         /\ session.references[i] = meant
                         /\ session'.references = RemoveAt(session.references, i)
<1>1. ASSUME IInv, Next, event = "remove", event' # "remove", clicks' = clicks, meant # None
      PROVE  Removed
  <2>1. /\ index \in DOMAIN session.references /\ session.references[index] = meant
        /\ session \in Session /\ pc = "top"
    BY <1>1 DEF IInv, TypeOK, ListRight, ButtonsFit
  <2>2. CASE UserStep
    <3>1. clicks' = clicks + 1 /\ clicks \in Nat
      BY <1>1, <2>2, UserEffect DEF IInv, TypeOK
    <3> QED
      BY <1>1, <3>1
  <2>3. CASE RemoveReference
    <3>1. session'.references = RemoveAt(session.references, index)
      BY <2>1, <2>3 DEF RemoveReference, Session
    <3> QED
      BY <2>1, <3>1
  <2>4. CASE SaveCandidate \/ AddReference \/ PassForms \/ Submit
    BY <1>1, <2>1, <2>4
       DEF SaveCandidate, AddReference, PassForms, Submit, Submitting, Removing
  <2>5. CASE PostFails \/ StoreCheckId \/ Result \/ Fetch \/ Show \/ SleepAndRerun
    BY <2>1, <2>5 DEF PostFails, StoreCheckId, Result, Fetch, Show, SleepAndRerun
  <2>6. CASE StartNewCheck \/ ForgetCandidate \/ ForgetCheck \/ EndRun
    BY <2>1, <2>6 DEF StartNewCheck, ForgetCandidate, ForgetCheck, EndRun
  <2>7. ASSUME NEW c \in Checks, Accepting(c) PROVE FALSE
    BY <1>1, <2>7, AcceptingAccepts
  <2>8. CASE (\E c \in Checks : ServiceStep(c)) \/ Restart
    BY <1>1, <2>8, BehindThePage
  <2> QED
    BY <1>1, <2>2, <2>3, <2>4, <2>5, <2>6, <2>7, <2>8, NextCases DEF Aside
<1>2. IInv /\ [Next]_vars =>
        [event = "remove" /\ event' # "remove" /\ clicks' = clicks /\ meant # None
            => Removed]_vars
  BY <1>1
<1> QED
  BY <1>2, Invariance, PTL DEF Spec, RemovesWhatWasMeant

-----------------------------------------------------------------------------
(* The service behind the page *)

\* What happens between the page and the service, lost answers and late POSTs
\* included, keeps the promise of CheckLifecycle.
THEOREM ServiceKept == Spec => Service!Spec
<1>1. Init => Service!Init
  BY DEF Init
<1>2. ASSUME Next PROVE Service!Next \/ UNCHANGED life
  <2>1. CASE Aside
    BY <2>1, AsideLeavesService
  <2>2. ASSUME NEW c \in Checks, Accepting(c) PROVE Service!Next
    BY <2>2, AcceptingAccepts DEF Accept, Service!Next
  <2>3. ASSUME NEW c \in Checks, ServiceStep(c) PROVE Service!Next \/ UNCHANGED life
    BY <2>3 DEF ServiceStep, WriteStatus, WritePayload, Service!Next, Service!Finish
  <2>4. CASE Restart
    BY <2>4 DEF Restart, Service!Next
  <2> QED
    BY <1>2, <2>1, <2>2, <2>3, <2>4, NextCases
<1>3. [Next]_vars => [Service!Next]_life
  BY <1>2 DEF vars, service
<1> QED
  BY <1>1, <1>3, PTL DEF Spec, Service!Spec
=============================================================================
