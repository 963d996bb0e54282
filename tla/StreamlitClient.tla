-------------------------- MODULE StreamlitClient --------------------------
(***************************************************************************)
(* One browser session of streamlit_app.py and the REST service behind it. *)
(*                                                                         *)
(* Streamlit (external, with its default runner.fastReruns) runs the script*)
(* from top to bottom on every click, at once: the run under way is told   *)
(* to stop, which it does at its next st.* call or session_state access.   *)
(* One that is blocked in requests.* or time.sleep dies as soon as that    *)
(* call returns, without having used its answer.  A button is True in the  *)
(* one run its click started; st.rerun() starts a run in which no button   *)
(* is.  What the user loaded last is one session: reloading the page       *)
(* starts an empty one.                                                    *)
(*                                                                         *)
(* The service is CheckLifecycle, except that a status may already be      *)
(* written when its payload is not (CheckService!SetStatus).               *)
(***************************************************************************)
EXTENDS Naturals, FiniteSets, SequencesExt, Validation

CONSTANTS Checks,         \* identifiers, numbered in the order the service draws them
          FormInputs,     \* what the user may type into the reference form
          MaxReferences,  \* bound: references of a session
          MaxClicks,      \* bound: clicks and reloads
          MaxRestarts     \* bound: restarts of the service

ASSUME ClientAssumption ==
    /\ Checks \subseteq Nat /\ None \notin Nat
    /\ {MaxReferences, MaxClicks, MaxRestarts} \subseteq Nat
    \* so that a POST of the page is never answered with 400
    /\ \A ref \in FormInputs : FormAccepts(ref) => ShapeValid(ref)

VARIABLES life,      \* the checks, see CheckLifecycle
          half,      \* half[c]: the status of c that is written without its payload
          late,      \* POSTs the page has given up that may still be accepted
          session,   \* st.session_state: candidate, references, check_id
          auto,      \* the checkbox "Auto-refresh every 3s until done"
          pc,        \* where the script is
          event,     \* the button of this run, until the script has come to it
          index,     \* which of the "Remove" buttons it is, or 0
          reply,     \* the check_id of a 202 the script has received, not stored
          data,      \* the answer of this run's GET
          listed,    \* the references section 2 of the page lists
          page,      \* what section 4, "Result", shows
          meant,     \* history: the reference beside the "Remove" that was clicked
          clicks,    \* history: clicks and reloads so far
          submits,   \* history: runs started by "Submit reference check"
          parted,    \* history: accepted checks the session never knew or has left
          restarts   \* history: restarts of the service

service == <<life, half, late, restarts>>
script == <<pc, event, index, meant, reply, data>>
shown == <<listed, page>>
vars == <<service, script, session, auto, shown, clicks, submits, parted>>

Service == INSTANCE CheckLifecycle

-----------------------------------------------------------------------------
Terminal == {"completed", "failed"}

Unfinished == {"queued", "running"}

Buttons == {"save", "add", "remove", "submit", "refresh", "toggle", "new"}

\* "posting", "fetching" and "sleeping" block; at the others the script is
\* about to call st. or to write to the session.
Points == {"idle", "top", "posting", "store", "result", "fetching", "show", "sleeping",
           "bottom", "forget_candidate", "forget_check"}

\* A reference is known by the click that added it.
Session == [candidate : BOOLEAN, references : Seq(Nat), check_id : Checks \cup {None}]

EmptySession == [candidate |-> FALSE, references |-> <<>>, check_id |-> None]

\* payload: the result of a completed check, or the error of a failed one.
Answer(status, payload) == [status |-> status, payload |-> payload]

NoData == Answer("none", FALSE)

View(id, status) == [id |-> id, status |-> status]

NoPage == View(None, "none")

TypeOK ==
    /\ Service!LifecycleTypeOK
    /\ half \in [Checks -> {"none"} \cup Terminal]
    /\ late \in 0..MaxClicks
    /\ session \in Session /\ Len(session.references) <= MaxReferences
    /\ listed \in Seq(Nat)
    /\ auto \in BOOLEAN
    /\ pc \in Points
    /\ event \in Buttons \cup {"none"} /\ index \in Nat /\ meant \in Nat \cup {None}
    /\ reply \in Checks \cup {None}
    /\ data \in [status : {"none"} \cup Unfinished \cup Terminal, payload : BOOLEAN]
    /\ \/ page = NoPage
       \/ /\ page.id \in Checks
          /\ page.status \in {"fetch_error", "exception"} \cup Unfinished \cup Terminal
    /\ clicks \in 0..MaxClicks /\ submits \in 0..MaxClicks /\ restarts \in 0..MaxRestarts
    /\ parted \subseteq Checks

\* The page is loaded and its first run begins; or the user has already entered
\* a candidate and references (which saves clicks).
Init ==
    /\ Service!Init
    /\ half = [c \in Checks |-> "none"]
    /\ late = 0 /\ clicks = 0 /\ submits = 0 /\ restarts = 0
    /\ \E n \in 0..MaxReferences :
         session = [candidate |-> n > 0, references |-> [i \in 1..n |-> MaxClicks + i],
                    check_id |-> None]
    /\ auto = FALSE
    /\ pc = "top" /\ event = "none" /\ index = 0 /\ meant = None
    /\ reply = None /\ data = NoData /\ page = NoPage /\ listed = <<>>
    /\ parted = {}

-----------------------------------------------------------------------------
(* The service *)

\* submit_check draws a new identifier.
Accept(c) ==
    /\ Service!Accept(c)
    /\ \A d \in Checks : d < c => life[d].status # "absent"

WriteStatus(c) ==
    /\ life[c].status = "running" /\ half[c] = "none"
    /\ \E s \in Terminal : half' = [half EXCEPT ![c] = s]
    /\ UNCHANGED life

WritePayload(c) ==
    /\ \/ half[c] = "completed" /\ Service!Complete(c)
       \/ half[c] = "failed" /\ Service!Fail(c)
    /\ half' = [half EXCEPT ![c] = "none"]

ServiceStep(c) ==
    /\ \/ Service!Start(c) /\ UNCHANGED half
       \/ WriteStatus(c)
       \/ WritePayload(c)
    /\ UNCHANGED <<script, late, restarts, session, auto, shown, clicks, submits, parted>>

\* A POST the page no longer waits for is accepted after all: its 30 seconds
\* are over, or a click has ended its run.
AcceptLate(c) ==
    /\ late > 0
    /\ Accept(c)
    /\ late' = late - 1
    /\ parted' = parted \cup {c}
    /\ UNCHANGED <<script, half, restarts, session, auto, shown, clicks, submits>>

Restart ==
    /\ restarts < MaxRestarts
    /\ restarts' = restarts + 1
    /\ Service!Restart
    /\ half' = [c \in Checks |-> "none"]
    /\ late' \in 0..late
    /\ UNCHANGED <<script, session, auto, shown, clicks, submits, parted>>

-----------------------------------------------------------------------------
(* The user *)

Part(checks) == parted' = parted \cup (checks \ {None})

\* What the user does ends the run under way and starts another.  A POST that is
\* under way goes on without it; a check_id it was about to store is lost.
Begin ==
    /\ clicks < MaxClicks
    /\ clicks' = clicks + 1
    /\ late' = IF pc = "posting" THEN late + 1 ELSE late
    /\ pc' = "top" /\ reply' = None /\ data' = NoData
    /\ UNCHANGED <<life, half, restarts>>

\* Buttons of a page that is being redrawn can still be clicked.
Clickable(b) ==
    CASE b = "add" -> Len(session.references) < MaxReferences
      [] b \in {"refresh", "toggle"} -> session.check_id # None
      [] b = "new" -> page.status # "exception"
      [] OTHER -> TRUE

Click(b) ==
    /\ Clickable(b)
    /\ Begin
    /\ event' = (IF b = "toggle" THEN "none" ELSE b) /\ index' = 0 /\ meant' = None
    /\ auto' = IF b = "toggle" THEN ~auto ELSE auto
    /\ submits' = IF b = "submit" THEN submits + 1 ELSE submits
    /\ Part({reply})
    /\ UNCHANGED <<session, shown>>

\* "Remove" beside the i-th reference of the list.  While the list is being
\* redrawn nobody can tell which reference that is.
ClickRemove(i) ==
    /\ Begin
    /\ event' = "remove" /\ index' = i
    /\ meant' = IF pc = "idle" THEN listed[i] ELSE None
    /\ Part({reply})
    /\ UNCHANGED <<session, auto, shown, submits>>

Reload ==
    /\ Begin
    /\ event' = "none" /\ index' = 0 /\ meant' = None
    /\ Part({session.check_id, reply})
    /\ session' = EmptySession
    /\ auto' = FALSE
    /\ listed' = <<>> /\ page' = NoPage
    /\ UNCHANGED submits

UserStep ==
    \/ \E b \in Buttons \ {"remove"} : Click(b)
    \/ \E i \in DOMAIN listed : ClickRemove(i)
    \/ Reload

-----------------------------------------------------------------------------
(* Runs of the script *)

Goto(p) == pc' = p /\ UNCHANGED <<event, index, meant, reply, data>>

\* The button of this run has been handled.
Handled(p) ==
    /\ pc' = p /\ event' = "none" /\ index' = 0 /\ meant' = None
    /\ UNCHANGED <<reply, data>>

\* st.rerun(): from the top, with no button pressed.
Rerun ==
    /\ pc' = "top" /\ event' = "none" /\ index' = 0 /\ meant' = None
    /\ reply' = None /\ data' = NoData

Unchanged == UNCHANGED <<service, clicks, submits>>

\* Section 2 lists the references the session has by then.
ListReferences == listed' = session'.references

SaveCandidate ==
    /\ pc = "top" /\ event = "save"
    /\ \E complete \in BOOLEAN :
         session' = IF complete THEN [session EXCEPT !.candidate = TRUE] ELSE session
    /\ ListReferences
    /\ Handled("result")
    /\ UNCHANGED <<auto, page, parted>> /\ Unchanged

AddReference ==
    /\ pc = "top" /\ event = "add"
    /\ \E ref \in FormInputs, named \in BOOLEAN :
         session' = IF named /\ FormAccepts(ref)
                    THEN [session EXCEPT !.references = Append(@, clicks)] ELSE session
    /\ ListReferences
    /\ Handled("result")
    /\ UNCHANGED <<auto, page, parted>> /\ Unchanged

\* The button exists only as long as the session has that many references.
Removing == event = "remove" /\ index \in DOMAIN session.references

\* Faulty variant of RemoveReference: without st.rerun(), the list above stays
\* as it was drawn.
RemoveReferenceQuietly ==
    /\ pc = "top" /\ Removing
    /\ session' = [session EXCEPT !.references = RemoveAt(@, index)]
    /\ Handled("result")
    /\ UNCHANGED <<auto, shown, parted>> /\ Unchanged

\* The run ends above the checkbox, which may therefore lose its state.
RemoveReference ==
    /\ pc = "top" /\ Removing
    /\ session' = [session EXCEPT !.references = RemoveAt(@, index)]
    /\ Rerun
    /\ auto' \in {auto, FALSE}
    /\ UNCHANGED <<shown, parted>> /\ Unchanged

Ready == session.candidate /\ session.references # <<>>

\* Faulty variant of Submitting: a session that is ready submits by itself.
SubmittingWhenReady == (event = "submit" \/ session.check_id = None) /\ Ready

Submitting == event = "submit" /\ Ready

Submit ==
    /\ pc = "top" /\ Submitting
    /\ UNCHANGED session /\ ListReferences
    /\ Handled("posting")
    /\ UNCHANGED <<auto, page, parted>> /\ Unchanged

\* None of these buttons, or one with nothing to act on.
PassForms ==
    /\ pc = "top" /\ ~Submitting /\ ~Removing /\ event \notin {"save", "add"}
    /\ UNCHANGED session /\ ListReferences
    /\ IF event \in {"remove", "submit"} THEN Handled("result") ELSE Goto("result")
    /\ UNCHANGED <<auto, page, parted>> /\ Unchanged

PostAnswered(c) ==
    /\ pc = "posting"
    /\ Accept(c)
    /\ pc' = "store" /\ reply' = c
    /\ UNCHANGED <<half, late, restarts, event, index, meant, data, session, auto, shown,
                   clicks, submits, parted>>

\* The service accepts the check, its answer does not arrive.
PostUnanswered(c) ==
    /\ pc = "posting"
    /\ Accept(c)
    /\ parted' = parted \cup {c}
    /\ Goto("result")
    /\ UNCHANGED <<half, late, restarts, session, auto, shown, clicks, submits>>

\* Faulty variant of AfterFailure: the session forgets its previous check.
Forgetting == [session EXCEPT !.check_id = None]

AfterFailure == session

\* Refused, or not answered in 30 seconds and perhaps still to be accepted: the
\* page says that the submission failed and keeps the check it had.
PostFails ==
    /\ pc = "posting"
    /\ late' \in {late, late + 1}
    /\ session' = AfterFailure
    /\ Goto("result")
    /\ UNCHANGED <<life, half, restarts, auto, shown, parted, clicks, submits>>

StoreCheckId ==
    /\ pc = "store"
    /\ session' = [session EXCEPT !.check_id = reply]
    /\ Part({session.check_id})
    /\ pc' = "result" /\ reply' = None
    /\ UNCHANGED <<event, index, meant, data, auto, shown>> /\ Unchanged

\* Section 4 is there only when the session has a check; with it, the
\* checkbox comes and goes.
Result ==
    /\ pc = "result"
    /\ IF session.check_id = None
       THEN Goto("bottom") /\ page' = NoPage /\ auto' = FALSE
       ELSE Goto("fetching") /\ UNCHANGED <<page, auto>>
    /\ UNCHANGED <<session, listed, parted>> /\ Unchanged

\* What get_check may answer for c (CheckService).
Answers(c) ==
    CASE life[c].status \in Unfinished ->
            {Answer(life[c].status, FALSE)}
            \cup {Answer(s, FALSE) : s \in {half[c]} \cap Terminal}
      [] life[c].status \in Terminal -> {Answer(life[c].status, TRUE)}
      [] OTHER -> {}

\* Answered, or not: 404 for a lost check, or any failure of the request.
Fetched == Answers(session.check_id) \cup {NoData}

Fetch ==
    /\ pc = "fetching"
    /\ pc' = "show"
    /\ data' \in Fetched
    /\ UNCHANGED <<event, index, meant, reply, session, auto, shown, parted>> /\ Unchanged

\* Faulty variants of Shown: data.get("result") is rendered, whatever it is; a
\* request that failed leaves no message.
ShownLeniently(answer) == IF answer = NoData THEN "fetch_error" ELSE answer.status

ShownSilently(answer) ==
    IF answer = Answer("completed", FALSE) THEN "exception" ELSE answer.status

\* data["result"] of a completed check is subscripted: None raises.  A failed
\* one is shown with data.get("error"), be it None.
Shown(answer) ==
    IF answer = NoData THEN "fetch_error"
    ELSE IF answer = Answer("completed", FALSE) THEN "exception"
    ELSE answer.status

\* Faulty variants of Refreshing: always; only for a check that is running.
RefreshingAlways == data.status \in Unfinished

RefreshingRunning == data.status = "running" /\ (auto \/ event = "refresh")

Refreshing == data.status \in Unfinished /\ (auto \/ event = "refresh")

Show ==
    /\ pc = "show"
    /\ page' = View(session.check_id, Shown(data))
    /\ IF page'.status = "exception"
       THEN pc' = "idle" /\ event' = "none"
       ELSE pc' = (IF Refreshing THEN "sleeping" ELSE "bottom") /\ UNCHANGED event
    /\ data' = NoData
    /\ UNCHANGED <<index, meant, reply, session, listed, auto, parted>> /\ Unchanged

\* time.sleep(3), st.rerun(): the button below is not reached.
SleepAndRerun ==
    /\ pc = "sleeping"
    /\ Rerun
    /\ UNCHANGED <<session, auto, shown, parted>> /\ Unchanged

\* Three writes to the session; a click between two of them leaves the rest.
StartNewCheck ==
    /\ pc = "bottom" /\ event = "new"
    /\ session' = [session EXCEPT !.references = <<>>]
    /\ Goto("forget_candidate")
    /\ UNCHANGED <<auto, shown, parted>> /\ Unchanged

ForgetCandidate ==
    /\ pc = "forget_candidate"
    /\ session' = [session EXCEPT !.candidate = FALSE]
    /\ Goto("forget_check")
    /\ UNCHANGED <<auto, shown, parted>> /\ Unchanged

ForgetCheck ==
    /\ pc = "forget_check"
    /\ session' = [session EXCEPT !.check_id = None]
    /\ Part({session.check_id})
    /\ Rerun
    /\ UNCHANGED <<auto, shown>> /\ Unchanged

EndRun ==
    /\ pc = "bottom" /\ event # "new"
    /\ Handled("idle")
    /\ UNCHANGED <<session, auto, shown, parted>> /\ Unchanged

ScriptStep ==
    \/ SaveCandidate \/ AddReference \/ RemoveReference \/ PassForms
    \/ Submit \/ (\E c \in Checks : PostAnswered(c) \/ PostUnanswered(c)) \/ PostFails
    \/ StoreCheckId \/ Result \/ Fetch \/ Show \/ SleepAndRerun
    \/ StartNewCheck \/ ForgetCandidate \/ ForgetCheck \/ EndRun

Next ==
    \/ ScriptStep
    \/ Restart
    \/ UserStep
    \/ \E c \in Checks : ServiceStep(c) \/ AcceptLate(c)

Spec == Init /\ [][Next]_vars

\* The script runs on: its requests have timeouts and its sleep ends.  The
\* service keeps the promise of CheckService!EveryCheckSettles.  Nothing is
\* owed by the user, nor by requests the page has given up.
FairSpec == Spec /\ WF_vars(ScriptStep) /\ \A c \in Checks : WF_vars(ServiceStep(c))

-----------------------------------------------------------------------------
(* Properties *)

\* No check without a click on "Submit reference check" of its own: reruns,
\* of which there is one per click and one per refresh, never repeat the POST,
\* and a POST whose run a click has ended is not made up for by another.
OneCheckPerSubmission ==
    Cardinality({c \in Checks : life[c].status # "absent"}) + late
        + (IF pc = "posting" THEN 1 ELSE 0) <= submits

\* What the page shows belongs to the check of the session, and an outcome it
\* shows is the outcome of that check, however old the answer: runs ended by
\* clicks, reloads, torn answers and restarts never leave another check's, or
\* one that can still change.
PageTruthful ==
    /\ pc = "idle" => page.id = session.check_id
    /\ page.id # None =>
         LET status == life[page.id].status IN
         /\ status # "absent"
         /\ page.status = "running" => status # "queued"
         /\ page.status = "completed" => status \in {"completed", "lost"}
         /\ page.status = "failed" =>
               status \in {"failed", "lost"} \/ half[page.id] = "failed"

\* A check that runs without the page knowing it has a parted: its 202 did not
\* arrive, a click ended the run that had it or was waiting for it, or the user
\* went on to another check.  A submission that fails does not lose the check
\* before it.
OrphansHaveACause ==
    \A c \in Checks : life[c].status # "absent" /\ c \notin {session.check_id, reply} =>
        c \in parted

\* A click on "Start a new check" is lost only to another click, to a page
\* that ends in a traceback, or to auto-refresh waiting for an unfinished
\* check, which reruns the script before it reaches that button.
NewCheckLostOnlyToRefresh ==
    [][event = "new" /\ event' # "new" =>
          \/ session' = EmptySession
          \/ clicks' # clicks
          \/ page'.status = "exception"
          \/ auto /\ page.status \in Unfinished]_vars

\* The buttons "Remove" are known by their place in the list.  One clicked on a
\* page at rest takes away the reference it stands beside, and no other,
\* whatever was added, removed or cleared before; only on a page that is being
\* redrawn can it take the one that has moved to its place.
RemovesWhatWasMeant ==
    [][event = "remove" /\ event' # "remove" /\ clicks' = clicks /\ meant # None =>
          \E i \in DOMAIN session.references :
              /\ session.references[i] = meant
              /\ session'.references = RemoveAt(session.references, i)]_vars

\* Auto-refresh goes on until the check of the session is shown as ended, a
\* GET fails, the page ends in a traceback, or the user goes on: an unfinished
\* check is never left on display.
RefreshEnds ==
    \A c \in Checks : (auto /\ session.check_id = c) ~>
        \/ page.id = c /\ page.status \in Terminal \cup {"fetch_error", "exception"}
        \/ ~auto \/ session.check_id # c
=============================================================================
