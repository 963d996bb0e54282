---------------------------- MODULE CheckService ----------------------------
(***************************************************************************)
(* The REST service of refcheck/api: InMemoryCheckStore (store.py), the    *)
(* endpoints submit_check and get_check (main.py) and the background task  *)
(* run_check (runner.py), all run by threads of one bounded thread pool    *)
(* (FastAPI runs sync endpoints and sync background tasks in it).          *)
(*                                                                         *)
(* The store's lock covers the dictionary lookup and the writes of         *)
(* _update, but get() returns the live record: get_check reads its fields  *)
(* one after the other with no lock, while _update assigns status and      *)
(* result (or error) one after the other.  Each attribute access is a step *)
(* here, so that every interleaving of the two is explored.                *)
(*                                                                         *)
(* How the graph computes a result is the subject of CandidateGraph; here  *)
(* app.invoke returns or raises, whichever.                                *)
(***************************************************************************)
EXTENDS Naturals, FiniteSets

CONSTANTS Checks,       \* check identifiers (uuid4: never drawn twice)
          Pollers,      \* clients of GET /api/v1/checks/{check_id}
          MaxThreads,   \* tokens of the thread pool
          MaxCrashes,   \* bound: restarts of the process explored
          Free,         \* the value of the lock when nobody holds it
          None          \* Python's None

ASSUME ThreadsAssumption == MaxThreads \in Nat \ {0} /\ MaxCrashes \in Nat
ASSUME SentinelAssumption == Free \notin Checks /\ None \notin Checks

VARIABLES records,    \* store._records: check id -> CheckRecord
          lock,       \* store._lock: Free, or the check whose task holds it
          task,       \* control point of submit_check / run_check of a check
          outcome,    \* what app.invoke did: "none", "completed" or "failed"
          poll,       \* the GET in progress of each poller
          answer,     \* the last answer each poller received
          posted,     \* the payload posted to the callback URL of a check
          issued,     \* check ids whose 202 response has been sent
          lost,       \* check ids forgotten by a restart
          crashes     \* number of restarts so far

vars == <<records, lock, task, outcome, poll, answer, posted, issued, lost, crashes>>

-----------------------------------------------------------------------------
(* Records and control points *)

RecordStatuses == {"absent", "queued", "running", "completed", "failed"}

Terminal == {"completed", "failed"}

\* "absent" stands for an identifier that is not a key of _records.
CheckRecord == [status : RecordStatuses,
                result : Checks \cup {None},
                error  : Checks \cup {None},
                callback : BOOLEAN]

Absent == [status |-> "absent", result |-> None, error |-> None, callback |-> FALSE]

\* Faulty variant of NewRecord: create() does not put it in the store.
NewRecordUnstored(cb) == Absent

\* CheckRecord's defaults, with or without a callback_url.
NewRecord(cb) == [status |-> "queued", result |-> None, error |-> None, callback |-> cb]

\* submit_check holds a thread in "created"; run_check waits for one in
\* "scheduled" and holds it from "mark_running" to "callback".
RunSteps == {"mark_running", "set_running", "end_running", "invoke", "mark_done",
             "set_done", "set_payload", "end_done", "lookup", "callback"}

TaskSteps == RunSteps \cup {"none", "created", "scheduled", "done"}

\* Inside the "with self._lock" of _update.
Updating == {"set_running", "end_running", "set_done", "set_payload", "end_done"}

PollSteps == {"idle", "get", "status", "result", "error", "reply"}

NoAnswer == [id |-> None, code |-> 0, view |-> Absent]

IdlePoll == [pc |-> "idle", id |-> None, view |-> Absent, atStart |-> Absent]

BusyThreads == Cardinality({c \in Checks : task[c] \in RunSteps \cup {"created"}})
               + Cardinality({p \in Pollers : poll[p].pc # "idle"})

ThreadFree == BusyThreads < MaxThreads

\* A record nobody is in the middle of writing.
Settled(c) == records[c].status \in Terminal /\ task[c] # "set_payload"

-----------------------------------------------------------------------------
TypeOK ==
    /\ records \in [Checks -> CheckRecord]
    /\ lock \in Checks \cup {Free}
    /\ task \in [Checks -> TaskSteps]
    /\ outcome \in [Checks -> {"none"} \cup Terminal]
    /\ poll \in [Pollers -> [pc : PollSteps, id : Checks \cup {None},
                             view : CheckRecord, atStart : CheckRecord]]
    /\ answer \in [Pollers -> [id : Checks \cup {None}, code : {0, 200, 404},
                               view : CheckRecord]]
    /\ posted \in [Checks -> CheckRecord]
    /\ issued \subseteq Checks
    /\ lost \subseteq Checks
    /\ crashes \in 0..MaxCrashes

Init ==
    /\ records = [c \in Checks |-> Absent]
    /\ lock = Free
    /\ task = [c \in Checks |-> "none"]
    /\ outcome = [c \in Checks |-> "none"]
    /\ poll = [p \in Pollers |-> IdlePoll]
    /\ answer = [p \in Pollers |-> NoAnswer]
    /\ posted = [c \in Checks |-> Absent]
    /\ issued = {}
    /\ lost = {}
    /\ crashes = 0

-----------------------------------------------------------------------------
(* POST /api/v1/checks.  Requests that fail validation answer 400 before   *)
(* they touch the store and are left out.                                  *)

\* store.create and background_tasks.add_task, in one step: the dictionary
\* is touched only under the lock, and nobody knows the identifier yet.
Submit(c, cb) ==
    /\ task[c] = "none" /\ c \notin lost
    /\ ThreadFree
    /\ lock = Free
    /\ records' = [records EXCEPT ![c] = NewRecord(cb)]
    /\ task' = [task EXCEPT ![c] = "created"]
    /\ UNCHANGED <<lock, outcome, poll, answer, posted, issued, lost, crashes>>

\* The 202 response leaves; only then does FastAPI schedule run_check, and
\* the handler's thread goes back to the pool.
Respond(c) ==
    /\ task[c] = "created"
    /\ task' = [task EXCEPT ![c] = "scheduled"]
    /\ issued' = issued \cup {c}
    /\ UNCHANGED <<records, lock, outcome, poll, answer, posted, lost, crashes>>

-----------------------------------------------------------------------------
(* run_check *)

\* Faulty variants of FirstStep: without mark_running; without the graph.
FirstStepUnmarked == "invoke"

FirstStepUnrun == "mark_done"

FirstStep == "mark_running"

StartTask(c) ==
    /\ task[c] = "scheduled"
    /\ ThreadFree
    /\ task' = [task EXCEPT ![c] = FirstStep]
    /\ UNCHANGED <<records, lock, outcome, poll, answer, posted, issued, lost, crashes>>

Lockable == lock = Free

\* Entry of _update: take the lock and look the record up.  A missing record
\* makes _update return at once, leaving the caller after the call.
BeginUpdate(c) ==
    /\ task[c] \in {"mark_running", "mark_done"}
    /\ Lockable
    /\ IF records[c].status = "absent"
       THEN /\ task' = [task EXCEPT ![c] = IF task[c] = "mark_running" THEN "invoke"
                                                                       ELSE "lookup"]
            /\ UNCHANGED lock
       ELSE /\ task' = [task EXCEPT ![c] = IF task[c] = "mark_running" THEN "set_running"
                                                                       ELSE "set_done"]
            /\ lock' = c
    /\ UNCHANGED <<records, outcome, poll, answer, posted, issued, lost, crashes>>

\* First setattr of _update: kwargs starts with status.
SetStatus(c) ==
    /\ \/ /\ task[c] = "set_running"
          /\ records' = [records EXCEPT ![c].status = "running"]
          /\ task' = [task EXCEPT ![c] = "end_running"]
       \/ /\ task[c] = "set_done"
          /\ records' = [records EXCEPT ![c].status = outcome[c]]
          /\ task' = [task EXCEPT ![c] = "set_payload"]
    /\ UNCHANGED <<lock, outcome, poll, answer, posted, issued, lost, crashes>>

\* Second setattr: result for mark_completed, error for mark_failed.
SetPayload(c) ==
    /\ task[c] = "set_payload"
    /\ records' = IF outcome[c] = "completed"
                  THEN [records EXCEPT ![c].result = c]
                  ELSE [records EXCEPT ![c].error = c]
    /\ task' = [task EXCEPT ![c] = "end_done"]
    /\ UNCHANGED <<lock, outcome, poll, answer, posted, issued, lost, crashes>>

\* Faulty variant of Released: the lock is kept.
ReleasedNever == lock

Released == Free

\* Faulty variant of AfterUpdate: the callback is sent before the graph is run.
AfterUpdateEarly(c) == "lookup"

AfterUpdate(c) == IF task[c] = "end_running" THEN "invoke" ELSE "lookup"

\* Faulty variant of EndUpdate: mark_failed follows a mark_completed (a logging
\* call that raises inside the try block).
EndUpdateRaises(c) ==
    /\ task[c] \in {"end_running", "end_done"}
    /\ lock' = Free
    /\ IF task[c] = "end_done" /\ outcome[c] = "completed"
       THEN /\ outcome' = [outcome EXCEPT ![c] = "failed"]
            /\ task' = [task EXCEPT ![c] = "mark_done"]
       ELSE task' = [task EXCEPT ![c] = AfterUpdate(c)] /\ UNCHANGED outcome
    /\ UNCHANGED <<records, poll, answer, posted, issued, lost, crashes>>

EndUpdate(c) ==
    /\ task[c] \in {"end_running", "end_done"}
    /\ lock' = Released
    /\ task' = [task EXCEPT ![c] = AfterUpdate(c)]
    /\ UNCHANGED <<records, outcome, poll, answer, posted, issued, lost, crashes>>

\* Faulty variant of Invoke: an exception of the graph ends the task, because
\* run_check does not catch it.
InvokeUncaught(c) ==
    /\ task[c] = "invoke"
    /\ \/ /\ outcome' = [outcome EXCEPT ![c] = "completed"]
          /\ task' = [task EXCEPT ![c] = "mark_done"]
       \/ /\ task' = [task EXCEPT ![c] = "done"]
          /\ UNCHANGED outcome
    /\ UNCHANGED <<records, lock, poll, answer, posted, issued, lost, crashes>>

\* app.invoke returns (and _to_json succeeds), or one of them raises.
Invoke(c) ==
    /\ task[c] = "invoke"
    /\ \E o \in Terminal : outcome' = [outcome EXCEPT ![c] = o]
    /\ task' = [task EXCEPT ![c] = "mark_done"]
    /\ UNCHANGED <<records, lock, poll, answer, posted, issued, lost, crashes>>

\* store.get after the update, and the test "record and record.callback_url".
Lookup(c) ==
    /\ task[c] = "lookup"
    /\ lock = Free
    /\ task' = [task EXCEPT ![c] = IF records[c].callback THEN "callback" ELSE "done"]
    /\ UNCHANGED <<records, lock, outcome, poll, answer, posted, issued, lost, crashes>>

\* Faulty variant of SendCallback: a failed POST is retried by running the
\* check again.
SendCallbackRerun(c) ==
    /\ task[c] = "callback"
    /\ \/ /\ posted' = [posted EXCEPT ![c] = records[c]]
          /\ task' = [task EXCEPT ![c] = "done"]
       \/ /\ task' = [task EXCEPT ![c] = "scheduled"]
          /\ UNCHANGED posted
    /\ UNCHANGED <<records, lock, outcome, poll, answer, issued, lost, crashes>>

\* _send_callback: one POST, whose failure is logged and swallowed.  Its
\* thread is held until the POST ends; nothing is retried.
SendCallback(c) ==
    /\ task[c] = "callback"
    /\ task' = [task EXCEPT ![c] = "done"]
    /\ \/ posted' = [posted EXCEPT ![c] = records[c]]
       \/ UNCHANGED posted
    /\ UNCHANGED <<records, lock, outcome, poll, answer, issued, lost, crashes>>

TaskStep(c) == \/ BeginUpdate(c) \/ SetStatus(c) \/ SetPayload(c) \/ EndUpdate(c)
               \/ Invoke(c) \/ Lookup(c) \/ SendCallback(c)

-----------------------------------------------------------------------------
(* GET /api/v1/checks/{check_id}.  Clients poll identifiers a 202 response *)
(* gave them.  atStart is a history field: the record as it stood, if it   *)
(* was settled, when the request got its thread.                           *)

StartPoll(p, c) ==
    /\ poll[p].pc = "idle"
    /\ c \in issued
    /\ ThreadFree
    /\ poll' = [poll EXCEPT ![p] = [pc |-> "get", id |-> c, view |-> Absent,
                                    atStart |-> IF Settled(c) THEN records[c] ELSE
                                       [Absent EXCEPT !.status = records[c].status]]]
    /\ UNCHANGED <<records, lock, task, outcome, answer, posted, issued, lost, crashes>>

\* store.get(check_id), under the lock; None is answered with 404.
PollGet(p) ==
    /\ poll[p].pc = "get"
    /\ lock = Free
    /\ poll' = [poll EXCEPT ![p].pc = IF records[poll[p].id].status = "absent"
                                      THEN "reply" ELSE "status"]
    /\ UNCHANGED <<records, lock, task, outcome, answer, posted, issued, lost, crashes>>

\* record.status, record.result and record.error, read without the lock in
\* the order the CheckStatusResponse call evaluates them.
PollRead(p) ==
    LET record == records[poll[p].id] IN
    /\ \/ /\ poll[p].pc = "status"
          /\ poll' = [poll EXCEPT ![p].view.status = record.status, ![p].pc = "result"]
       \/ /\ poll[p].pc = "result"
          /\ poll' = [poll EXCEPT ![p].view.result = record.result, ![p].pc = "error"]
       \/ /\ poll[p].pc = "error"
          /\ poll' = [poll EXCEPT ![p].view.error = record.error, ![p].pc = "reply"]
    /\ UNCHANGED <<records, lock, task, outcome, answer, posted, issued, lost, crashes>>

PollReply(p) ==
    /\ poll[p].pc = "reply"
    /\ answer' = [answer EXCEPT ![p] =
                    [id |-> poll[p].id, view |-> poll[p].view,
                     code |-> IF poll[p].view.status = "absent" THEN 404 ELSE 200]]
    /\ poll' = [poll EXCEPT ![p] = IdlePoll]
    /\ UNCHANGED <<records, lock, task, outcome, posted, issued, lost, crashes>>

PollStep(p) == PollGet(p) \/ PollRead(p) \/ PollReply(p)

-----------------------------------------------------------------------------
\* The process dies and is started again: threads, lock and records are gone,
\* requests in flight get no answer, clients keep what they were told.
Restart ==
    /\ crashes < MaxCrashes
    /\ crashes' = crashes + 1
    /\ lost' = lost \cup {c \in Checks : records[c].status # "absent"}
    /\ records' = [c \in Checks |-> Absent]
    /\ lock' = Free
    /\ task' = [c \in Checks |-> "none"]
    /\ outcome' = [c \in Checks |-> "none"]
    /\ poll' = [p \in Pollers |-> IdlePoll]
    /\ UNCHANGED <<answer, posted, issued>>

Next ==
    \/ \E c \in Checks : \/ \E cb \in BOOLEAN : Submit(c, cb)
                         \/ Respond(c) \/ StartTask(c) \/ TaskStep(c)
    \/ \E p \in Pollers : \/ \E c \in Checks : StartPoll(p, c)
                          \/ PollStep(p)
    \/ Restart

Spec == Init /\ [][Next]_vars

\* Threads that run keep running; the pool hands its tokens out first come,
\* first served, so a scheduled task is not overtaken for ever by polls; and
\* app.invoke ends, because every model call has a timeout and a bounded
\* number of attempts.  Clients and crashes owe nothing.
Fairness ==
    /\ \A c \in Checks : WF_vars(Respond(c)) /\ SF_vars(StartTask(c)) /\ WF_vars(TaskStep(c))
    /\ \A p \in Pollers : WF_vars(PollStep(p))

FairSpec == Spec /\ Fairness

-----------------------------------------------------------------------------
(* Properties *)

\* The lock is held exactly by the one task that is between the two ends of
\* _update: no writer is ever interrupted by another writer or by store.get.
LockDiscipline ==
    \A c \in Checks : task[c] \in Updating <=> lock = c

\* The record of a check says how far its task has come, field by field, and
\* a check the process has forgotten has no task left: nothing runs for it
\* unseen, and nothing can write to it later.
BeforeRunning == {"created", "scheduled", "mark_running", "set_running"}
WhileRunning  == {"end_running", "invoke", "mark_done", "set_done"}
AfterRunning  == {"end_done", "lookup", "callback", "done"}

RecordTellsTask ==
    \A c \in Checks :
        /\ task[c] = "none" => records[c] = Absent
        /\ task[c] \in BeforeRunning => records[c].status = "queued"
        /\ task[c] \in WhileRunning => records[c].status = "running"
        /\ task[c] \in {"set_payload"} \cup AfterRunning => records[c].status = outcome[c]
        /\ task[c] \in {"mark_done", "set_done", "set_payload"} \cup AfterRunning =>
              outcome[c] \in Terminal
        /\ records[c].result =
              (IF task[c] \in AfterRunning /\ outcome[c] = "completed" THEN c ELSE None)
        /\ records[c].error =
              (IF task[c] \in AfterRunning /\ outcome[c] = "failed" THEN c ELSE None)
        /\ task[c] = "callback" => records[c].callback
        /\ c \in lost => task[c] = "none"

\* What a caller of store.get who waits for the lock finds: status and payload
\* agree, and the payload is the check's own.
RecordConsistent ==
    \A c \in Checks : task[c] # "set_payload" =>
        /\ records[c].result = (IF records[c].status = "completed" THEN c ELSE None)
        /\ records[c].error  = (IF records[c].status = "failed"    THEN c ELSE None)

\* Even a torn answer of get_check never mixes the two outcomes: no completed
\* check with an error, no failed check with a result, never both payloads,
\* and never the payload of another check.
AnswersNeverMix ==
    \A p \in Pollers :
        LET a == answer[p] IN
        /\ a.view.result \in {None, a.id} /\ a.view.error \in {None, a.id}
        /\ a.view.result = None \/ a.view.error = None
        /\ a.view.status = "completed" => a.view.error = None
        /\ a.view.status = "failed" => a.view.result = None

Rank(status) == CASE status = "absent"  -> 0
                  [] status = "queued"  -> 1
                  [] status = "running" -> 2
                  [] OTHER              -> 3

\* An answer is never older than its request: it shows a status at least as
\* advanced as the record had when the GET began, and if the check had
\* already ended, exactly the final record.
AnswersNotStale ==
    \A p \in Pollers : poll[p].pc = "reply" =>
        LET seen == poll[p].atStart IN
        /\ Rank(poll[p].view.status) >= Rank(seen.status)
        /\ (seen.result # None \/ seen.error # None) =>
              poll[p].view = [seen EXCEPT !.callback = FALSE]

\* A client that was given an identifier gets 404 for it only if the process
\* has restarted and lost the check.
NotFoundOnlyIfLost ==
    \A p \in Pollers : answer[p].code = 404 => answer[p].id \in lost

\* A callback carries the final record of a check that asked for one, whole;
\* nothing changes that record afterwards, so a client that polls once it has
\* been notified reads what the callback said (unless a restart lost it): the POST
\* was the last thing the task did.
CallbackIsFinal ==
    \A c \in Checks : posted[c] # Absent =>
        /\ posted[c].callback
        /\ posted[c].status = "completed" => posted[c].result = c /\ posted[c].error = None
        /\ posted[c].status = "failed" => posted[c].error = c /\ posted[c].result = None
        /\ posted[c].status \in Terminal
        /\ c \notin lost => records[c] = posted[c] /\ task[c] = "done"

\* Every check whose submission was answered 202 ends, completed or failed,
\* unless a restart loses it; and it is not enough for the status to be
\* written: its payload is there as well.
EveryCheckSettles ==
    \A c \in Checks : (c \in issued) ~> (Settled(c) \/ c \in lost)

\* A GET that has its thread is answered (or dies with the process): neither
\* the lock nor the pool can hold it up for ever.
EveryPollAnswered ==
    \A p \in Pollers : (poll[p].pc = "get") ~> (poll[p].pc = "idle")

\* What the test test_mark_completed_stores_result and the API's README say of
\* a completed check: its result can be read.  It does not hold for get_check.
CompletedAnswerHasResult ==
    \A p \in Pollers : answer[p].view.status = "completed" => answer[p].view.result # None

-----------------------------------------------------------------------------
(* The promise this module implements.  A reader may rely on a record once *)
(* its last field is written: between the two writes it still counts as    *)
(* running.                                                                *)
Visible(c) ==
    IF c \in lost THEN "lost"
    ELSE IF task[c] = "set_payload" THEN "running" ELSE records[c].status

LifeView == [c \in Checks |-> [status |-> Visible(c),
                               result |-> records[c].result,
                               error  |-> records[c].error]]

Lifecycle == INSTANCE CheckLifecycle WITH life <- LifeView

\* Seen through the lock, the service is the atomic life cycle...
ImplementsLifecycle == Lifecycle!Spec

\* ...and keeps its promise of progress.
ImplementsFairLifecycle == Lifecycle!FairSpec
=============================================================================
