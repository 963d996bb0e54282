------------------------- MODULE CheckServiceProofs -------------------------
(***************************************************************************)
(* Theorems about CheckService for any set of checks and of pollers, any   *)
(* size of the thread pool and any number of restarts.                     *)
(*                                                                         *)
(* TypeOK is not inductive: that _update writes a status at all depends on *)
(* the outcome having been recorded before.  The inductive invariant adds  *)
(* RecordTellsTask, which ties every record to the control point of its    *)
(* task, and the facts about the lock and the callback that rest on it.    *)
(***************************************************************************)
EXTENDS CheckService, TLAPS

IInv == TypeOK /\ LockDiscipline /\ RecordTellsTask /\ CallbackIsFinal

\* What the requests of pollers never touch.
serviceVars == <<records, lock, task, outcome, posted, issued, lost, crashes>>

-----------------------------------------------------------------------------
(* The steps of Next, as the proofs below split them: the ten steps of a   *)
(* task, a step of a poller, a restart.                                    *)

\* Polling reads the service and changes nothing of it.
LEMMA PollsOnlyRead ==
  ASSUME NEW p \in Pollers, (\E c \in Checks : StartPoll(p, c)) \/ PollStep(p)
  PROVE  UNCHANGED serviceVars
  BY DEF PollStep, StartPoll, PollGet, PollRead, PollReply, serviceVars

\* The invariant holds before the first request.
LEMMA InitIInv == Init => IInv
<1> SUFFICES ASSUME Init PROVE IInv
  OBVIOUS
<1> USE DEF Init, Absent
<1>1. TypeOK
  BY ThreadsAssumption DEF TypeOK, IdlePoll, NoAnswer, CheckRecord, RecordStatuses,
     Terminal, TaskSteps, RunSteps, PollSteps
<1>2. LockDiscipline
  BY SentinelAssumption DEF LockDiscipline, Updating
<1>3. RecordTellsTask
  BY DEF RecordTellsTask, BeforeRunning, WhileRunning, AfterRunning
<1>4. CallbackIsFinal
  BY DEF CallbackIsFinal
<1> QED
  BY <1>1, <1>2, <1>3, <1>4 DEF IInv

\* Every step keeps the types.
LEMMA TypeStep == IInv /\ [Next]_vars => TypeOK'
<1> SUFFICES ASSUME IInv, [Next]_vars PROVE TypeOK'
  OBVIOUS
<1>1. ASSUME NEW c \in Checks, NEW cb \in BOOLEAN, Submit(c, cb)
      PROVE  TypeOK'
  BY <1>1
  DEF IInv, TypeOK, CheckRecord, RecordStatuses, Terminal, Absent, TaskSteps,
  RunSteps, PollSteps, Submit, NewRecord
<1>2. ASSUME NEW c \in Checks, Respond(c)
      PROVE  TypeOK'
  BY <1>2
  DEF IInv, TypeOK, CheckRecord, RecordStatuses, Terminal, Absent, TaskSteps,
  RunSteps, PollSteps, Respond
<1>3. ASSUME NEW c \in Checks, StartTask(c)
      PROVE  TypeOK'
  BY <1>3
  DEF IInv, TypeOK, CheckRecord, RecordStatuses, Terminal, Absent, TaskSteps,
  RunSteps, PollSteps, StartTask, FirstStep
<1>4. ASSUME NEW c \in Checks, BeginUpdate(c)
      PROVE  TypeOK'
  <2>1. task' \in [Checks -> TaskSteps] /\ lock' \in Checks \cup {Free}
    BY <1>4 DEF IInv, TypeOK, BeginUpdate, Lockable, TaskSteps, RunSteps
  <2> QED
    BY <1>4, <2>1 DEF IInv, TypeOK, BeginUpdate, Lockable
<1>5. ASSUME NEW c \in Checks, SetStatus(c)
      PROVE  TypeOK'
  <2>1. task[c] = "set_done" => outcome[c] \in Terminal
    BY DEF IInv, RecordTellsTask
  <2>2. records[c] \in CheckRecord
    BY DEF IInv, TypeOK
  <2>3. \A s \in RecordStatuses : [records[c] EXCEPT !.status = s] \in CheckRecord
    BY <2>2 DEF CheckRecord
  <2>4. records' \in [Checks -> CheckRecord]
    <3>1. \E s \in RecordStatuses :
             records' = [records EXCEPT ![c] = [records[c] EXCEPT !.status = s]]
      BY <1>5, <2>1 DEF SetStatus, RecordStatuses, Terminal
    <3>2. records \in [Checks -> CheckRecord]
      BY DEF IInv, TypeOK
    <3> QED
      BY <2>3, <3>1, <3>2
  <2>5. task' \in [Checks -> TaskSteps]
    BY <1>5 DEF IInv, TypeOK, SetStatus, TaskSteps, RunSteps
  <2> QED
    BY <1>5, <2>4, <2>5 DEF IInv, TypeOK, SetStatus
<1>6. ASSUME NEW c \in Checks, SetPayload(c)
      PROVE  TypeOK'
  BY <1>6
  DEF IInv, TypeOK, CheckRecord, RecordStatuses, Terminal, Absent, TaskSteps,
  RunSteps, PollSteps, SetPayload
<1>7. ASSUME NEW c \in Checks, EndUpdate(c)
      PROVE  TypeOK'
  BY <1>7
  DEF IInv, TypeOK, CheckRecord, RecordStatuses, Terminal, Absent, TaskSteps,
  RunSteps, PollSteps, EndUpdate, Released, AfterUpdate
<1>8. ASSUME NEW c \in Checks, Invoke(c)
      PROVE  TypeOK'
  BY <1>8
  DEF IInv, TypeOK, CheckRecord, RecordStatuses, Terminal, Absent, TaskSteps,
  RunSteps, PollSteps, Invoke
<1>9. ASSUME NEW c \in Checks, Lookup(c)
      PROVE  TypeOK'
  BY <1>9
  DEF IInv, TypeOK, CheckRecord, RecordStatuses, Terminal, Absent, TaskSteps,
  RunSteps, PollSteps, Lookup
<1>10. ASSUME NEW c \in Checks, SendCallback(c)
       PROVE  TypeOK'
  BY <1>10
  DEF IInv, TypeOK, CheckRecord, RecordStatuses, Terminal, Absent, TaskSteps,
  RunSteps, PollSteps, SendCallback
<1>11. ASSUME NEW p \in Pollers, NEW c \in Checks, StartPoll(p, c)
       PROVE  TypeOK'
  <2>1. records[c] \in CheckRecord /\ Absent \in CheckRecord
    BY DEF IInv, TypeOK, CheckRecord, Absent, RecordStatuses
  <2>2. [Absent EXCEPT !.status = records[c].status] \in CheckRecord
    BY <2>1 DEF CheckRecord, Absent
  <2> QED
    BY <1>11, <2>1, <2>2 DEF IInv, TypeOK, StartPoll, PollSteps
<1>12. ASSUME NEW p \in Pollers, PollGet(p)
       PROVE  TypeOK'
  <2> DEFINE step == IF records[poll[p].id].status = "absent" THEN "reply" ELSE "status"
  <2>1. step \in PollSteps
    BY DEF PollSteps
  <2>2. poll' = [poll EXCEPT ![p].pc = step]
    BY <1>12 DEF PollGet
  <2> HIDE DEF step
  <2>3. poll' \in [Pollers -> [pc : PollSteps, id : Checks \cup {None},
                              view : CheckRecord, atStart : CheckRecord]]
    BY <2>1, <2>2 DEF IInv, TypeOK
  <2> QED
    BY <1>12, <2>3 DEF IInv, TypeOK, PollGet
<1>13. ASSUME NEW p \in Pollers, PollRead(p)
       PROVE  TypeOK'
  BY <1>13
  DEF IInv, TypeOK, CheckRecord, RecordStatuses, Terminal, Absent, TaskSteps,
  RunSteps, PollSteps, PollRead
<1>14. ASSUME NEW p \in Pollers, PollReply(p)
       PROVE  TypeOK'
  BY <1>14
  DEF IInv, TypeOK, CheckRecord, RecordStatuses, Terminal, Absent, TaskSteps,
  RunSteps, PollSteps, PollReply, IdlePoll
<1>15. ASSUME Restart
       PROVE  TypeOK'
  BY <1>15, ThreadsAssumption
  DEF IInv, TypeOK, CheckRecord, RecordStatuses, Terminal, Absent, TaskSteps,
  RunSteps, PollSteps, Restart, IdlePoll
<1>16. CASE UNCHANGED vars
  BY <1>16
  DEF IInv, TypeOK, CheckRecord, RecordStatuses, Terminal, Absent, TaskSteps,
  RunSteps, PollSteps, vars
<1> QED
  BY <1>1, <1>2, <1>3, <1>4, <1>5, <1>6, <1>7, <1>8, <1>9, <1>10, <1>11, <1>12,
  <1>13, <1>14, <1>15, <1>16
  DEF Next, TaskStep, PollStep

\* Every step keeps the lock with the one task inside _update.
LEMMA LockStep == IInv /\ [Next]_vars => LockDiscipline'
<1> SUFFICES ASSUME IInv, [Next]_vars PROVE LockDiscipline'
  OBVIOUS
<1>1. ASSUME NEW c \in Checks, NEW cb \in BOOLEAN, Submit(c, cb)
      PROVE  LockDiscipline'
  BY <1>1
  DEF IInv, TypeOK, LockDiscipline, Updating, Submit, NewRecord
<1>2. ASSUME NEW c \in Checks, Respond(c)
      PROVE  LockDiscipline'
  BY <1>2
  DEF IInv, TypeOK, LockDiscipline, Updating, Respond
<1>3. ASSUME NEW c \in Checks, StartTask(c)
      PROVE  LockDiscipline'
  BY <1>3
  DEF IInv, TypeOK, LockDiscipline, Updating, StartTask, FirstStep
<1>4. ASSUME NEW c \in Checks, BeginUpdate(c)
      PROVE  LockDiscipline'
  BY <1>4, SentinelAssumption
  DEF IInv, TypeOK, LockDiscipline, Updating, BeginUpdate, Lockable
<1>5. ASSUME NEW c \in Checks, SetStatus(c)
      PROVE  LockDiscipline'
  BY <1>5
  DEF IInv, TypeOK, LockDiscipline, Updating, SetStatus
<1>6. ASSUME NEW c \in Checks, SetPayload(c)
      PROVE  LockDiscipline'
  BY <1>6
  DEF IInv, TypeOK, LockDiscipline, Updating, SetPayload
<1>7. ASSUME NEW c \in Checks, EndUpdate(c)
      PROVE  LockDiscipline'
  BY <1>7, SentinelAssumption
  DEF IInv, TypeOK, LockDiscipline, Updating, EndUpdate, Released, AfterUpdate
<1>8. ASSUME NEW c \in Checks, Invoke(c)
      PROVE  LockDiscipline'
  BY <1>8
  DEF IInv, TypeOK, LockDiscipline, Updating, Invoke
<1>9. ASSUME NEW c \in Checks, Lookup(c)
      PROVE  LockDiscipline'
  BY <1>9
  DEF IInv, TypeOK, LockDiscipline, Updating, Lookup
<1>10. ASSUME NEW c \in Checks, SendCallback(c)
       PROVE  LockDiscipline'
  BY <1>10
  DEF IInv, TypeOK, LockDiscipline, Updating, SendCallback
<1>11. ASSUME UNCHANGED serviceVars
       PROVE  LockDiscipline'
  BY <1>11
  DEF IInv, TypeOK, LockDiscipline, Updating, serviceVars
<1>12. ASSUME Restart
       PROVE  LockDiscipline'
  BY <1>12, SentinelAssumption
  DEF IInv, TypeOK, LockDiscipline, Updating, Restart, IdlePoll
<1>13. CASE UNCHANGED vars
  BY <1>13, <1>11 DEF vars, serviceVars
<1>14. ASSUME NEW p \in Pollers, (\E c \in Checks : StartPoll(p, c)) \/ PollStep(p)
       PROVE  LockDiscipline'
  BY <1>14, <1>11, PollsOnlyRead
<1> QED
  BY <1>1, <1>2, <1>3, <1>4, <1>5, <1>6, <1>7, <1>8, <1>9, <1>10, <1>11, <1>12,
  <1>13, <1>14
  DEF Next, TaskStep

\* Every step keeps the records in accord with their tasks.
LEMMA RecordStep == IInv /\ [Next]_vars => RecordTellsTask'
<1> SUFFICES ASSUME IInv, [Next]_vars PROVE RecordTellsTask'
  OBVIOUS
<1>1. ASSUME NEW c \in Checks, NEW cb \in BOOLEAN, Submit(c, cb)
      PROVE  RecordTellsTask'
  BY <1>1
  DEF IInv, TypeOK, RecordTellsTask, BeforeRunning, WhileRunning, AfterRunning,
  CheckRecord, RecordStatuses, Terminal, Absent, TaskSteps, RunSteps, Submit,
  NewRecord
<1>2. ASSUME NEW c \in Checks, Respond(c)
      PROVE  RecordTellsTask'
  BY <1>2
  DEF IInv, TypeOK, RecordTellsTask, BeforeRunning, WhileRunning, AfterRunning,
  CheckRecord, RecordStatuses, Terminal, Absent, TaskSteps, RunSteps, Respond
<1>3. ASSUME NEW c \in Checks, StartTask(c)
      PROVE  RecordTellsTask'
  BY <1>3
  DEF IInv, TypeOK, RecordTellsTask, BeforeRunning, WhileRunning, AfterRunning,
  CheckRecord, RecordStatuses, Terminal, Absent, TaskSteps, RunSteps, StartTask, FirstStep
<1>4. ASSUME NEW c \in Checks, BeginUpdate(c)
      PROVE  RecordTellsTask'
  BY <1>4
  DEF IInv, TypeOK, RecordTellsTask, BeforeRunning, WhileRunning, AfterRunning,
  CheckRecord, RecordStatuses, Terminal, Absent, TaskSteps, RunSteps,
  BeginUpdate, Lockable
<1>5. ASSUME NEW c \in Checks, SetStatus(c)
      PROVE  RecordTellsTask'
  <2>1. CASE task[c] = "set_running"
    BY <1>5, <2>1 DEF IInv, TypeOK, CheckRecord, SetStatus, RecordTellsTask, BeforeRunning,
       WhileRunning, AfterRunning
  <2>2. CASE task[c] = "set_done"
    BY <1>5, <2>2 DEF IInv, TypeOK, CheckRecord, SetStatus, RecordTellsTask, BeforeRunning,
       WhileRunning, AfterRunning
  <2> QED
    BY <1>5, <2>1, <2>2 DEF SetStatus
<1>6. ASSUME NEW c \in Checks, SetPayload(c)
      PROVE  RecordTellsTask'
  BY <1>6
  DEF IInv, TypeOK, RecordTellsTask, BeforeRunning, WhileRunning, AfterRunning,
  CheckRecord, RecordStatuses, Terminal, Absent, TaskSteps, RunSteps, SetPayload
<1>7. ASSUME NEW c \in Checks, EndUpdate(c)
      PROVE  RecordTellsTask'
  BY <1>7
  DEF IInv, TypeOK, RecordTellsTask, BeforeRunning, WhileRunning, AfterRunning,
  CheckRecord, RecordStatuses, Terminal, Absent, TaskSteps, RunSteps, EndUpdate, Released, AfterUpdate
<1>8. ASSUME NEW c \in Checks, Invoke(c)
      PROVE  RecordTellsTask'
  BY <1>8
  DEF IInv, TypeOK, RecordTellsTask, BeforeRunning, WhileRunning, AfterRunning,
  CheckRecord, RecordStatuses, Terminal, Absent, TaskSteps, RunSteps, Invoke
<1>9. ASSUME NEW c \in Checks, Lookup(c)
      PROVE  RecordTellsTask'
  BY <1>9
  DEF IInv, TypeOK, RecordTellsTask, BeforeRunning, WhileRunning, AfterRunning,
  CheckRecord, RecordStatuses, Terminal, Absent, TaskSteps, RunSteps, Lookup
<1>10. ASSUME NEW c \in Checks, SendCallback(c)
       PROVE  RecordTellsTask'
  BY <1>10
  DEF IInv, TypeOK, RecordTellsTask, BeforeRunning, WhileRunning, AfterRunning,
  CheckRecord, RecordStatuses, Terminal, Absent, TaskSteps, RunSteps,
  SendCallback
<1>11. ASSUME UNCHANGED serviceVars
       PROVE  RecordTellsTask'
  BY <1>11
  DEF IInv, TypeOK, RecordTellsTask, BeforeRunning, WhileRunning, AfterRunning,
  CheckRecord, RecordStatuses, Terminal, Absent, TaskSteps, RunSteps,
  serviceVars
<1>12. ASSUME Restart
       PROVE  RecordTellsTask'
  BY <1>12
  DEF IInv, TypeOK, RecordTellsTask, BeforeRunning, WhileRunning, AfterRunning,
  CheckRecord, RecordStatuses, Terminal, Absent, TaskSteps, RunSteps, Restart,
  IdlePoll
<1>13. CASE UNCHANGED vars
  BY <1>13, <1>11 DEF vars, serviceVars
<1>14. ASSUME NEW p \in Pollers, (\E c \in Checks : StartPoll(p, c)) \/ PollStep(p)
       PROVE  RecordTellsTask'
  BY <1>14, <1>11, PollsOnlyRead
<1> QED
  BY <1>1, <1>2, <1>3, <1>4, <1>5, <1>6, <1>7, <1>8, <1>9, <1>10, <1>11, <1>12,
  <1>13, <1>14
  DEF Next, TaskStep

\* Every step keeps what was posted final.
LEMMA CallbackStep == IInv /\ [Next]_vars => CallbackIsFinal'
<1> SUFFICES ASSUME IInv, [Next]_vars PROVE CallbackIsFinal'
  OBVIOUS
<1>1. ASSUME NEW c \in Checks, NEW cb \in BOOLEAN, Submit(c, cb)
      PROVE  CallbackIsFinal'
  BY <1>1
  DEF IInv, TypeOK, CallbackIsFinal, RecordTellsTask, BeforeRunning,
  WhileRunning, AfterRunning, CheckRecord, RecordStatuses, Terminal, Absent,
  TaskSteps, RunSteps, Submit, NewRecord
<1>2. ASSUME NEW c \in Checks, Respond(c)
      PROVE  CallbackIsFinal'
  BY <1>2
  DEF IInv, TypeOK, CallbackIsFinal, RecordTellsTask, BeforeRunning,
  WhileRunning, AfterRunning, CheckRecord, RecordStatuses, Terminal, Absent,
  TaskSteps, RunSteps, Respond
<1>3. ASSUME NEW c \in Checks, StartTask(c)
      PROVE  CallbackIsFinal'
  BY <1>3
  DEF IInv, TypeOK, CallbackIsFinal, RecordTellsTask, BeforeRunning,
  WhileRunning, AfterRunning, CheckRecord, RecordStatuses, Terminal, Absent,
  TaskSteps, RunSteps, StartTask, FirstStep
<1>4. ASSUME NEW c \in Checks, BeginUpdate(c)
      PROVE  CallbackIsFinal'
  BY <1>4
  DEF IInv, TypeOK, CallbackIsFinal, RecordTellsTask, BeforeRunning,
  WhileRunning, AfterRunning, CheckRecord, RecordStatuses, Terminal, Absent,
  TaskSteps, RunSteps, BeginUpdate, Lockable
<1>5. ASSUME NEW c \in Checks, SetStatus(c)
      PROVE  CallbackIsFinal'
  BY <1>5
  DEF IInv, TypeOK, CallbackIsFinal, RecordTellsTask, BeforeRunning,
  WhileRunning, AfterRunning, CheckRecord, RecordStatuses, Terminal, Absent,
  TaskSteps, RunSteps, SetStatus
<1>6. ASSUME NEW c \in Checks, SetPayload(c)
      PROVE  CallbackIsFinal'
  BY <1>6
  DEF IInv, TypeOK, CallbackIsFinal, RecordTellsTask, BeforeRunning,
  WhileRunning, AfterRunning, CheckRecord, RecordStatuses, Terminal, Absent,
  TaskSteps, RunSteps, SetPayload
<1>7. ASSUME NEW c \in Checks, EndUpdate(c)
      PROVE  CallbackIsFinal'
  BY <1>7
  DEF IInv, TypeOK, CallbackIsFinal, RecordTellsTask, BeforeRunning,
  WhileRunning, AfterRunning, CheckRecord, RecordStatuses, Terminal, Absent,
  TaskSteps, RunSteps, EndUpdate, Released, AfterUpdate
<1>8. ASSUME NEW c \in Checks, Invoke(c)
      PROVE  CallbackIsFinal'
  BY <1>8
  DEF IInv, TypeOK, CallbackIsFinal, RecordTellsTask, BeforeRunning,
  WhileRunning, AfterRunning, CheckRecord, RecordStatuses, Terminal, Absent,
  TaskSteps, RunSteps, Invoke
<1>9. ASSUME NEW c \in Checks, Lookup(c)
      PROVE  CallbackIsFinal'
  BY <1>9
  DEF IInv, TypeOK, CallbackIsFinal, RecordTellsTask, BeforeRunning,
  WhileRunning, AfterRunning, CheckRecord, RecordStatuses, Terminal, Absent,
  TaskSteps, RunSteps, Lookup
<1>10. ASSUME NEW c \in Checks, SendCallback(c)
       PROVE  CallbackIsFinal'
  <2>1. /\ task[c] = "callback" /\ records[c].callback
        /\ records[c].status = outcome[c] /\ outcome[c] \in Terminal
        /\ records[c].result = (IF outcome[c] = "completed" THEN c ELSE None)
        /\ records[c].error = (IF outcome[c] = "failed" THEN c ELSE None)
    BY <1>10 DEF IInv, RecordTellsTask, AfterRunning, SendCallback
  <2>2. task' = [task EXCEPT ![c] = "done"] /\ UNCHANGED <<records, lost>>
    BY <1>10 DEF SendCallback
  <2>3. CASE posted' = [posted EXCEPT ![c] = records[c]]
    BY <2>1, <2>2, <2>3 DEF IInv, TypeOK, CallbackIsFinal, Terminal
  <2>4. CASE UNCHANGED posted
    BY <2>1, <2>2, <2>4 DEF IInv, TypeOK, CallbackIsFinal
  <2> QED
    BY <1>10, <2>3, <2>4 DEF SendCallback
<1>11. ASSUME UNCHANGED serviceVars
       PROVE  CallbackIsFinal'
  BY <1>11
  DEF IInv, TypeOK, CallbackIsFinal, RecordTellsTask, BeforeRunning,
  WhileRunning, AfterRunning, CheckRecord, RecordStatuses, Terminal, Absent,
  TaskSteps, RunSteps, serviceVars
<1>12. ASSUME Restart
       PROVE  CallbackIsFinal'
  BY <1>12
  DEF IInv, TypeOK, CallbackIsFinal, RecordTellsTask, BeforeRunning,
  WhileRunning, AfterRunning, CheckRecord, RecordStatuses, Terminal, Absent,
  TaskSteps, RunSteps, Restart, IdlePoll
<1>13. CASE UNCHANGED vars
  BY <1>13, <1>11 DEF vars, serviceVars
<1>14. ASSUME NEW p \in Pollers, (\E c \in Checks : StartPoll(p, c)) \/ PollStep(p)
       PROVE  CallbackIsFinal'
  BY <1>14, <1>11, PollsOnlyRead
<1> QED
  BY <1>1, <1>2, <1>3, <1>4, <1>5, <1>6, <1>7, <1>8, <1>9, <1>10, <1>11, <1>12,
  <1>13, <1>14
  DEF Next, TaskStep

-----------------------------------------------------------------------------
(* The inductive invariant holds in every reachable state. *)
THEOREM Invariance == Spec => []IInv
<1>1. IInv /\ [Next]_vars => IInv'
  BY TypeStep, LockStep, RecordStep, CallbackStep DEF IInv
<1> QED
  BY InitIInv, <1>1, PTL DEF Spec

\* Records, control points, requests and answers keep their types: no task
\* reaches a point run_check does not have and no record a status CheckStatus
\* does not have, whatever the interleaving and the restarts.
THEOREM Typing == Spec => []TypeOK
<1>1. IInv => TypeOK
  BY DEF IInv
<1> QED
  BY Invariance, <1>1, PTL

\* The store's lock is held by the task inside _update and by nobody else, so
\* the writes of two checks, or a write and a lookup, never interleave.
THEOREM MutualExclusion == Spec => []LockDiscipline
<1>1. IInv => LockDiscipline
  BY DEF IInv
<1> QED
  BY Invariance, <1>1, PTL

\* The record of a check says how far its task has come, and a check that a
\* restart has forgotten has no task: nothing can write to it later.
THEOREM TaskKnown == Spec => []RecordTellsTask
<1>1. IInv => RecordTellsTask
  BY DEF IInv
<1> QED
  BY Invariance, <1>1, PTL

\* Except between the two writes of _update, the status of a record and its
\* payload agree, and the payload is the check's own.
THEOREM Consistency == Spec => []RecordConsistent
<1>1. IInv => RecordConsistent
  <2> SUFFICES ASSUME IInv, NEW c \in Checks, task[c] # "set_payload"
               PROVE  /\ records[c].result =
                           (IF records[c].status = "completed" THEN c ELSE None)
                      /\ records[c].error =
                           (IF records[c].status = "failed" THEN c ELSE None)
    BY DEF RecordConsistent
  <2>1. task[c] \in {"none"} \cup BeforeRunning \cup WhileRunning \cup AfterRunning
    BY DEF IInv, TypeOK, TaskSteps, RunSteps, BeforeRunning, WhileRunning, AfterRunning
  <2>2. CASE task[c] \in {"none"} \cup BeforeRunning \cup WhileRunning
    BY <2>2 DEF IInv, RecordTellsTask, BeforeRunning, WhileRunning, AfterRunning, Absent
  <2>3. CASE task[c] \in AfterRunning
    BY <2>3 DEF IInv, RecordTellsTask, AfterRunning, Terminal
  <2> QED
    BY <2>1, <2>2, <2>3
<1> QED
  BY Invariance, <1>1, PTL

\* A callback carries the whole final record, and nothing changes the record
\* after it.
THEOREM CallbackFinality == Spec => []CallbackIsFinal
<1>1. IInv => CallbackIsFinal
  BY DEF IInv
<1> QED
  BY Invariance, <1>1, PTL

-----------------------------------------------------------------------------
(* CheckService implements CheckLifecycle: seen through the lock, with the  *)
(* two writes of _update counted as one when the second is done, a check is *)
(* accepted once, starts once and ends once, whatever the polls, the other  *)
(* checks and the restarts do meanwhile.                                    *)


\* A step that leaves what determines the view of every check alone, or moves
\* a task between control points that look alike, is a stuttering step.
LEMMA SameView ==
  ASSUME UNCHANGED <<records, lost>>,
         \A c \in Checks : task'[c] = "set_payload" <=> task[c] = "set_payload"
  PROVE  UNCHANGED LifeView
  BY DEF LifeView, Visible

\* The view changes at one check only.
LEMMA OneView ==
  ASSUME NEW c \in Checks, NEW v,
         UNCHANGED lost,
         \A d \in Checks \ {c} : records'[d] = records[d] /\ task'[d] = task[d],
         v = [status |-> Visible(c)', result |-> records'[c].result,
              error |-> records'[c].error]
  PROVE  LifeView' = [LifeView EXCEPT ![c] = v]
  BY DEF LifeView, Visible

\* Accepting a check.
LEMMA SubmitRefines ==
  ASSUME IInv, NEW c \in Checks, NEW cb \in BOOLEAN, Submit(c, cb)
  PROVE  Lifecycle!Accept(c)
<1>1. records[c] = Absent /\ task[c] = "none" /\ c \notin lost
  BY DEF Submit, IInv, RecordTellsTask
<1>2. LifeView[c].status = "absent"
  BY <1>1 DEF LifeView, Visible, Absent
<1>3. /\ records'[c] = NewRecord(cb) /\ task'[c] = "created" /\ UNCHANGED lost
      /\ \A d \in Checks \ {c} : records'[d] = records[d] /\ task'[d] = task[d]
  BY DEF Submit, IInv, TypeOK
<1>4. /\ records'[c].status = "queued" /\ records'[c].result = None
      /\ records'[c].error = None
  BY <1>3 DEF NewRecord
<1>5. LifeView' = [LifeView EXCEPT ![c] = Lifecycle!LifeOf("queued")]
  <2> DEFINE v == Lifecycle!LifeOf("queued")
  <2>1. v = [status |-> Visible(c)', result |-> records'[c].result,
             error |-> records'[c].error]
    BY <1>1, <1>3, <1>4 DEF Visible, Lifecycle!LifeOf
  <2> HIDE DEF v
  <2>2. LifeView' = [LifeView EXCEPT ![c] = v]
    BY <1>3, <2>1, OneView
  <2> QED
    BY <2>2 DEF v
<1> QED
  BY <1>2, <1>5 DEF Lifecycle!Accept

\* The first write of mark_running starts the check; the first write of
\* mark_completed or mark_failed is not visible yet.
LEMMA SetStatusRefines ==
  ASSUME IInv, NEW c \in Checks, SetStatus(c)
  PROVE  Lifecycle!Start(c) \/ UNCHANGED LifeView
<1>1. c \notin lost /\ UNCHANGED lost
  BY DEF SetStatus, IInv, RecordTellsTask
<1>2. CASE task[c] = "set_running"
  <2>1. /\ records[c].status = "queued" /\ records[c].result = None
        /\ records[c].error = None
    BY <1>2 DEF IInv, RecordTellsTask, BeforeRunning, AfterRunning
  <2>2. /\ records'[c].status = "running" /\ records'[c].result = None
        /\ records'[c].error = None /\ task'[c] = "end_running"
        /\ \A d \in Checks \ {c} : records'[d] = records[d] /\ task'[d] = task[d]
    BY <1>2, <2>1 DEF SetStatus, IInv, TypeOK, CheckRecord
  <2>3. LifeView[c].status = "queued"
    BY <1>1, <1>2, <2>1 DEF LifeView, Visible
  <2>4. LifeView' = [LifeView EXCEPT ![c] = Lifecycle!LifeOf("running")]
    BY <1>1, <2>2, OneView DEF Visible, Lifecycle!LifeOf
  <2> QED
    BY <2>3, <2>4 DEF Lifecycle!Start
<1>3. CASE task[c] = "set_done"
  <2>1. records[c].status = "running"
    BY <1>3 DEF IInv, RecordTellsTask, WhileRunning
  <2>2. /\ records'[c].result = records[c].result /\ records'[c].error = records[c].error
        /\ task'[c] = "set_payload"
        /\ \A d \in Checks \ {c} : records'[d] = records[d] /\ task'[d] = task[d]
    BY <1>3 DEF SetStatus, IInv, TypeOK, CheckRecord
  <2>3. \A d \in Checks : LifeView'[d] = LifeView[d]
    BY <1>1, <1>3, <2>1, <2>2 DEF LifeView, Visible
  <2> QED
    BY <2>3 DEF LifeView
<1> QED
  BY <1>2, <1>3 DEF SetStatus

\* The second write ends the check.
LEMMA SetPayloadRefines ==
  ASSUME IInv, NEW c \in Checks, SetPayload(c)
  PROVE  Lifecycle!Finish(c)
<1>1. /\ task[c] = "set_payload" /\ c \notin lost /\ UNCHANGED lost
      /\ records[c].status = outcome[c] /\ outcome[c] \in Terminal
      /\ records[c].result = None /\ records[c].error = None
  BY DEF SetPayload, IInv, RecordTellsTask, AfterRunning
<1>2. LifeView[c].status = "running"
  BY <1>1 DEF LifeView, Visible
<1>3. /\ task'[c] = "end_done"
      /\ \A d \in Checks \ {c} : records'[d] = records[d] /\ task'[d] = task[d]
  BY DEF SetPayload, IInv, TypeOK
<1>4. CASE outcome[c] = "completed"
  <2>1. /\ records'[c].status = "completed" /\ records'[c].result = c
        /\ records'[c].error = None
    BY <1>1, <1>4 DEF SetPayload, IInv, TypeOK, CheckRecord
  <2>2. LifeView' = [LifeView EXCEPT ![c] =
                        [status |-> "completed", result |-> c, error |-> None]]
    BY <1>1, <1>3, <2>1, OneView DEF Visible
  <2> QED
    BY <1>2, <2>2 DEF Lifecycle!Finish, Lifecycle!Complete
<1>5. CASE outcome[c] = "failed"
  <2>1. /\ records'[c].status = "failed" /\ records'[c].result = None
        /\ records'[c].error = c
    BY <1>1, <1>5 DEF SetPayload, IInv, TypeOK, CheckRecord
  <2>2. LifeView' = [LifeView EXCEPT ![c] =
                        [status |-> "failed", result |-> None, error |-> c]]
    BY <1>1, <1>3, <2>1, OneView DEF Visible
  <2> QED
    BY <1>2, <2>2 DEF Lifecycle!Finish, Lifecycle!Fail
<1> QED
  BY <1>1, <1>4, <1>5 DEF Terminal

\* A restart forgets every check there is, also the ones half written.
LEMMA RestartRefines ==
  ASSUME IInv, Restart
  PROVE  Lifecycle!Restart
<1> SUFFICES ASSUME NEW c \in Checks
             PROVE  LifeView'[c] = IF LifeView[c].status = "absent" THEN LifeView[c]
                                   ELSE Lifecycle!LifeOf("lost")
  BY DEF Lifecycle!Restart, LifeView
<1>1. /\ records'[c] = Absent /\ task'[c] = "none"
      /\ c \in lost' <=> c \in lost \/ records[c].status # "absent"
  BY DEF Restart
<1>2. CASE c \in lost
  BY <1>1, <1>2 DEF LifeView, Visible, Lifecycle!LifeOf, Absent
<1>3. CASE c \notin lost /\ task[c] = "none"
  <2>1. records[c] = Absent
    BY <1>3 DEF IInv, RecordTellsTask
  <2> QED
    BY <1>1, <1>3, <2>1 DEF LifeView, Visible, Absent
<1>4. CASE c \notin lost /\ task[c] # "none"
  <2>1. records[c].status # "absent"
    BY <1>4 DEF IInv, TypeOK, TaskSteps, RunSteps, RecordTellsTask, BeforeRunning,
       WhileRunning, AfterRunning, Terminal
  <2> QED
    BY <1>1, <1>4, <2>1 DEF LifeView, Visible, Lifecycle!LifeOf, Absent
<1> QED
  BY <1>2, <1>3, <1>4

-----------------------------------------------------------------------------
\* Every step of the service is a step of the life cycle or invisible.
LEMMA StepRefines == IInv /\ [Next]_vars => [Lifecycle!Next]_LifeView
<1> SUFFICES ASSUME IInv, [Next]_vars PROVE [Lifecycle!Next]_LifeView
  OBVIOUS
<1>1. ASSUME NEW c \in Checks, NEW cb \in BOOLEAN, Submit(c, cb)
      PROVE  Lifecycle!Next
  BY <1>1, SubmitRefines DEF Lifecycle!Next
<1>2. ASSUME NEW c \in Checks, SetStatus(c)
      PROVE  Lifecycle!Next \/ UNCHANGED LifeView
  BY <1>2, SetStatusRefines DEF Lifecycle!Next
<1>3. ASSUME NEW c \in Checks, SetPayload(c)
      PROVE  Lifecycle!Next
  BY <1>3, SetPayloadRefines DEF Lifecycle!Next
<1>4. CASE Restart
  BY <1>4, RestartRefines DEF Lifecycle!Next
<1>5. ASSUME NEW c \in Checks,
             \/ Respond(c) \/ StartTask(c) \/ BeginUpdate(c) \/ EndUpdate(c)
             \/ Invoke(c) \/ Lookup(c) \/ SendCallback(c)
      PROVE  UNCHANGED LifeView
  <2>1. UNCHANGED <<records, lost>>
    BY <1>5 DEF Respond, StartTask, FirstStep, BeginUpdate, Lockable, EndUpdate, Released, AfterUpdate, Invoke, Lookup, SendCallback
  <2>2. \A d \in Checks : task'[d] = "set_payload" <=> task[d] = "set_payload"
    BY <1>5 DEF Respond, StartTask, FirstStep, BeginUpdate, Lockable, EndUpdate, Released, AfterUpdate, Invoke, Lookup, SendCallback,
       IInv, TypeOK
  <2> QED
    BY <2>1, <2>2, SameView
<1>6. ASSUME NEW p \in Pollers, (\E c \in Checks : StartPoll(p, c)) \/ PollStep(p)
      PROVE  UNCHANGED LifeView
  BY <1>6, PollsOnlyRead, SameView DEF serviceVars
<1>7. CASE UNCHANGED vars
  BY <1>7, SameView DEF vars
<1> QED
  BY <1>1, <1>2, <1>3, <1>4, <1>5, <1>6, <1>7 DEF Next, TaskStep

\* Seen through the lock, the service is the atomic life cycle of a check.
THEOREM Refinement == Spec => ImplementsLifecycle
<1>1. Init => Lifecycle!Init
  BY DEF Init, Lifecycle!Init, LifeView, Visible, Lifecycle!LifeOf, Absent
<1>2. IInv /\ [Next]_vars => [Lifecycle!Next]_LifeView
  BY StepRefines
<1> QED
  BY <1>1, <1>2, Invariance, PTL DEF Spec, ImplementsLifecycle, Lifecycle!Spec
=============================================================================
