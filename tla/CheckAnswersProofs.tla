------------------------- MODULE CheckAnswersProofs -------------------------
(***************************************************************************)
(* Theorems about what GET /api/v1/checks/{check_id} answers, for any      *)
(* number of checks, clients, threads and restarts.                        *)
(*                                                                         *)
(* get_check reads three fields of a record that changes under its hands.  *)
(* That its answer is nevertheless neither mixed nor stale rests on the    *)
(* way records change while a request is in flight: never backwards, and   *)
(* not at all once a payload is there (Grows).  ViewSound relates the      *)
(* fields a request has read so far to the record as it is now.            *)
(***************************************************************************)
EXTENDS CheckServiceProofs

\* How a record may change while the process lives.
Grows(old, new) ==
    /\ Rank(new.status) >= Rank(old.status)
    /\ old.status \in Terminal => new.status = old.status
    /\ old.result # None \/ old.error # None => new = old

\* A payload belongs to its check and agrees with the status.
RecordSound(r, c) ==
    /\ r.result \in {None, c} /\ r.error \in {None, c}
    /\ r.result # None => r.status = "completed"
    /\ r.error # None => r.status = "failed"

\* What request q has read and seen at its start, against the record r now.
ViewSound(q, r) ==
    /\ q.view.result \in {None, q.id} /\ q.view.error \in {None, q.id}
    /\ q.view.result # None => r.status = "completed"
    /\ q.view.error # None => r.status = "failed"
    /\ q.view.status \in Terminal => r.status = q.view.status
    /\ q.view.callback = FALSE
    /\ Rank(q.atStart.status) <= Rank(r.status)
    /\ q.pc \in {"result", "error", "reply"} => Rank(q.atStart.status) <= Rank(q.view.status)
    /\ q.pc \in {"status", "result", "error"} => r.status # "absent"
    /\ q.pc \in {"result", "error"} => q.view.status # "absent"
    /\ q.pc = "get" => q.view.status = "absent"
    /\ q.atStart.result # None \/ q.atStart.error # None =>
          /\ r = q.atStart
          /\ q.pc \in {"result", "error", "reply"} => q.view.status = r.status
          /\ q.pc \in {"error", "reply"} => q.view.result = r.result
          /\ q.pc = "reply" => q.view.error = r.error

\* A check whose identifier was given out is known or lost.
IssuedKnown ==
    \A c \in issued : c \in lost \/ records[c].status # "absent"

PollInv ==
    \A p \in Pollers : poll[p].pc # "idle" =>
        /\ poll[p].id \in issued
        /\ ViewSound(poll[p], records[poll[p].id])
        /\ poll[p].pc = "reply" /\ poll[p].view.status = "absent" => poll[p].id \in lost

AInv == IInv /\ IssuedKnown /\ PollInv /\ AnswersNeverMix /\ NotFoundOnlyIfLost

-----------------------------------------------------------------------------
\* The order of the statuses.
LEMMA RankTable ==
  /\ Rank("absent") = 0 /\ Rank("queued") = 1 /\ Rank("running") = 2
  /\ Rank("completed") = 3 /\ Rank("failed") = 3
  BY DEF Rank

LEMMA RankNat == \A s \in RecordStatuses : Rank(s) \in 0..3
  BY RankTable DEF RecordStatuses, Terminal

\* What the record of a check holds, by RecordTellsTask.
LEMMA RecordFacts ==
  ASSUME IInv, NEW c \in Checks
  PROVE  /\ RecordSound(records[c], c)
         /\ records[c] \in CheckRecord
         /\ records[c].status = "absent" <=> task[c] = "none"
<1>1. records[c] \in CheckRecord /\ task[c] \in TaskSteps
  BY DEF IInv, TypeOK
<1>2. RecordSound(records[c], c)
  BY DEF IInv, RecordTellsTask, RecordSound, AfterRunning
<1>3. records[c].status = "absent" <=> task[c] = "none"
  BY <1>1 DEF IInv, RecordTellsTask, TaskSteps, RunSteps, BeforeRunning, WhileRunning,
     AfterRunning, Terminal, Absent
<1> QED
  BY <1>1, <1>2, <1>3

\* Growing is reflexive.
LEMMA GrowsNot ==
  ASSUME NEW r \in CheckRecord
  PROVE  Grows(r, r)
<1>1. Rank(r.status) \in 0..3
  BY RankNat DEF CheckRecord
<1> QED
  BY <1>1 DEF Grows

\* As long as the process lives, records only grow.
LEMMA RecordsGrow ==
  ASSUME IInv, [Next]_vars, ~Restart, NEW d \in Checks
  PROVE  Grows(records[d], records'[d])
<1>1. CASE records'[d] = records[d]
  BY <1>1, RecordFacts, GrowsNot
<1>2. ASSUME NEW c \in Checks, NEW cb \in BOOLEAN, Submit(c, cb)
      PROVE  Grows(records[d], records'[d])
  <2>1. CASE d = c
    <3>1. records[c] = Absent /\ records'[c] = NewRecord(cb)
      BY <1>2 DEF Submit, IInv, TypeOK, RecordTellsTask
    <3> QED
      BY <2>1, <3>1, RankTable DEF Grows, Absent, NewRecord, Terminal
  <2>2. CASE d # c
    BY <1>1, <1>2, <2>2 DEF Submit, IInv, TypeOK
  <2> QED
    BY <2>1, <2>2
<1>3. ASSUME NEW c \in Checks, SetStatus(c)
      PROVE  Grows(records[d], records'[d])
  <2>1. CASE d = c
    <3>1. records[c].result = None /\ records[c].error = None
      BY <1>3 DEF SetStatus, IInv, RecordTellsTask, AfterRunning
    <3>2. CASE task[c] = "set_running"
      <4>1. records[c].status = "queued" /\ records'[c].status = "running"
        BY <1>3, <3>2 DEF SetStatus, IInv, TypeOK, CheckRecord, RecordTellsTask, BeforeRunning
      <4> QED
        BY <2>1, <3>1, <4>1, RankTable DEF Grows, Terminal
    <3>3. CASE task[c] = "set_done"
      <4>1. /\ records[c].status = "running" /\ outcome[c] \in Terminal
            /\ records'[c].status = outcome[c]
        BY <1>3, <3>3 DEF SetStatus, IInv, TypeOK, CheckRecord, RecordTellsTask, WhileRunning
      <4> QED
        BY <2>1, <3>1, <4>1, RankTable DEF Grows, Terminal
    <3> QED
      BY <1>3, <3>2, <3>3 DEF SetStatus
  <2>2. CASE d # c
    BY <1>1, <1>3, <2>2 DEF SetStatus, IInv, TypeOK
  <2> QED
    BY <2>1, <2>2
<1>4. ASSUME NEW c \in Checks, SetPayload(c)
      PROVE  Grows(records[d], records'[d])
  <2>1. CASE d = c
    <3>1. records[c].result = None /\ records[c].error = None /\ records[c] \in CheckRecord
      BY <1>4 DEF SetPayload, IInv, TypeOK, RecordTellsTask, AfterRunning
    <3>2. records'[c].status = records[c].status
      BY <1>4 DEF SetPayload, IInv, TypeOK, CheckRecord
    <3>3. Rank(records[c].status) \in 0..3
      BY <3>1, RankNat DEF CheckRecord
    <3> QED
      BY <2>1, <3>1, <3>2, <3>3 DEF Grows
  <2>2. CASE d # c
    BY <1>1, <1>4, <2>2 DEF SetPayload, IInv, TypeOK
  <2> QED
    BY <2>1, <2>2
<1>5. ASSUME NEW c \in Checks,
             \/ Respond(c) \/ StartTask(c) \/ BeginUpdate(c) \/ EndUpdate(c)
             \/ Invoke(c) \/ Lookup(c) \/ SendCallback(c)
      PROVE  records' = records
  BY <1>5 DEF Respond, StartTask, BeginUpdate, EndUpdate, Invoke, Lookup, SendCallback
<1>6. ASSUME NEW p \in Pollers, (\E c \in Checks : StartPoll(p, c)) \/ PollStep(p)
      PROVE  records' = records
  BY <1>6, PollsOnlyRead DEF serviceVars
<1>7. UNCHANGED vars => records' = records
  BY DEF vars
<1> QED
  BY <1>1, <1>2, <1>3, <1>4, <1>5, <1>6, <1>7 DEF Next, TaskStep

\* A request that reads nothing keeps a sound view, however its record grows.
LEMMA ViewStaysSound ==
  ASSUME NEW q, NEW old \in CheckRecord, NEW new \in CheckRecord,
         q.atStart.status \in RecordStatuses,
         ViewSound(q, old), Grows(old, new)
  PROVE  ViewSound(q, new)
<1>1. /\ Rank(old.status) \in 0..3 /\ Rank(new.status) \in 0..3
      /\ Rank(q.atStart.status) \in 0..3
  BY RankNat DEF CheckRecord
<1>2. Rank(q.atStart.status) <= Rank(new.status)
  BY <1>1 DEF ViewSound, Grows
<1>3. old.status # "absent" => new.status # "absent"
  BY RankTable DEF Grows, CheckRecord, RecordStatuses, Terminal
<1> QED
  BY <1>2, <1>3 DEF ViewSound, Grows, Terminal

-----------------------------------------------------------------------------
(* The steps of a request, and of everybody else. *)

\* The fields of a request.
LEMMA PollFields ==
  ASSUME IInv, NEW p \in Pollers
  PROVE  /\ poll[p] \in [pc : PollSteps, id : Checks \cup {None},
                         view : CheckRecord, atStart : CheckRecord]
         /\ poll[p].atStart.status \in RecordStatuses
  BY DEF IInv, TypeOK, CheckRecord

\* A request gets its thread.
LEMMA StartSound ==
  ASSUME AInv, IInv', NEW p \in Pollers, NEW c \in Checks, StartPoll(p, c)
  PROVE  PollInv'
<1>1. /\ UNCHANGED serviceVars /\ c \in issued
      /\ \A q \in Pollers : q # p => poll'[q] = poll[q]
  BY PollsOnlyRead DEF StartPoll, AInv, IInv, TypeOK
<1>2. /\ poll'[p].pc = "get" /\ poll'[p].id = c /\ poll'[p].view = Absent
      /\ poll'[p].atStart = IF Settled(c) THEN records[c]
                            ELSE [Absent EXCEPT !.status = records[c].status]
  BY DEF StartPoll, AInv, IInv, TypeOK
<1>3. RecordSound(records[c], c) /\ records[c] \in CheckRecord
  BY RecordFacts DEF AInv
<1>4. Rank(records[c].status) \in 0..3
  BY <1>3, RankNat DEF CheckRecord
<1>5. ViewSound(poll'[p], records[c])
  <2>1. /\ poll'[p].atStart.status = records[c].status
        /\ poll'[p].atStart.result # None \/ poll'[p].atStart.error # None =>
              poll'[p].atStart = records[c]
    BY <1>2, <1>3 DEF Absent, CheckRecord
  <2> QED
    BY <1>2, <1>4, <2>1 DEF ViewSound, Absent, Terminal
<1> QED
  BY <1>1, <1>2, <1>5 DEF AInv, PollInv, serviceVars

\* store.get: a missing record is a lost one.
LEMMA GetSound ==
  ASSUME AInv, IInv', NEW p \in Pollers, PollGet(p)
  PROVE  PollInv'
<1> DEFINE c == poll[p].id
           step == IF records[c].status = "absent" THEN "reply" ELSE "status"
<1>1. /\ UNCHANGED serviceVars
      /\ \A q \in Pollers : q # p => poll'[q] = poll[q]
  BY PollsOnlyRead DEF PollGet, PollStep, AInv, IInv, TypeOK
<1>2. /\ poll[p].pc = "get" /\ poll'[p].pc = step /\ poll'[p].id = c
      /\ poll'[p].view = poll[p].view /\ poll'[p].atStart = poll[p].atStart
  BY DEF PollGet, AInv, IInv, TypeOK
<1>3. /\ c \in issued /\ c \in Checks /\ ViewSound(poll[p], records[c])
      /\ c \in lost \/ records[c].status # "absent"
  BY <1>2 DEF AInv, PollInv, IssuedKnown, IInv, TypeOK
<1>4. RecordSound(records[c], c) /\ records[c] \in CheckRecord
  BY <1>3, RecordFacts DEF AInv
<1>5. ViewSound(poll'[p], records[c])
  <2>1. CASE records[c].status = "absent"
    <3>1. records[c].result = None /\ records[c].error = None
      BY <1>4, <2>1 DEF RecordSound
    <3>2. poll[p].view.status = "absent"
      BY <1>2, <1>3 DEF ViewSound
    <3> QED
      BY <1>2, <1>3, <2>1, <3>1, <3>2 DEF ViewSound
  <2>2. CASE records[c].status # "absent"
    BY <1>2, <1>3, <2>2 DEF ViewSound
  <2> QED
    BY <2>1, <2>2
<1>6. poll'[p].pc = "reply" => c \in lost
  BY <1>2, <1>3
<1> QED
  BY <1>1, <1>2, <1>3, <1>5, <1>6 DEF AInv, PollInv, serviceVars

\* One field is read, from the record as it is now.
LEMMA ReadSound ==
  ASSUME AInv, IInv', NEW p \in Pollers, PollRead(p)
  PROVE  PollInv'
<1> DEFINE c == poll[p].id
           r == records[c]
<1>1. /\ UNCHANGED serviceVars
      /\ \A q \in Pollers : q # p => poll'[q] = poll[q]
  <2>1. UNCHANGED serviceVars
    BY PollsOnlyRead DEF PollStep
  <2>2. \E x : poll' = [poll EXCEPT ![p] = x]
    BY DEF PollRead
  <2>3. DOMAIN poll = Pollers
    BY DEF AInv, IInv, TypeOK
  <2> QED
    BY <2>1, <2>2, <2>3
<1>2. /\ poll'[p].id = c /\ poll'[p].atStart = poll[p].atStart
      /\ poll'[p].view.callback = poll[p].view.callback
      /\ \/ /\ poll[p].pc = "status" /\ poll'[p].pc = "result"
            /\ poll'[p].view.status = r.status /\ poll'[p].view.result = poll[p].view.result
            /\ poll'[p].view.error = poll[p].view.error
         \/ /\ poll[p].pc = "result" /\ poll'[p].pc = "error"
            /\ poll'[p].view.result = r.result /\ poll'[p].view.status = poll[p].view.status
            /\ poll'[p].view.error = poll[p].view.error
         \/ /\ poll[p].pc = "error" /\ poll'[p].pc = "reply"
            /\ poll'[p].view.error = r.error /\ poll'[p].view.status = poll[p].view.status
            /\ poll'[p].view.result = poll[p].view.result
  <2>1. /\ poll \in [Pollers -> [pc : PollSteps, id : Checks \cup {None},
                                view : CheckRecord, atStart : CheckRecord]]
        /\ poll[p].view \in CheckRecord
    BY DEF AInv, IInv, TypeOK
  <2>2. CASE poll[p].pc = "status"
    BY <2>1, <2>2 DEF PollRead, CheckRecord
  <2>3. CASE poll[p].pc = "result"
    BY <2>1, <2>3 DEF PollRead, CheckRecord
  <2>4. CASE poll[p].pc = "error"
    BY <2>1, <2>4 DEF PollRead, CheckRecord
  <2> QED
    BY <2>2, <2>3, <2>4 DEF PollRead
<1>3. c \in issued /\ c \in Checks /\ ViewSound(poll[p], r)
  BY <1>2 DEF AInv, PollInv, IInv, TypeOK
<1>4. RecordSound(r, c) /\ r \in CheckRecord
  BY <1>3, RecordFacts DEF AInv
<1>5. ViewSound(poll'[p], r)
  <2>1. CASE poll[p].pc = "status"
    BY <1>2, <1>3, <1>4, <2>1 DEF ViewSound, Terminal
  <2>2. CASE poll[p].pc = "result"
    BY <1>2, <1>3, <1>4, <2>2 DEF ViewSound, RecordSound
  <2>3. CASE poll[p].pc = "error"
    BY <1>2, <1>3, <1>4, <2>3 DEF ViewSound, RecordSound
  <2> QED
    BY <1>2, <2>1, <2>2, <2>3
<1>6. poll'[p].view.status # "absent"
  BY <1>2, <1>3 DEF ViewSound
<1> QED
  BY <1>1, <1>2, <1>3, <1>5, <1>6 DEF AInv, PollInv, serviceVars

\* What nobody reads leaves the requests in flight sound, because records grow.
LEMMA OthersSound ==
  ASSUME AInv, [Next]_vars, ~Restart, poll' = poll, issued \subseteq issued', lost \subseteq lost',
         IInv'
  PROVE  PollInv'
<1> SUFFICES ASSUME NEW p \in Pollers, poll[p].pc # "idle"
             PROVE  /\ poll[p].id \in issued'
                    /\ ViewSound(poll[p], records'[poll[p].id])
                    /\ poll[p].pc = "reply" /\ poll[p].view.status = "absent" =>
                          poll[p].id \in lost'
  BY DEF PollInv
<1>1. /\ poll[p].id \in issued /\ poll[p].id \in Checks
      /\ ViewSound(poll[p], records[poll[p].id])
      /\ poll[p].pc = "reply" /\ poll[p].view.status = "absent" => poll[p].id \in lost
  BY DEF AInv, PollInv, IInv, TypeOK
<1>2. records[poll[p].id] \in CheckRecord /\ records'[poll[p].id] \in CheckRecord
  BY <1>1 DEF AInv, IInv, TypeOK
<1>3. Grows(records[poll[p].id], records'[poll[p].id])
  BY <1>1, RecordsGrow DEF AInv
<1>4. ViewSound(poll[p], records'[poll[p].id])
  BY <1>1, <1>2, <1>3, PollFields, ViewStaysSound DEF AInv
<1> QED
  BY <1>1, <1>4

\* The answer leaves: it holds the view, and what the view does not mix.
LEMMA ReplySound ==
  ASSUME AInv, IInv', NEW p \in Pollers, PollReply(p)
  PROVE  PollInv' /\ AnswersNeverMix' /\ NotFoundOnlyIfLost'
<1> DEFINE c == poll[p].id
           v == poll[p].view
<1>1. /\ UNCHANGED serviceVars
      /\ \A q \in Pollers : q # p => poll'[q] = poll[q] /\ answer'[q] = answer[q]
  <2>1. UNCHANGED serviceVars
    BY PollsOnlyRead DEF PollStep
  <2>2. DOMAIN poll = Pollers /\ DOMAIN answer = Pollers
    BY DEF AInv, IInv, TypeOK
  <2> QED
    BY <2>1, <2>2 DEF PollReply
<1>2. /\ poll[p].pc = "reply" /\ poll'[p].pc = "idle"
      /\ answer'[p] = [id |-> c, view |-> v,
                       code |-> IF v.status = "absent" THEN 404 ELSE 200]
  BY DEF PollReply, IdlePoll, AInv, IInv, TypeOK
<1>3. /\ ViewSound(poll[p], records[c])
      /\ v.status = "absent" => c \in lost
  BY <1>2 DEF AInv, PollInv
<1>4. PollInv'
  BY <1>1, <1>2 DEF AInv, PollInv, serviceVars
<1>5. AnswersNeverMix'
  <2>1. /\ v.result \in {None, c} /\ v.error \in {None, c}
        /\ v.result = None \/ v.error = None
        /\ v.status = "completed" => v.error = None
        /\ v.status = "failed" => v.result = None
    BY <1>3 DEF ViewSound, Terminal
  <2> QED
    BY <1>1, <1>2, <2>1 DEF AInv, AnswersNeverMix
<1>6. NotFoundOnlyIfLost'
  BY <1>1, <1>2, <1>3 DEF AInv, NotFoundOnlyIfLost, serviceVars
<1> QED
  BY <1>4, <1>5, <1>6

\* An identifier that was given out stays known, or a restart loses it.
LEMMA IssuedStep ==
  ASSUME AInv, IInv', [Next]_vars
  PROVE  IssuedKnown'
<1>1. CASE Restart
  BY <1>1 DEF Restart, AInv, IInv, TypeOK, IssuedKnown
<1>2. ASSUME NEW c \in Checks, Respond(c)
      PROVE  IssuedKnown'
  <2>1. task[c] = "created" /\ issued' = issued \cup {c} /\ UNCHANGED <<records, lost>>
    BY <1>2 DEF Respond
  <2>2. records[c].status # "absent"
    BY <2>1, RecordFacts DEF AInv
  <2> QED
    BY <2>1, <2>2 DEF AInv, IssuedKnown
<1>3. ASSUME issued' = issued, lost' = lost, ~Restart
      PROVE  IssuedKnown'
  <2> SUFFICES ASSUME NEW c \in issued, c \notin lost
               PROVE  records'[c].status # "absent"
    BY <1>3 DEF IssuedKnown
  <2>1. c \in Checks /\ records[c].status # "absent"
    BY DEF AInv, IssuedKnown, IInv, TypeOK
  <2>2. Grows(records[c], records'[c]) /\ records[c].status \in RecordStatuses
    BY <1>3, <2>1, RecordsGrow, RecordFacts DEF AInv, CheckRecord
  <2> QED
    BY <2>1, <2>2, RankTable DEF Grows, RecordStatuses, Terminal
<1>4. ASSUME NEW c \in Checks,
             (\E cb \in BOOLEAN : Submit(c, cb)) \/ StartTask(c) \/ TaskStep(c)
      PROVE  issued' = issued /\ lost' = lost
  BY <1>4 DEF Submit, StartTask, TaskStep, BeginUpdate, SetStatus, SetPayload, EndUpdate,
     Invoke, Lookup, SendCallback
<1>5. ASSUME NEW p \in Pollers, (\E c \in Checks : StartPoll(p, c)) \/ PollStep(p)
      PROVE  issued' = issued /\ lost' = lost
  BY <1>5, PollsOnlyRead DEF serviceVars
<1>6. UNCHANGED vars => issued' = issued /\ lost' = lost
  BY DEF vars
<1> QED
  BY <1>1, <1>2, <1>3, <1>4, <1>5, <1>6 DEF Next

\* The requests and the answers in every step.
LEMMA AnswerStep ==
  ASSUME AInv, IInv', [Next]_vars
  PROVE  PollInv' /\ AnswersNeverMix' /\ NotFoundOnlyIfLost'
<1>1. ASSUME answer' = answer, lost \subseteq lost'
      PROVE  AnswersNeverMix' /\ NotFoundOnlyIfLost'
  BY <1>1 DEF AInv, AnswersNeverMix, NotFoundOnlyIfLost
<1>2. CASE Restart
  <2>1. PollInv'
    BY <1>2 DEF Restart, PollInv, IdlePoll
  <2> QED
    BY <1>1, <1>2, <2>1 DEF Restart
<1>3. ASSUME poll' = poll, answer' = answer, issued \subseteq issued', lost' = lost, ~Restart
      PROVE  PollInv' /\ AnswersNeverMix' /\ NotFoundOnlyIfLost'
  BY <1>1, <1>3, OthersSound
<1>4. ASSUME NEW c \in Checks,
             (\E cb \in BOOLEAN : Submit(c, cb)) \/ Respond(c) \/ StartTask(c) \/ TaskStep(c)
      PROVE  poll' = poll /\ answer' = answer /\ issued \subseteq issued' /\ lost' = lost
  BY <1>4 DEF Submit, Respond, StartTask, TaskStep, BeginUpdate, SetStatus, SetPayload,
     EndUpdate, Invoke, Lookup, SendCallback
<1>5. ASSUME NEW p \in Pollers, NEW c \in Checks, StartPoll(p, c)
      PROVE  PollInv' /\ AnswersNeverMix' /\ NotFoundOnlyIfLost'
  BY <1>1, <1>5, StartSound DEF StartPoll
<1>6. ASSUME NEW p \in Pollers, PollGet(p)
      PROVE  PollInv' /\ AnswersNeverMix' /\ NotFoundOnlyIfLost'
  BY <1>1, <1>6, GetSound DEF PollGet
<1>7. ASSUME NEW p \in Pollers, PollRead(p)
      PROVE  PollInv' /\ AnswersNeverMix' /\ NotFoundOnlyIfLost'
  BY <1>1, <1>7, ReadSound DEF PollRead
<1>8. UNCHANGED vars => poll' = poll /\ answer' = answer /\ issued' = issued /\ lost' = lost
  BY DEF vars
<1> QED
  BY <1>2, <1>3, <1>4, <1>5, <1>6, <1>7, <1>8, ReplySound DEF Next, PollStep

\* The invariant of the answers holds in every reachable state.
LEMMA AnswersInvariance == Spec => []AInv
<1>1. Init => AInv
  BY InitIInv DEF Init, AInv, IssuedKnown, PollInv, IdlePoll, AnswersNeverMix, NoAnswer,
     Absent, NotFoundOnlyIfLost
<1>2. AInv /\ IInv' /\ [Next]_vars => AInv'
  BY IssuedStep, AnswerStep DEF AInv
<1> QED
  BY <1>1, <1>2, Invariance, PTL DEF Spec

-----------------------------------------------------------------------------
\* get_check reads without the lock, and yet no answer mixes the two outcomes
\* or carries the payload of another check.
THEOREM NoMixedAnswer == Spec => []AnswersNeverMix
<1>1. AInv => AnswersNeverMix
  BY DEF AInv
<1> QED
  BY <1>1, AnswersInvariance, PTL

\* A 404 for an identifier the service gave out means a restart.
THEOREM NotFoundMeansLost == Spec => []NotFoundOnlyIfLost
<1>1. AInv => NotFoundOnlyIfLost
  BY DEF AInv
<1> QED
  BY <1>1, AnswersInvariance, PTL

\* No answer is older than its request; a request that found its check ended
\* is answered with the whole final record.
THEOREM FreshAnswer == Spec => []AnswersNotStale
<1>1. AInv => AnswersNotStale
  <2> SUFFICES ASSUME AInv, NEW p \in Pollers, poll[p].pc = "reply"
               PROVE  LET seen == poll[p].atStart IN
                      /\ Rank(poll[p].view.status) >= Rank(seen.status)
                      /\ (seen.result # None \/ seen.error # None) =>
                            poll[p].view = [seen EXCEPT !.callback = FALSE]
    BY DEF AnswersNotStale
  <2> DEFINE seen == poll[p].atStart
             view == poll[p].view
  <2>1. ViewSound(poll[p], records[poll[p].id])
    BY DEF AInv, PollInv
  <2>2. view \in CheckRecord /\ seen \in CheckRecord
    BY DEF AInv, IInv, TypeOK
  <2>3. Rank(view.status) \in 0..3 /\ Rank(seen.status) \in 0..3
    BY <2>2, RankNat DEF CheckRecord
  <2>4. Rank(view.status) >= Rank(seen.status)
    BY <2>1, <2>3 DEF ViewSound
  <2>5. ASSUME seen.result # None \/ seen.error # None
        PROVE  view = [seen EXCEPT !.callback = FALSE]
    <3>1. /\ view.status = seen.status /\ view.result = seen.result
          /\ view.error = seen.error /\ view.callback = FALSE
      BY <2>1, <2>5 DEF ViewSound
    <3> QED
      BY <2>2, <3>1 DEF CheckRecord
  <2> QED
    BY <2>4, <2>5
<1> QED
  BY <1>1, AnswersInvariance, PTL
=============================================================================
