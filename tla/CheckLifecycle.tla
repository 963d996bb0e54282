--------------------------- MODULE CheckLifecycle ---------------------------
(***************************************************************************)
(* What the REST API promises about one check, without threads, locks or   *)
(* half-written records: a check is accepted once, starts once, and ends   *)
(* once, with a result or with an error and never with both.  A restart of *)
(* the process forgets every check it held (the store is in memory).       *)
(*                                                                         *)
(* CheckService implements this module; see CheckService!Lifecycle.        *)
(***************************************************************************)
CONSTANTS Checks,      \* the identifiers InMemoryCheckStore.create may draw
          None         \* Python's None in CheckRecord.result and .error

VARIABLE life          \* life[c]: the record a reader of the store may rely on

Statuses == {"absent", "queued", "running", "completed", "failed", "lost"}

Life == [status : Statuses, result : Checks \cup {None}, error : Checks \cup {None}]

LifeOf(status) == [status |-> status, result |-> None, error |-> None]

LifecycleTypeOK == life \in [Checks -> Life]

Init == life = [c \in Checks |-> LifeOf("absent")]

Accept(c) ==
    /\ life[c].status = "absent"
    /\ life' = [life EXCEPT ![c] = LifeOf("queued")]

Start(c) ==
    /\ life[c].status = "queued"
    /\ life' = [life EXCEPT ![c] = LifeOf("running")]

\* The result of a check is named after the check that owns it, and so is
\* its error message: handing out another check's would be visible.
Complete(c) ==
    /\ life[c].status = "running"
    /\ life' = [life EXCEPT ![c] = [status |-> "completed", result |-> c, error |-> None]]

Fail(c) ==
    /\ life[c].status = "running"
    /\ life' = [life EXCEPT ![c] = [status |-> "failed", result |-> None, error |-> c]]

Finish(c) == Complete(c) \/ Fail(c)

Restart ==
    life' = [c \in Checks |->
                IF life[c].status = "absent" THEN life[c] ELSE LifeOf("lost")]

Next == Restart \/ \E c \in Checks : Accept(c) \/ Start(c) \/ Finish(c)

Spec == Init /\ [][Next]_life

\* The service owes progress to every check it has accepted.
Fairness == \A c \in Checks : WF_life(Start(c)) /\ WF_life(Finish(c))

FairSpec == Spec /\ Fairness
=============================================================================
