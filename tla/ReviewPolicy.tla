---------------------------- MODULE ReviewPolicy ----------------------------
(***************************************************************************)
(* What both ways of running a check, real-time and batch, are said to     *)
(* guarantee: every reference gets one verdict; one whose processing went  *)
(* wrong is left to a human rather than failing the run; the candidate is  *)
(* cleared only after every reference has been, and all of them cleared.   *)
(***************************************************************************)
EXTENDS Naturals

CONSTANT Refs          \* the references of one candidate

VARIABLES unread,      \* unread[r]: something of r could not be processed
          verdict,     \* verdict[r]: "pending", "cleared" or "review"
          overall      \* the candidate's verdict

policyVars == <<unread, verdict, overall>>

Init ==
    /\ unread = [r \in Refs |-> FALSE]
    /\ verdict = [r \in Refs |-> "pending"]
    /\ overall = "pending"

GoesWrong(r) ==
    /\ verdict[r] = "pending"
    /\ unread' = [unread EXCEPT ![r] = TRUE]
    /\ UNCHANGED <<verdict, overall>>

Clear(r) ==
    /\ verdict[r] = "pending" /\ ~unread[r]
    /\ verdict' = [verdict EXCEPT ![r] = "cleared"]
    /\ UNCHANGED <<unread, overall>>

\* Always allowed; it may be because something goes wrong in the same step.
Review(r) ==
    /\ verdict[r] = "pending"
    /\ verdict' = [verdict EXCEPT ![r] = "review"]
    /\ \/ UNCHANGED unread
       \/ unread' = [unread EXCEPT ![r] = TRUE]
    /\ UNCHANGED overall

Conclude ==
    /\ overall = "pending"
    /\ \A r \in Refs : verdict[r] # "pending"
    /\ \/ overall' = "review"
       \/ overall' = "cleared" /\ \A r \in Refs : verdict[r] = "cleared"
    /\ UNCHANGED <<unread, verdict>>

Next == Conclude \/ \E r \in Refs : GoesWrong(r) \/ Clear(r) \/ Review(r)

Spec == Init /\ [][Next]_policyVars
=============================================================================
