------------------------------- MODULE RunRecord -------------------------------
(***************************************************************************)
(* What the table crawl_runs promises to everybody who reads it: the runs  *)
(* list, the stream, the scheduler's is_due and the frontend.  No task, no *)
(* session, no lock and no index appears: only the committed status, owner *)
(* and end of each run, and how they may change.                           *)
(***************************************************************************)
CONSTANTS User, Run, NoUser

VARIABLES
    status,     \* committed crawl_runs.status, "none" before the first commit
    holder,     \* whose run it is
    over        \* end_dt is set

recordVars == <<status, holder, over>>

Active == {"running", "resolving"}
Final == {"success", "partial_failure", "failed"}

RecordInit ==
    /\ status = [r \in Run |-> "none"]
    /\ holder = [r \in Run |-> NoUser]
    /\ over = [r \in Run |-> FALSE]

\* The account of run r, u, has no other active run.
Alone(r, u) == \A q \in Run \ {r} : holder[q] = u => status[q] \notin Active

\* The first commit shows a running run, or one that is over already.
Publish(r, u) ==
    /\ status[r] = "none"
    /\ Alone(r, u)
    /\ holder' = [holder EXCEPT ![r] = u]
    /\ \/ /\ status' = [status EXCEPT ![r] = "running"]
          /\ UNCHANGED over
       \/ /\ status' = [status EXCEPT ![r] = "resolving"]
          /\ over' = [over EXCEPT ![r] = TRUE]

\* The passes are done; a cancel the task did not see is overwritten, unless
\* the account has another active run by now.
Resolve(r) ==
    /\ status[r] \in {"running", "canceled"}
    /\ Alone(r, holder[r])
    /\ status' = [status EXCEPT ![r] = "resolving"]
    /\ over' = [over EXCEPT ![r] = TRUE]
    /\ UNCHANGED holder

\* The enrichment is done; here too an unseen cancel is overwritten.
Settle(r) ==
    /\ status[r] \in {"resolving", "canceled"}
    /\ over[r]
    /\ \E outcome \in Final : status' = [status EXCEPT ![r] = outcome]
    /\ UNCHANGED <<holder, over>>

\* The task fails the run.
Fail(r) ==
    /\ status[r] \in {"running", "canceled"}
    /\ status' = [status EXCEPT ![r] = "failed"]
    /\ over' = [over EXCEPT ![r] = TRUE]
    /\ UNCHANGED holder

\* A cancel request, which may come late.
Cancel(r) ==
    /\ status[r] # "none"
    /\ status' = [status EXCEPT ![r] = "canceled"]
    /\ UNCHANGED <<holder, over>>

\* The task of a canceled run notes its end.
Leave(r) ==
    /\ status[r] = "canceled"
    /\ over' = [over EXCEPT ![r] = TRUE]
    /\ UNCHANGED <<status, holder>>

\* A restart fails whatever was active.
Recover ==
    /\ status' = [r \in Run |-> IF status[r] \in Active THEN "failed" ELSE status[r]]
    /\ UNCHANGED <<holder, over>>

RecordNext ==
    \/ \E r \in Run :
        \/ \E u \in User : Publish(r, u)
        \/ Resolve(r) \/ Settle(r) \/ Fail(r) \/ Cancel(r) \/ Leave(r)
    \/ Recover

RecordSpec == RecordInit /\ [][RecordNext]_recordVars
=============================================================================
