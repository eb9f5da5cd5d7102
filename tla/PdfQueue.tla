------------------------------ MODULE PdfQueue ------------------------------
(***************************************************************************)
(* The queue of PDF resolutions: the rows of publication_pdf_jobs, the     *)
(* three ways a row is queued (a publication listing, a retry asked for by *)
(* a user or an administrator, the scheduler's drain) and the asyncio      *)
(* tasks that resolve the queued rows one after the other.                 *)
(*                                                                         *)
(* The rows are the only record of what is queued, the tasks live in       *)
(* memory: whoever queues a row also creates the task that serves it.      *)
(***************************************************************************)
EXTENDS Naturals, FiniteSets

CONSTANTS
    Publication,
    Task,           \* enqueue requests, each with the task it creates
    NoPublication,  \* a task that is between two rows
    MaxAttempts,    \* PDF_AUTO_RETRY_MAX_ATTEMPTS
    AttemptBound,   \* attempt_count is not counted beyond it
    RestartBound,   \* bound on the restarts of the service
    WritesGetLost   \* both writes of an outcome may fail

ASSUME PdfQueueConstants ==
    /\ NoPublication \notin Publication
    /\ MaxAttempts \in Nat \ {0}
    /\ AttemptBound \in Nat
    /\ RestartBound \in Nat
    /\ WritesGetLost \in BOOLEAN

VARIABLES
    status,     \* publication_pdf_jobs.status, "none": no row
    attempts,   \* publication_pdf_jobs.attempt_count
    age,        \* time since last_attempt_at, in classes of the thresholds
    pdf,        \* publications.pdf_url is set
    pc,         \* where the request or task is
    rows,       \* publications it has queued and not started yet
    inserts,    \* those it saw no row of: it inserts instead of updating
    current,    \* publication it resolves
    budget,     \* _budget_cooldown_until has not passed
    restarts,
    abandoned   \* history: a task gave the publication up before its outcome

taskVars == <<pc, rows, inserts, current>>
vars == <<status, attempts, age, pdf, taskVars, budget, restarts, abandoned>>

InFlight == {"queued", "running"}
Status == InFlight \cup {"resolved", "failed"}

\* Classes of time since the last attempt, by the thresholds the code knows.
Never == 0          \* last_attempt_at is NULL
Recent == 1         \* less than 10 minutes
Minutes == 2        \* less than PDF_AUTO_RETRY_FIRST_INTERVAL_SECONDS
Hours == 3          \* less than PDF_AUTO_RETRY_INTERVAL_SECONDS
Days == 4           \* less than 7 days
Weeks == 5

TaskPC == {"free", "deciding", "row", "fetching", "failing"}

TypeOK ==
    /\ status \in [Publication -> Status \cup {"none"}]
    /\ attempts \in [Publication -> 0..AttemptBound]
    /\ age \in [Publication -> Never..Weeks]
    /\ pdf \in [Publication -> BOOLEAN]
    /\ pc \in [Task -> TaskPC]
    /\ rows \in [Task -> SUBSET Publication]
    /\ inserts \in [Task -> SUBSET Publication]
    /\ current \in [Task -> Publication \cup {NoPublication}]
    /\ budget \in BOOLEAN
    /\ restarts \in 0..RestartBound
    /\ abandoned \subseteq Publication

\* Nothing is tracked yet; some publications were found with a PDF.
Init ==
    /\ status = [p \in Publication |-> "none"]
    /\ attempts = [p \in Publication |-> 0]
    /\ age = [p \in Publication |-> Never]
    /\ pdf \in [Publication -> BOOLEAN]
    /\ pc = [t \in Task |-> "free"]
    /\ rows = [t \in Task |-> {}]
    /\ inserts = [t \in Task |-> {}]
    /\ current = [t \in Task |-> NoPublication]
    /\ budget = FALSE
    /\ restarts = 0
    /\ abandoned = {}

-----------------------------------------------------------------------------
(* Policy                                                                  *)

\* _cooldown_active, by the number of attempts made.
CooldownActive(p) ==
    /\ age[p] # Never
    /\ age[p] < (IF attempts[p] <= 1 THEN Hours ELSE Days)

\* _can_enqueue_job
CanEnqueueJob(p, force) ==
    \/ status[p] = "none"
    \/ /\ status[p] \notin InFlight
       /\ \/ force
          \/ /\ status[p] # "resolved"
             /\ attempts[p] < MaxAttempts
             /\ ~CooldownActive(p)

MissingPdf_Untried(p) == ~pdf[p] /\ status[p] = "none" \* seeded fault

\* missing_pdf_candidates: no PDF, and no attempt in flight or in a week.
MissingPdf(p) ==
    /\ ~pdf[p]
    /\ \/ status[p] = "none"
       \/ status[p] \notin InFlight /\ age[p] \in {Never, Weeks}

-----------------------------------------------------------------------------
(* Queueing                                                                *)

\* _enqueue_rows reads the jobs and decides; the commit comes later.
Decide(t, candidates, force) ==
    LET queued == {p \in candidates : CanEnqueueJob(p, force)}
    IN  /\ pc[t] = "free"
        /\ queued # {}
        /\ pc' = [pc EXCEPT ![t] = "deciding"]
        /\ rows' = [rows EXCEPT ![t] = queued]
        /\ inserts' = [inserts EXCEPT ![t] = {p \in queued : status[p] = "none"}]
        /\ UNCHANGED <<status, attempts, age, pdf, current, budget, restarts, abandoned>>

\* enqueue_missing_pdf_jobs: a listing queues what it shows without a PDF.
EnqueueMissing(t, listed) == Decide(t, {p \in listed : ~pdf[p]}, FALSE)

\* enqueue_retry_pdf_job: a user or an administrator insists.
EnqueueRetry(t, p) == Decide(t, {p}, TRUE)

\* enqueue_all_missing_pdf_jobs, for an administrator.
EnqueueAllMissing(t) == Decide(t, {p \in Publication : MissingPdf(p)}, TRUE)

\* drain_ready_jobs does the same for the scheduler, outside the cooldown.
DrainReadyJobs(t) == ~budget /\ EnqueueAllMissing(t)

ScheduledRows_None(t) == {}     \* seeded fault: the task gets no rows

\* schedule_rows
ScheduledRows(t) == rows[t]

\* The commit succeeds and schedule_rows creates the task.
CommitQueued(t) ==
    /\ pc[t] = "deciding"
    /\ \A p \in inserts[t] : status[p] = "none"
    /\ status' = [p \in Publication |-> IF p \in rows[t] THEN "queued" ELSE status[p]]
    /\ pc' = [pc EXCEPT ![t] = "row"]
    /\ rows' = [rows EXCEPT ![t] = ScheduledRows(t)]
    /\ inserts' = [inserts EXCEPT ![t] = {}]
    /\ abandoned' = abandoned \ rows[t]
    /\ UNCHANGED <<attempts, age, pdf, current, budget, restarts>>

\* Another request has inserted one of the rows: the commit fails as a whole.
CommitRefused(t) ==
    /\ pc[t] = "deciding"
    /\ \E p \in inserts[t] : status[p] # "none"
    /\ pc' = [pc EXCEPT ![t] = "free"]
    /\ rows' = [rows EXCEPT ![t] = {}]
    /\ inserts' = [inserts EXCEPT ![t] = {}]
    /\ UNCHANGED <<status, attempts, age, pdf, current, budget, restarts, abandoned>>

-----------------------------------------------------------------------------
(* Resolution                                                              *)

\* _mark_attempt_started. The read and the write of attempt_count are one
\* step here.
MarkAttemptStarted(t, p) ==
    /\ pc[t] = "row"
    /\ p \in rows[t]
    /\ status' = [status EXCEPT ![p] = "running"]
    /\ attempts' = [attempts EXCEPT ![p] = IF @ < AttemptBound THEN @ + 1 ELSE @]
    /\ age' = [age EXCEPT ![p] = Recent]
    /\ rows' = [rows EXCEPT ![t] = @ \ {p}]
    /\ current' = [current EXCEPT ![t] = p]
    /\ pc' = [pc EXCEPT ![t] = "fetching"]
    /\ UNCHANGED <<pdf, inserts, budget, restarts, abandoned>>

\* _mark_attempt_started fails: the row is still given a failed outcome.
MarkFails(t, p) ==
    /\ pc[t] = "row"
    /\ p \in rows[t]
    /\ rows' = [rows EXCEPT ![t] = @ \ {p}]
    /\ current' = [current EXCEPT ![t] = p]
    /\ pc' = [pc EXCEPT ![t] = "failing"]
    /\ UNCHANGED <<status, attempts, age, pdf, inserts, budget, restarts, abandoned>>

Released(t) ==
    /\ current' = [current EXCEPT ![t] = NoPublication]
    /\ pc' = [pc EXCEPT ![t] = "row"]

PdfStored_Skipped(t) == pdf     \* seeded fault: only the job is updated

\* _apply_publication_update
PdfStored(t) == [pdf EXCEPT ![current[t]] = TRUE]

\* _persist_outcome with a PDF
PersistResolved(t) ==
    /\ pc[t] = "fetching"
    /\ status' = [status EXCEPT ![current[t]] = "resolved"]
    /\ pdf' = PdfStored(t)
    /\ Released(t)
    /\ abandoned' = abandoned \ {current[t]}
    /\ UNCHANGED <<attempts, age, rows, inserts, budget, restarts>>

\* _apply_job_outcome without a PDF
FailureStatus == "failed"

\* _persist_outcome without one: nothing found, an exception of the fetch, or
\* the second try after a failed write. A PDF found earlier stays.
PersistFailed(t) ==
    /\ pc[t] \in {"fetching", "failing"}
    /\ status' = [status EXCEPT ![current[t]] = FailureStatus]
    /\ Released(t)
    /\ abandoned' = abandoned \ {current[t]}
    /\ UNCHANGED <<attempts, age, pdf, rows, inserts, budget, restarts>>

\* The write of the outcome fails; _run_resolution_task tries once more.
PersistRaises(t) ==
    /\ pc[t] = "fetching"
    /\ pc' = [pc EXCEPT ![t] = "failing"]
    /\ UNCHANGED <<status, attempts, age, pdf, rows, inserts, current, budget,
                   restarts, abandoned>>

\* The second write fails too and is only logged.
PersistLost(t) ==
    /\ WritesGetLost
    /\ pc[t] = "failing"
    /\ Released(t)
    /\ abandoned' = abandoned \cup {current[t]}
    /\ UNCHANGED <<status, attempts, age, pdf, rows, inserts, budget, restarts>>

\* OpenAlexBudgetExhaustedError: this row fails, the batch is left.
BudgetExhausted(t) ==
    /\ pc[t] = "fetching"
    /\ status' = [status EXCEPT ![current[t]] = FailureStatus]
    /\ current' = [current EXCEPT ![t] = NoPublication]
    /\ rows' = [rows EXCEPT ![t] = {}]
    /\ pc' = [pc EXCEPT ![t] = "free"]
    /\ budget' = TRUE
    /\ abandoned' = (abandoned \ {current[t]}) \cup rows[t]
    /\ UNCHANGED <<attempts, age, pdf, inserts, restarts>>

TaskEnds(t) ==
    /\ pc[t] = "row"
    /\ rows[t] = {}
    /\ pc' = [pc EXCEPT ![t] = "free"]
    /\ UNCHANGED <<status, attempts, age, pdf, rows, inserts, current, budget,
                   restarts, abandoned>>

-----------------------------------------------------------------------------
(* Time and restarts                                                       *)

GrowsOlder(p) ==
    /\ age[p] \in Recent..Days
    /\ age' = [age EXCEPT ![p] = @ + 1]
    /\ UNCHANGED <<status, attempts, pdf, pc, rows, inserts, current, budget,
                   restarts, abandoned>>

BudgetCooldownEnds ==
    /\ budget
    /\ budget' = FALSE
    /\ UNCHANGED <<status, attempts, age, pdf, pc, rows, inserts, current, restarts,
                   abandoned>>

\* The tasks are gone; lifespan sets the RUNNING rows of long ago to QUEUED.
Restart ==
    /\ restarts < RestartBound
    /\ restarts' = restarts + 1
    /\ status' = [p \in Publication |->
                    IF status[p] = "running" /\ age[p] # Recent THEN "queued"
                                                                ELSE status[p]]
    /\ pc' = [t \in Task |-> "free"]
    /\ rows' = [t \in Task |-> {}]
    /\ inserts' = [t \in Task |-> {}]
    /\ current' = [t \in Task |-> NoPublication]
    /\ budget' = FALSE
    /\ abandoned' = abandoned \cup {p \in Publication : status[p] \in InFlight}
    /\ UNCHANGED <<attempts, age, pdf>>

-----------------------------------------------------------------------------
Enqueue(t) ==
    \/ \E listed \in SUBSET Publication : EnqueueMissing(t, listed)
    \/ \E p \in Publication : EnqueueRetry(t, p)
    \/ EnqueueAllMissing(t)
    \/ DrainReadyJobs(t)

TaskStep(t) ==
    \/ CommitQueued(t) \/ CommitRefused(t)
    \/ \E p \in Publication : MarkAttemptStarted(t, p) \/ MarkFails(t, p)
    \/ PersistResolved(t) \/ PersistFailed(t) \/ PersistRaises(t)
    \/ PersistLost(t) \/ BudgetExhausted(t) \/ TaskEnds(t)

Next ==
    \/ \E t \in Task : Enqueue(t) \/ TaskStep(t)
    \/ \E p \in Publication : GrowsOlder(p)
    \/ BudgetCooldownEnds
    \/ Restart

Spec == Init /\ [][Next]_vars

\* Requests and tasks run to their end and time passes. The scheduler drains at
\* every tick; the fairness is strong because a model that has few task ids may
\* have none free for a moment. Nobody is obliged to list or to insist.
Fairness ==
    /\ \A t \in Task : WF_vars(TaskStep(t))
    /\ SF_vars(\E t \in Task : DrainReadyJobs(t))
    /\ WF_vars(BudgetCooldownEnds)
    /\ \A p \in Publication : WF_vars(GrowsOlder(p))

FairSpec == Spec /\ Fairness
-----------------------------------------------------------------------------
(* Properties                                                              *)

\* Task t still has to serve publication p.
Attends(t, p) == current[t] = p \/ (pc[t] # "deciding" /\ p \in rows[t])

\* A row that is resolved has a PDF, whatever other tasks and restarts did to
\* the publication and its row in between.
ResolvedHasPdf == \A p \in Publication : status[p] = "resolved" => pdf[p]

\* A row in flight has a task that will serve it, unless a restart, an
\* exhausted budget or a lost write took the task away: no refused commit,
\* failing batch neighbour or second task for the same publication does.
InFlightAttended ==
    \A p \in Publication :
        status[p] \in InFlight /\ p \notin abandoned =>
            \E t \in Task : Attends(t, p)

\* A queued row gets an outcome, or is abandoned.
QueuedIsServed ==
    \A p \in Publication :
        status[p] = "queued" ~> status[p] \in {"resolved", "failed"} \/ p \in abandoned

\* The scheduler tries a publication that has no PDF again, after failed attempts
\* and failed writes too, as long as its attempts are below the limit and its
\* row is not abandoned.
AutomaticRetry ==
    \A p \in Publication :
        ~pdf[p] /\ attempts[p] < MaxAttempts
            ~> (pdf[p] \/ p \in abandoned \/ \E t \in Task : current[t] = p)

\* What a task holds at each of its places; with TypeOK it makes
\* InFlightAttended inductive.
TaskHoldings ==
    \A t \in Task :
        /\ pc[t] = "free" => rows[t] = {}
        /\ pc[t] \in {"fetching", "failing"} <=> current[t] # NoPublication

PdfQueueInv ==
    /\ TypeOK
    /\ TaskHoldings
    /\ ResolvedHasPdf
    /\ InFlightAttended

-----------------------------------------------------------------------------
(* Claims of the documentation that do not hold                            *)

\* "with automatic retry queue" (README.md): a queued row gets an outcome, also
\* when the task that was to resolve it left its batch.
EnqueuedIsSettled ==
    \A p \in Publication : status[p] = "queued" ~> status[p] \in {"resolved", "failed"}

\* The service by itself: publications are listed and the scheduler drains, but
\* no user and no administrator insists.
UnattendedNext ==
    \/ \E t \in Task :
          \/ \E listed \in SUBSET Publication : EnqueueMissing(t, listed)
          \/ DrainReadyJobs(t)
          \/ TaskStep(t)
    \/ \E p \in Publication : GrowsOlder(p)
    \/ BudgetCooldownEnds
    \/ Restart

UnattendedSpec == Init /\ [][UnattendedNext]_vars

\* "Max auto-retry attempts" (docs/user/configuration.md, of
\* PDF_AUTO_RETRY_MAX_ATTEMPTS): where nobody insists, a publication is tried as
\* many times again as the setting says, and no more.
AttemptsWithinLimit == \A p \in Publication : attempts[p] <= 1 + MaxAttempts
=============================================================================
