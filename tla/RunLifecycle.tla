---------------------------- MODULE RunLifecycle ----------------------------
(***************************************************************************)
(* The life of a crawl run: the row of crawl_runs, the asyncio task that   *)
(* executes it, the per-user advisory lock, the partial unique index on    *)
(* active runs, the cancel endpoint and a restart of the service.          *)
(*                                                                         *)
(* Several database sessions interleave: the request that starts a manual  *)
(* run, the background task that executes it, the scheduler's session, the *)
(* enrichment session and the cancel request.  A session keeps its own     *)
(* copy (mem) of the status it last read, and an UPDATE is blind: it       *)
(* writes what the session decided from that copy.                         *)
(***************************************************************************)
EXTENDS Naturals, FiniteSets

CONSTANTS
    User,           \* accounts
    Run,            \* run ids, each used for one attempt
    NoRun,          \* nobody holds the advisory lock
    NoUser,         \* owner of an id that is not used yet
    Outcome,        \* statuses resolve_run_status may compute
    MaxBoundaries   \* scholar and page boundaries in one run

Finished == {"success", "partial_failure", "failed"}
ACTIVE_RUN_STATUSES == {"running", "resolving"}
RunStatus == ACTIVE_RUN_STATUSES \cup Finished \cup {"canceled"}

ASSUME ConstantsAssumption ==
    /\ NoRun \notin Run
    /\ NoUser \notin User
    /\ Outcome \subseteq Finished
    /\ MaxBoundaries \in Nat

VARIABLES
    row,        \* crawl_runs.status as the last writer left it, "none": no row
    published,  \* the row is committed: other sessions see it
    ended,      \* crawl_runs.end_dt is set
    owner,      \* crawl_runs.user_id
    trigger,    \* crawl_runs.trigger_type
    lock,       \* holder of the transaction-scoped advisory lock of a user
    pc,         \* where the task of the run is
    mem,        \* run.status in the session of that task
    intended,   \* intended_final_status handed to the enrichment step
    left,       \* boundaries the iteration has left
    canceling,  \* runs whose cancel request has read an active status
    lost        \* history: runs whose last-resort status write was lost

vars == <<row, published, ended, owner, trigger, lock, pc, mem, intended,
          left, canceling, lost>>

PC == {"unused", "starting", "inserted", "spawned", "iterating", "scraping",
       "completing", "enriching", "finalizing", "fallback",
       "fallback_finalizing", "failing", "gone"}

\* Places of a task that may still request pages of Google Scholar.
Scraping == {"spawned", "iterating", "scraping"}

TypeOK ==
    /\ row \in [Run -> RunStatus \cup {"none"}]
    /\ published \in [Run -> BOOLEAN]
    /\ ended \in [Run -> BOOLEAN]
    /\ owner \in [Run -> User \cup {NoUser}]
    /\ trigger \in [Run -> {"manual", "scheduled"}]
    /\ lock \in [User -> Run \cup {NoRun}]
    /\ pc \in [Run -> PC]
    /\ mem \in [Run -> RunStatus \cup {"none"}]
    /\ intended \in [Run -> Outcome \cup {"none"}]
    /\ left \in [Run -> 0..MaxBoundaries]
    /\ canceling \subseteq Run
    /\ lost \subseteq Run

Init ==
    /\ row = [r \in Run |-> "none"]
    /\ published = [r \in Run |-> FALSE]
    /\ ended = [r \in Run |-> FALSE]
    /\ owner = [r \in Run |-> NoUser]
    /\ trigger = [r \in Run |-> "manual"]
    /\ lock = [u \in User |-> NoRun]
    /\ pc = [r \in Run |-> "unused"]
    /\ mem = [r \in Run |-> "none"]
    /\ intended = [r \in Run |-> "none"]
    /\ left = [r \in Run |-> MaxBoundaries]
    /\ canceling = {}
    /\ lost = {}

-----------------------------------------------------------------------------
(* Lock and index                                                          *)

\* pg_try_advisory_xact_lock succeeds.
LockFree(u) == lock[u] = NoRun

\* Any commit or rollback ends the transaction and with it the lock of r.
Unlocked(r) == [u \in User |-> IF lock[u] = r THEN NoRun ELSE lock[u]]

IndexConflict_Dropped(r) == FALSE   \* seeded fault: no uq_crawl_runs_user_active

\* Writing an active status into row r would break uq_crawl_runs_user_active.
IndexConflict(r) ==
    \E q \in Run \ {r} : /\ owner[q] = owner[r]
                         /\ row[q] \in ACTIVE_RUN_STATUSES
                         /\ published[q]

\* PostgreSQL makes the write wait for an uncommitted conflicting entry.
IndexWait(r) ==
    \E q \in Run \ {r} : /\ owner[q] = owner[r]
                         /\ row[q] \in ACTIVE_RUN_STATUSES
                         /\ ~published[q]

\* The scheduler awaits one run at a time: candidates and queue jobs alike.
SchedulerIdle ==
    \A q \in Run : trigger[q] = "scheduled" => pc[q] \in {"unused", "gone"}

\* The session of r is rolled back: an uncommitted row disappears.
RowAfterRollback(r) == IF published[r] THEN row ELSE [row EXCEPT ![r] = "none"]

-----------------------------------------------------------------------------
(* Starting a run                                                          *)

\* _initialize_run_for_user passes the safety gate and gets the user's lock.
\* When the lock is taken the request is refused and nothing changes.
Start(r, u, t) ==
    /\ pc[r] = "unused"
    /\ LockFree(u)
    /\ t = "scheduled" => SchedulerIdle
    /\ owner' = [owner EXCEPT ![r] = u]
    /\ trigger' = [trigger EXCEPT ![r] = t]
    /\ lock' = [lock EXCEPT ![u] = r]
    /\ pc' = [pc EXCEPT ![r] = "starting"]
    /\ UNCHANGED <<row, published, ended, mem, intended, left, canceling, lost>>

\* run_preflight_guard commits a cooldown and raises, or loading fails.
StartAborted(r) ==
    /\ pc[r] = "starting"
    /\ lock' = Unlocked(r)
    /\ pc' = [pc EXCEPT ![r] = "gone"]
    /\ UNCHANGED <<row, published, ended, owner, trigger, mem, intended, left,
                   canceling, lost>>

\* _start_run_record: the INSERT is flushed, not committed.
InsertRow(r) ==
    /\ pc[r] = "starting"
    /\ ~IndexConflict(r)
    /\ ~IndexWait(r)
    /\ row' = [row EXCEPT ![r] = "running"]
    /\ mem' = [mem EXCEPT ![r] = "running"]
    /\ pc' = [pc EXCEPT ![r] = IF trigger[r] = "manual" THEN "inserted"
                                                        ELSE "iterating"]
    /\ UNCHANGED <<published, ended, owner, trigger, lock, intended, left,
                   canceling, lost>>

\* _start_run_record: the flush hits the index; RunAlreadyInProgressError.
InsertRefused(r) ==
    /\ pc[r] = "starting"
    /\ IndexConflict(r)
    /\ lock' = Unlocked(r)
    /\ pc' = [pc EXCEPT ![r] = "gone"]
    /\ UNCHANGED <<row, published, ended, owner, trigger, mem, intended, left,
                   canceling, lost>>

\* run_manual commits and spawns execute_run.
CommitManual(r) ==
    /\ pc[r] = "inserted"
    /\ published' = [published EXCEPT ![r] = TRUE]
    /\ lock' = Unlocked(r)
    /\ pc' = [pc EXCEPT ![r] = "spawned"]
    /\ UNCHANGED <<row, ended, owner, trigger, mem, intended, left, canceling, lost>>

\* _prepare_execute_run loads the row; a run canceled meanwhile is not refused.
PrepareExecute(r) ==
    /\ pc[r] = "spawned"
    /\ mem' = [mem EXCEPT ![r] = row[r]]
    /\ pc' = [pc EXCEPT ![r] = "iterating"]
    /\ UNCHANGED <<row, published, ended, owner, trigger, lock, intended, left,
                   canceling, lost>>

-----------------------------------------------------------------------------
(* The scholar and page loops                                              *)

\* Scholars and pages are finite in number.
HasBoundary(r) == left[r] > 0

\* refresh(run) before a scholar or a page; CANCELED leaves both passes.
Boundary(r) ==
    /\ pc[r] = "iterating"
    /\ HasBoundary(r)
    /\ left' = [left EXCEPT ![r] = @ - 1]
    /\ mem' = [mem EXCEPT ![r] = row[r]]
    /\ pc' = [pc EXCEPT ![r] = IF row[r] = "canceled" THEN "completing"
                                                      ELSE "scraping"]
    /\ UNCHANGED <<row, published, ended, owner, trigger, lock, intended,
                   canceling, lost>>

\* Fetch and store between two boundaries. Storing a page commits, which
\* publishes the row and ends the lock; a page without publications does not.
Scrape(r, commits) ==
    /\ pc[r] = "scraping"
    /\ pc' = [pc EXCEPT ![r] = "iterating"]
    /\ published' = [published EXCEPT ![r] = @ \/ commits]
    /\ lock' = IF commits THEN Unlocked(r) ELSE lock
    /\ UNCHANGED <<row, ended, owner, trigger, mem, intended, left, canceling, lost>>

\* No scholar left, or a hard challenge ended the passes early.
IterationDone(r) ==
    /\ pc[r] = "iterating"
    /\ pc' = [pc EXCEPT ![r] = "completing"]
    /\ UNCHANGED <<row, published, ended, owner, trigger, lock, mem, intended,
                   left, canceling, lost>>

\* The session of the task is rolled back. execute_run goes on to fail the
\* run; the scheduler and the queue runner only log the exception.
Rollback(r) ==
    /\ row' = RowAfterRollback(r)
    /\ lock' = Unlocked(r)
    /\ pc' = [pc EXCEPT ![r] = IF trigger[r] = "manual" THEN "failing" ELSE "gone"]
    /\ UNCHANGED <<published, ended, owner, trigger, mem, intended, left,
                   canceling, lost>>

\* An exception leaves the iteration (lost connection, failed refresh, ...).
Raise(r) ==
    /\ pc[r] \in {"spawned", "iterating", "scraping", "completing"}
    /\ Rollback(r)

-----------------------------------------------------------------------------
(* Completion, enrichment, failure                                         *)

\* finalize_run_record: run.end_dt = now.
EndDt(r) == [ended EXCEPT ![r] = TRUE]

\* finalize_run_record keeps CANCELED; only end_dt and counters are written.
CompleteCanceled(r) ==
    /\ pc[r] = "completing"
    /\ mem[r] = "canceled"
    /\ ended' = EndDt(r)
    /\ published' = [published EXCEPT ![r] = TRUE]
    /\ lock' = Unlocked(r)
    /\ pc' = [pc EXCEPT ![r] = "gone"]
    /\ UNCHANGED <<row, owner, trigger, mem, intended, left, canceling, lost>>

\* finalize_run_record, then RESOLVING is committed whatever the row holds.
CompleteResolving(r, outcome) ==
    /\ pc[r] = "completing"
    /\ mem[r] # "canceled"
    /\ ~IndexConflict(r)
    /\ ~IndexWait(r)
    /\ row' = [row EXCEPT ![r] = "resolving"]
    /\ mem' = [mem EXCEPT ![r] = "resolving"]
    /\ ended' = EndDt(r)
    /\ published' = [published EXCEPT ![r] = TRUE]
    /\ lock' = Unlocked(r)
    /\ intended' = [intended EXCEPT ![r] = outcome]
    /\ pc' = [pc EXCEPT ![r] = "enriching"]
    /\ UNCHANGED <<owner, trigger, left, canceling, lost>>

\* The commit of RESOLVING hits the index: the run was canceled behind the
\* task's back and the user has started another one.
CompleteRefused(r) ==
    /\ pc[r] = "completing"
    /\ mem[r] # "canceled"
    /\ IndexConflict(r)
    /\ Rollback(r)

\* _fail_run_in_background overwrites whatever status the row has.
FailRun(r) ==
    /\ pc[r] = "failing"
    /\ row' = [row EXCEPT ![r] = "failed"]
    /\ ended' = EndDt(r)
    /\ pc' = [pc EXCEPT ![r] = "gone"]
    /\ UNCHANGED <<published, owner, trigger, lock, mem, intended, left,
                   canceling, lost>>

\* _fail_run_in_background swallows its own failure.
FailRunLost(r) ==
    /\ pc[r] = "failing"
    /\ pc' = [pc EXCEPT ![r] = "gone"]
    /\ lost' = lost \cup {r}
    /\ UNCHANGED <<row, published, ended, owner, trigger, lock, mem, intended,
                   left, canceling>>

\* inline_enrich_and_finalize: the scheduler's session still holds RESOLVING.
InlineFinalize(r) ==
    /\ pc[r] = "enriching"
    /\ trigger[r] = "scheduled"
    /\ row' = IF mem[r] = "resolving" THEN [row EXCEPT ![r] = intended[r]] ELSE row
    /\ pc' = [pc EXCEPT ![r] = "gone"]
    /\ UNCHANGED <<published, ended, owner, trigger, lock, mem, intended, left,
                   canceling, lost>>

\* inline_enrich_and_finalize: a database error makes the last commit raise.
InlineRaises(r) ==
    /\ pc[r] = "enriching"
    /\ trigger[r] = "scheduled"
    /\ pc' = [pc EXCEPT ![r] = "gone"]
    /\ UNCHANGED <<row, published, ended, owner, trigger, lock, mem, intended,
                   left, canceling, lost>>

\* background_enrich re-reads the run when enrichment is over.
EnrichRead(r) ==
    /\ trigger[r] = "manual"
    /\ mem' = [mem EXCEPT ![r] = row[r]]
    /\ \/ /\ pc[r] = "enriching"
          /\ pc' = [pc EXCEPT ![r] = "finalizing"]
       \/ /\ pc[r] = "fallback"
          /\ pc' = [pc EXCEPT ![r] = "fallback_finalizing"]
    /\ UNCHANGED <<row, published, ended, owner, trigger, lock, intended, left,
                   canceling, lost>>

\* background_enrich commits the intended status if it read RESOLVING.
EnrichWrite(r) ==
    /\ pc[r] \in {"finalizing", "fallback_finalizing"}
    /\ row' = IF mem[r] = "resolving" THEN [row EXCEPT ![r] = intended[r]] ELSE row
    /\ pc' = [pc EXCEPT ![r] = "gone"]
    /\ UNCHANGED <<published, ended, owner, trigger, lock, mem, intended, left,
                   canceling, lost>>

AfterEnrichError_GivesUp(r) == "gone"   \* seeded fault: no fallback session

\* The except branch of background_enrich tries again in a fresh session.
AfterEnrichError(r) == "fallback"

\* Enrichment, the read or the commit fails.
EnrichRaises(r) ==
    /\ pc[r] \in {"enriching", "finalizing"}
    /\ trigger[r] = "manual"
    /\ pc' = [pc EXCEPT ![r] = AfterEnrichError(r)]
    /\ UNCHANGED <<row, published, ended, owner, trigger, lock, mem, intended,
                   left, canceling, lost>>

\* The fallback session fails too; its exception is swallowed.
FallbackLost(r) ==
    /\ pc[r] \in {"fallback", "fallback_finalizing"}
    /\ pc' = [pc EXCEPT ![r] = "gone"]
    /\ lost' = lost \cup {r}
    /\ UNCHANGED <<row, published, ended, owner, trigger, lock, mem, intended,
                   left, canceling>>

-----------------------------------------------------------------------------
(* The cancel endpoint and the restart of the service                      *)

\* cancel_run reads an active status.
CancelRequest(r) ==
    /\ published[r]
    /\ row[r] \in ACTIVE_RUN_STATUSES
    /\ r \notin canceling
    /\ canceling' = canceling \cup {r}
    /\ UNCHANGED <<row, published, ended, owner, trigger, lock, pc, mem,
                   intended, left, lost>>

\* cancel_run writes CANCELED and commits, on the strength of what it read.
CancelCommit(r) ==
    /\ r \in canceling
    /\ row' = [row EXCEPT ![r] = "canceled"]
    /\ canceling' = canceling \ {r}
    /\ UNCHANGED <<published, ended, owner, trigger, lock, pc, mem, intended,
                   left, lost>>

Recovered_All(r) == "failed"    \* seeded fault: UPDATE without its WHERE

\* lifespan: UPDATE crawl_runs SET status = 'failed' WHERE status is active.
Recovered(r) == IF row[r] \in ACTIVE_RUN_STATUSES THEN "failed" ELSE row[r]

\* The process dies with its tasks, sessions and locks; uncommitted rows are
\* gone; the next start fails the orphaned runs, unless that write fails.
Restart(cleaned) ==
    /\ row' = [r \in Run |-> IF ~published[r] THEN "none"
                             ELSE IF cleaned THEN Recovered(r) ELSE row[r]]
    /\ lock' = [u \in User |-> NoRun]
    /\ pc' = [r \in Run |-> IF pc[r] = "unused" THEN "unused" ELSE "gone"]
    /\ mem' = [r \in Run |-> "none"]
    /\ intended' = [r \in Run |-> "none"]
    /\ canceling' = {}
    /\ lost' = IF cleaned THEN lost
               ELSE lost \cup {r \in Run : row[r] \in ACTIVE_RUN_STATUSES}
    /\ UNCHANGED <<published, ended, owner, trigger, left>>

-----------------------------------------------------------------------------
TaskStep(r) ==
    \/ InsertRow(r) \/ InsertRefused(r) \/ CommitManual(r) \/ PrepareExecute(r)
    \/ Boundary(r) \/ (\E c \in BOOLEAN : Scrape(r, c)) \/ IterationDone(r)
    \/ CompleteCanceled(r) \/ (\E o \in Outcome : CompleteResolving(r, o))
    \/ CompleteRefused(r) \/ FailRun(r) \/ InlineFinalize(r)
    \/ EnrichRead(r) \/ EnrichWrite(r)

FaultStep(r) ==
    \/ StartAborted(r) \/ Raise(r) \/ FailRunLost(r) \/ InlineRaises(r)
    \/ EnrichRaises(r) \/ FallbackLost(r)

Next ==
    \/ \E r \in Run :
        \/ \E u \in User, t \in {"manual", "scheduled"} : Start(r, u, t)
        \/ TaskStep(r)
        \/ FaultStep(r)
        \/ CancelRequest(r)
        \/ CancelCommit(r)
    \/ \E cleaned \in BOOLEAN : Restart(cleaned)

Spec == Init /\ [][Next]_vars

\* The event loop runs every task and request to its end; nobody is obliged
\* to start a run, to cancel one or to restart the service.
Fairness == \A r \in Run : WF_vars(TaskStep(r)) /\ WF_vars(CancelCommit(r))

FairSpec == Spec /\ Fairness
-----------------------------------------------------------------------------
(* Properties                                                              *)

\* A user has at most one run that is running or resolving, counting the
\* uncommitted row of a run that is being started: the lock and the index
\* together keep it so while cancels, completions and restarts interleave.
OneActiveRun ==
    \A q, r \in Run :
        /\ q # r
        /\ owner[q] = owner[r]
        /\ row[q] \in ACTIVE_RUN_STATUSES
        => row[r] \notin ACTIVE_RUN_STATUSES

\* An uncommitted run row belongs to the session that holds the user's lock,
\* so that no second start can race with it: the lock is only given up by
\* the commit that publishes the row or the rollback that removes it.
UncommittedRunHoldsLock ==
    \A r \in Run :
        row[r] # "none" /\ ~published[r] => lock[owner[r]] = r

\* Two tasks may scrape for the same user at once, but only when the run of
\* all but one of them is canceled and the task has yet to notice it.
OneLiveScraper ==
    \A q, r \in Run :
        /\ q # r
        /\ owner[q] = owner[r]
        /\ pc[q] \in Scraping
        /\ pc[r] \in Scraping
        => row[q] = "canceled" \/ row[r] = "canceled"

\* A run reported as success or partial failure, and one whose publications
\* are being resolved, has an end time.
CompletedRunHasEnd ==
    \A r \in Run :
        row[r] \in {"resolving", "success", "partial_failure"} => ended[r]

\* A manual run left in an active status still has the task or the enrichment
\* session that will give it a final one, unless the very last status write
\* was lost.
ManualRunAttended ==
    \A r \in Run :
        /\ r \notin lost
        /\ trigger[r] = "manual"
        /\ row[r] \in ACTIVE_RUN_STATUSES
        => pc[r] \notin {"unused", "gone"}

\* A finished run is never revived or renamed by a late task, an enrichment
\* session or a restart; only a cancel request that read an active status
\* may still overwrite it.
FinishedIsFinal ==
    [][\A r \in Run : row[r] \in Finished => row'[r] \in {row[r], "canceled"}]_row

\* Every manual run that was committed reaches a terminal status, through
\* exceptions of the iteration and of the enrichment, and its task ends,
\* unless the very last status write is lost.
ManualRunResolves ==
    \A r \in Run :
        (published[r] /\ trigger[r] = "manual")
            ~> \/ row[r] \notin ACTIVE_RUN_STATUSES /\ pc[r] = "gone"
               \/ r \in lost

-----------------------------------------------------------------------------
(* The table the readers see                                               *)

\* Only committed rows count.
Record == INSTANCE RunRecord WITH
    status <- [r \in Run |-> IF published[r] THEN row[r] ELSE "none"],
    holder <- [r \in Run |-> IF published[r] THEN owner[r] ELSE NoUser],
    over <- [r \in Run |-> published[r] /\ ended[r]]

\* Tasks, sessions, locks, cancels and restarts together keep the contract of
\* the table: every committed change is one that RunRecord allows.
KeepsRecord == Record!RecordSpec

-----------------------------------------------------------------------------
(* The inductive invariant that carries the safety properties above        *)

\* Which sessions hold which locks: a lock belongs to a start or to a run
\* whose row is not committed, and those always hold it.
LockDiscipline ==
    /\ \A u \in User, r \in Run :
        lock[u] = r =>
            /\ owner[r] = u
            /\ ~published[r]
            /\ pc[r] \in {"starting", "inserted", "iterating", "scraping",
                          "completing"}
    /\ \A r \in Run :
        pc[r] \in {"starting", "inserted"} =>
            owner[r] \in User /\ lock[owner[r]] = r /\ ~published[r]

\* What the row of a run can be, given where its task is.
RowMatchesTask ==
    \A r \in Run :
        /\ pc[r] \in {"unused", "starting"} => row[r] = "none" /\ ~published[r]
        /\ pc[r] = "inserted" => row[r] = "running" /\ trigger[r] = "manual"
        /\ pc[r] \in {"iterating", "scraping", "completing"} =>
            row[r] \in {"running", "canceled"}
        /\ pc[r] \in {"spawned", "failing"} =>
            row[r] \in {"running", "canceled"} /\ published[r]
        /\ pc[r] \in {"iterating", "scraping", "completing"}
              /\ trigger[r] = "manual" => published[r]
        /\ pc[r] \in {"enriching", "finalizing", "fallback",
                       "fallback_finalizing"} =>
            /\ row[r] \in {"resolving", "canceled"}
            /\ published[r]
            /\ ended[r]
            /\ intended[r] \in Outcome
        /\ published[r] => row[r] # "none" /\ owner[r] \in User
        /\ row[r] # "none" /\ ~published[r] =>
            /\ row[r] = "running"
            /\ owner[r] \in User
            /\ pc[r] \in {"inserted", "iterating", "scraping", "completing"}

\* A session that believes the run canceled is right until it ends.
CopiesAreSound ==
    \A r \in Run :
        /\ pc[r] \in {"iterating", "scraping", "completing"} /\ mem[r] = "canceled"
              => row[r] = "canceled"
        /\ pc[r] \in {"finalizing", "fallback_finalizing"} /\ mem[r] # "resolving"
              => row[r] = "canceled"
        /\ r \in canceling => published[r]

\* The strengthening: none of its conjuncts is inductive without the others.
IInv ==
    /\ TypeOK
    /\ OneActiveRun
    /\ UncommittedRunHoldsLock
    /\ LockDiscipline
    /\ RowMatchesTask
    /\ CopiesAreSound
    /\ CompletedRunHasEnd
    /\ ManualRunAttended

-----------------------------------------------------------------------------
(* Claims of the code that do not hold                                     *)

\* A committed cancel is final ("Run is already terminal and cannot be
\* canceled", runs.py).
CanceledIsFinal ==
    [][\A r \in Run : row[r] = "canceled" => row'[r] = "canceled"]_row

\* An active run has somebody working on it: the 409 answer "A run is already
\* in progress for this account" is true when it is given.
ActiveRunInProgress ==
    \A r \in Run :
        /\ r \notin lost
        /\ published[r]
        /\ row[r] \in ACTIVE_RUN_STATUSES
        => pc[r] # "gone"
=============================================================================
