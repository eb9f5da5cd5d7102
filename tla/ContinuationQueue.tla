------------------------- MODULE ContinuationQueue -------------------------
(***************************************************************************)
(* The continuation queue of one user: the rows of ingestion_queue_items   *)
(* (one per scholar), the scheduler's queue runner, which works from a     *)
(* snapshot of the due rows, the runs that delete and re-create rows in    *)
(* their own transaction, and the queue operations the user has.           *)
(*                                                                         *)
(* A run handles a scholar twice: the first pass fetches one page and      *)
(* always clears the row, the depth pass goes on where the first pass      *)
(* stopped and writes a new row when pages are left.  Storing a page       *)
(* commits what the run has done so far.                                   *)
(*                                                                         *)
(* Every write of the runner is a SELECT by the id it listed, without a    *)
(* row lock, and an UPDATE at a later commit of the columns it changed:    *)
(* ReadRow and Commit.  Whatever the others commit in between is there.    *)
(* The same holds of the user's requests (Ask, then the request itself).   *)
(***************************************************************************)
EXTENDS Naturals, FiniteSets

CONSTANTS
    Scholar,        \* scholar profiles of the user
    MaxAttempts,    \* INGESTION_CONTINUATION_MAX_ATTEMPTS
    AutoQueue,      \* INGESTION_CONTINUATION_QUEUE_ENABLED
    DepthPass,      \* INGESTION_MAX_PAGES_PER_SCHOLAR > 1
    NoScholar,      \* the runner works on nothing
    MaxDisturbances \* bound on what the environment may do to the runner

ASSUME QueueConstants ==
    /\ MaxAttempts \in Nat \ {0}
    /\ AutoQueue \in BOOLEAN
    /\ DepthPass \in BOOLEAN
    /\ NoScholar \notin Scholar
    /\ MaxDisturbances \in Nat

VARIABLES
    job,        \* committed rows; due: next_attempt_dt has passed
    enabled,    \* scholar_profiles.is_enabled
    asked,      \* what a request of the user has read a dropped row for
    batch,      \* scholars of the listed jobs not handled yet
    snap,       \* attempt_count in the snapshot of the batch
    listed,     \* scholars whose row is still the row (id) that was listed
    rpc,        \* where the queue runner is
    cur,        \* scholar of the job it works on
    seen,       \* the row of that job as the runner's session has read it
    run,        \* the run in progress, if any
    view,       \* rows as the session of the run sees them, where touched
    touched,    \* scholars whose row that session has deleted or written
    disturbances

runnerVars == <<batch, snap, rpc, cur, seen>>
sessionVars == <<view, touched>>
userVars == <<enabled, asked>>
vars == <<job, enabled, asked, batch, snap, listed, rpc, cur, seen, run, view,
          touched, disturbances>>

ACTIVE_QUEUE_STATUSES == {"queued", "retrying"}
Job == [status: ACTIVE_QUEUE_STATUSES \cup {"dropped"},
        attempts: 0..MaxAttempts, due: BOOLEAN]
NoJob == [status |-> "none", attempts |-> 0, due |-> FALSE]
NewJob == [status |-> "queued", attempts |-> 0, due |-> FALSE]
Unread == [status |-> "unread", attempts |-> 0, due |-> FALSE]

\* requeue: a retry that has read no attempts, reset: one that has.
Request == {"nothing", "requeue", "reset", "clear"}

\* kind: who started it; todo, deep: scholars the passes have left; failed:
\* scholars counted as failed; owed: those left with pages to resume.
NewRun(kind, todo) == [kind |-> kind, pc |-> "first", todo |-> todo, deep |-> {},
                       failed |-> {}, owed |-> {}]
NoRun == [NewRun("none", {}) EXCEPT !.pc = "end"]
RunRecord == [kind: {"none", "queue", "full"}, pc: {"first", "depth", "end"},
              todo: SUBSET Scholar, deep: SUBSET Scholar,
              failed: SUBSET Scholar, owed: SUBSET Scholar]

\* Where the runner reads the row of its job and writes it.
Writing == {"drop", "mark", "defer", "excepted", "finalize_ok", "finalize_failed"}
RunnerPC == {"idle", "next", "check", "start", "running"} \cup Writing

TypeOK ==
    /\ job \in [Scholar -> Job \cup {NoJob}]
    /\ enabled \in [Scholar -> BOOLEAN]
    /\ asked \in [Scholar -> Request]
    /\ batch \subseteq Scholar
    /\ snap \in [Scholar -> 0..MaxAttempts]
    /\ listed \subseteq Scholar
    /\ rpc \in RunnerPC
    /\ cur \in Scholar \cup {NoScholar}
    /\ seen \in Job \cup {NoJob, Unread}
    /\ run \in RunRecord
    /\ view \in [Scholar -> Job \cup {NoJob}]
    /\ touched \subseteq Scholar
    /\ disturbances \in 0..MaxDisturbances

\* The queue may hold rows of an earlier process, due or not, also rows whose
\* attempts are used up because the limit has been lowered since.
Init ==
    /\ job \in [Scholar -> {NoJob, NewJob,
                            [status |-> "retrying", attempts |-> MaxAttempts,
                             due |-> TRUE]}]
    /\ enabled = [s \in Scholar |-> TRUE]
    /\ asked = [s \in Scholar |-> "nothing"]
    /\ batch = {}
    /\ snap = [s \in Scholar |-> 0]
    /\ listed = {}
    /\ rpc = "idle"
    /\ cur = NoScholar
    /\ seen = Unread
    /\ run = NoRun
    /\ view = [s \in Scholar |-> NoJob]
    /\ touched = {}
    /\ disturbances = 0

-----------------------------------------------------------------------------
(* Row operations of queue.py                                              *)

\* The run's session has a pending write on the row: other writers wait.
RowLocked(s) == s \in touched

\* A statement by the listed id finds the row.
Found(s) == s \in listed

Dropped(j) == [j EXCEPT !.status = "dropped"]

Rescheduled_KeepsStatus(j) == [j EXCEPT !.due = FALSE]  \* seeded fault

\* reschedule_job writes QUEUED whatever the status was.
Rescheduled(j) == [j EXCEPT !.status = "queued", !.due = FALSE]

\* upsert_job: a new row, or the old one with its attempts unless dropped.
Upserted(j) ==
    IF j = NoJob THEN NewJob
    ELSE [status |-> "queued", due |-> FALSE,
          attempts |-> IF j.status = "dropped" THEN 0 ELSE j.attempts]

Write(s, j) == job' = [job EXCEPT ![s] = j]

\* The UPDATE of a session that has made j of the row it read: columns it did
\* not change keep what the row has by now. (A rescheduled row was due.)
Updated(read, j, row) ==
    [status   |-> IF j.status = read.status THEN row.status ELSE j.status,
     attempts |-> IF j.attempts = read.attempts THEN row.attempts ELSE j.attempts,
     due      |-> IF j.due = read.due THEN row.due ELSE j.due]

-----------------------------------------------------------------------------
(* The run's session                                                       *)

Sees(s) == IF s \in touched THEN view[s] ELSE job[s]

\* Put j in place of the row of s in the transaction of the run.
Put(s, j) ==
    IF Sees(s) = j THEN UNCHANGED sessionVars
    ELSE /\ view' = [view EXCEPT ![s] = j]
         /\ touched' = touched \cup {s}

\* COMMIT. A touched row was deleted on the way: the listed id is gone, and a
\* request for the row finds nothing.
Publish ==
    /\ job' = [s \in Scholar |-> Sees(s)]
    /\ listed' = listed \ touched
    /\ asked' = [s \in Scholar |-> IF s \in touched THEN "nothing" ELSE asked[s]]
    /\ touched' = {}
    /\ view' = [s \in Scholar |-> NoJob]

Forget ==
    /\ touched' = {}
    /\ view' = [s \in Scholar |-> NoJob]

-----------------------------------------------------------------------------
(* The queue runner                                                        *)


\* An active row that is due; SKIP LOCKED passes over the others.
Listable(s) ==
    job[s].status \in ACTIVE_QUEUE_STATUSES /\ job[s].due /\ ~RowLocked(s)

\* list_due_jobs; its row locks end with its session.
ListDueJobs ==
    LET due == {s \in Scholar : Listable(s)}
    IN  /\ rpc = "idle"
        /\ due # {}
        /\ batch' = due
        /\ listed' = due
        /\ snap' = [s \in Scholar |-> IF s \in due THEN job[s].attempts ELSE 0]
        /\ rpc' = "next"
        /\ UNCHANGED <<job, userVars, cur, seen, run, sessionVars, disturbances>>

\* The tick is over, done or failed: nothing of the batch is kept.
LeaveBatch ==
    /\ rpc' = "idle"
    /\ cur' = NoScholar
    /\ batch' = {}
    /\ listed' = {}
    /\ snap' = [s \in Scholar |-> 0]

GoOn(pc) == rpc' = pc /\ UNCHANGED <<batch, snap, listed, cur>>

\* The SELECT by the listed id.
ReadRow ==
    /\ rpc \in Writing
    /\ seen = Unread
    /\ seen' = IF Found(cur) THEN job[cur] ELSE NoJob
    /\ UNCHANGED <<job, userVars, batch, snap, listed, rpc, cur, run, sessionVars,
                   disturbances>>

\* COMMIT of a session that has made j of the row it read, if there was one.
\* A row that is gone by now is a StaleDataError: it leaves drain_continuation_
\* queue, the loop of the scheduler logs it, and the rest of the batch is lost.
Commit(j, pc) ==
    /\ seen # Unread
    /\ seen' = Unread
    /\ CASE seen = NoJob -> GoOn(pc) /\ UNCHANGED job
         [] seen # NoJob /\ Found(cur) ->
                /\ ~RowLocked(cur)
                /\ Write(cur, Updated(seen, j, job[cur]))
                /\ GoOn(pc)
         [] OTHER -> LeaveBatch /\ UNCHANGED job
    /\ UNCHANGED <<userVars, run, sessionVars, disturbances>>

UsedUp_OffByOne(n) == n > MaxAttempts   \* seeded fault: one attempt too many

UsedUp(n) == n >= MaxAttempts

\* _run_queue_job takes the next job of the batch; whether its attempts are
\* used up is judged on the snapshot.
TakeJob(s) ==
    /\ rpc = "next"
    /\ s \in batch
    /\ batch' = batch \ {s}
    /\ cur' = s
    /\ rpc' = IF UsedUp(snap[s]) THEN "drop" ELSE "mark"
    /\ UNCHANGED <<job, userVars, snap, listed, seen, run, sessionVars, disturbances>>

BatchDone ==
    /\ rpc = "next"
    /\ batch = {}
    /\ LeaveBatch
    /\ UNCHANGED <<job, userVars, seen, run, sessionVars, disturbances>>

\* mark_dropped: the attempts are used up or the scholar is unavailable.
DropJob == rpc = "drop" /\ Commit(Dropped(seen), "next")

MayRetry_Always(j) == j # NoJob  \* seeded fault: a dropped row is retried too

\* mark_retrying leaves a dropped row alone and the runner skips it.
MayRetry(j) == j # NoJob /\ j.status # "dropped"

MarkRetrying ==
    /\ rpc = "mark"
    /\ MayRetry(seen)
    /\ Commit([seen EXCEPT !.status = "retrying"], "check")

\* Nothing was changed in the session, so its commit writes nothing.
SkipJob ==
    /\ rpc = "mark"
    /\ seen # Unread
    /\ ~MayRetry(seen)
    /\ seen' = Unread
    /\ GoOn("next")
    /\ UNCHANGED <<job, userVars, run, sessionVars, disturbances>>

\* _queue_job_has_available_scholar: the row of a scholar that is disabled or
\* gone is dropped.
CheckScholar ==
    /\ rpc = "check"
    /\ rpc' = IF enabled[cur] THEN "start" ELSE "drop"
    /\ UNCHANGED <<job, userVars, batch, snap, listed, cur, seen, run, sessionVars,
                   disturbances>>

\* run_for_user is refused: the user has a run in progress.
StartRefusedByLock ==
    /\ rpc = "start"
    /\ run.kind = "full"
    /\ rpc' = "defer"
    /\ UNCHANGED <<job, userVars, batch, snap, listed, cur, seen, run, sessionVars,
                   disturbances>>

\* run_for_user is refused by the cooldown, or raises before it starts.
StartFails ==
    /\ rpc = "start"
    /\ disturbances < MaxDisturbances
    /\ disturbances' = disturbances + 1
    /\ rpc' \in {"defer", "excepted"}
    /\ UNCHANGED <<job, userVars, batch, snap, listed, cur, seen, run, sessionVars>>

\* The run starts; a scholar disabled meanwhile is not loaded and its row is
\* cleared (_load_target_scholars).
StartQueueRun ==
    /\ rpc = "start"
    /\ run.kind = "none"
    /\ rpc' = "running"
    /\ run' = NewRun("queue", IF enabled[cur] THEN {cur} ELSE {})
    /\ IF enabled[cur] THEN UNCHANGED sessionVars ELSE Put(cur, NoJob)
    /\ UNCHANGED <<job, userVars, batch, snap, listed, cur, seen, disturbances>>

\* _reschedule_queue_job_lock_active and _reschedule_queue_job_safety_cooldown
Defer == rpc = "defer" /\ Commit(Rescheduled(seen), "next")

\* increment_attempt_count, then mark_dropped or reschedule_job.
AttemptFailed(j) ==
    LET counted == [j EXCEPT !.attempts = @ + 1]
    IN  IF UsedUp(counted.attempts) THEN Dropped(counted) ELSE Rescheduled(counted)

\* _reschedule_queue_job_after_exception
AfterException == rpc = "excepted" /\ Commit(AttemptFailed(seen), "next")

\* _finalize_successful_queue_job resets the attempts of a surviving row.
FinalizeSuccessful ==
    rpc = "finalize_ok" /\ Commit([seen EXCEPT !.attempts = 0], "next")

\* _finalize_failed_queue_job counts the attempt, if the row survived the run.
FinalizeFailed == rpc = "finalize_failed" /\ Commit(AttemptFailed(seen), "next")

-----------------------------------------------------------------------------
(* A run, started by the runner, by a candidate tick or by the user        *)

\* A run over all enabled scholars, from page 0.
StartFullRun ==
    /\ run.kind = "none"
    /\ disturbances < MaxDisturbances
    /\ disturbances' = disturbances + 1
    /\ run' = NewRun("full", {s \in Scholar : enabled[s]})
    /\ UNCHANGED <<job, userVars, runnerVars, listed, sessionVars>>

\* A visit stores a page: upsert_profile_publications commits, and with it the
\* queue rows of the visits before.
StorePage ==
    /\ \/ run.pc = "first" /\ run.todo # {}
       \/ run.pc = "depth" /\ run.deep # {}
    /\ touched # {}
    /\ Publish
    /\ UNCHANGED <<enabled, runnerVars, run, disturbances>>

FirstOutcome == {"done", "more", "network", "blocked", "challenge", "error"}

\* resolve_continuation_queue_target names a page to resume from.
Owed(s, outcome) ==
    CASE outcome \in {"more", "network"} -> run.owed \cup {s}
      [] outcome = "error" -> run.owed
      [] OTHER -> run.owed \ {s}

\* process_scholar in the first pass (one page, auto_queue_continuations off):
\* sync_continuation_queue clears the row, an error of the fetch skips it. An
\* error of the store rolls the session back and ends the run (RunRaises).
FirstVisit(s, outcome) ==
    /\ run.pc = "first"
    /\ s \in run.todo
    /\ IF outcome = "error" THEN UNCHANGED sessionVars ELSE Put(s, NoJob)
    /\ run' = [run EXCEPT
         !.todo = IF outcome = "challenge" THEN {} ELSE @ \ {s},
         !.deep = IF outcome = "more" THEN @ \cup {s} ELSE @,
         !.failed = IF outcome \in {"done", "more"} THEN @ ELSE @ \cup {s},
         !.owed = Owed(s, outcome)]
    /\ UNCHANGED <<job, userVars, runnerVars, listed, disturbances>>

\* The first pass is over; the depth pass needs a page budget above one.
FirstPassDone ==
    /\ run.pc = "first"
    /\ run.todo = {}
    /\ run' = [run EXCEPT !.pc = IF DepthPass THEN "depth" ELSE "end"]
    /\ UNCHANGED <<job, userVars, runnerVars, listed, sessionVars,
                   disturbances>>

\* process_scholar in the depth pass: what can be resumed is queued.
DepthVisit(s, outcome) ==
    /\ run.pc = "depth"
    /\ s \in run.deep
    /\ CASE outcome \in {"more", "network"} /\ AutoQueue -> Put(s, Upserted(Sees(s)))
         [] outcome = "error" -> UNCHANGED sessionVars
         [] OTHER -> Put(s, NoJob)
    /\ run' = [run EXCEPT
         !.deep = IF outcome = "challenge" THEN {} ELSE @ \ {s},
         !.failed = IF outcome \in {"done", "more"} THEN @ \ {s} ELSE @ \cup {s},
         !.owed = Owed(s, outcome)]
    /\ UNCHANGED <<job, userVars, runnerVars, listed, disturbances>>

DepthPassDone ==
    /\ run.pc = "depth"
    /\ run.deep = {}
    /\ run' = [run EXCEPT !.pc = "end"]
    /\ UNCHANGED <<job, userVars, runnerVars, listed, sessionVars,
                   disturbances>>

\* A refresh sees CANCELED: both passes are left.
RunSeesCancel ==
    /\ run.kind # "none"
    /\ run.pc # "end"
    /\ disturbances < MaxDisturbances
    /\ disturbances' = disturbances + 1
    /\ run' = [run EXCEPT !.pc = "end", !.todo = {}, !.deep = {}]
    /\ UNCHANGED <<job, userVars, runnerVars, listed, sessionVars>>

\* The completion of the run commits.
RunComplete ==
    /\ run.kind # "none"
    /\ run.pc = "end"
    /\ Publish
    /\ run' = NoRun
    /\ rpc' = IF run.kind = "full" THEN rpc
              ELSE IF run.failed = {} THEN "finalize_ok" ELSE "finalize_failed"
    /\ UNCHANGED <<enabled, batch, snap, cur, seen, disturbances>>

\* The enrichment step of a scheduled run raises after that commit.
RunRaisesLate ==
    /\ run.kind # "none"
    /\ run.pc = "end"
    /\ disturbances < MaxDisturbances
    /\ disturbances' = disturbances + 1
    /\ Publish
    /\ run' = NoRun
    /\ rpc' = IF run.kind = "full" THEN rpc ELSE "excepted"
    /\ UNCHANGED <<enabled, batch, snap, cur, seen>>

\* An exception ends the run and rolls its session back.
RunRaises ==
    /\ run.kind # "none"
    /\ disturbances < MaxDisturbances
    /\ disturbances' = disturbances + 1
    /\ Forget
    /\ run' = NoRun
    /\ rpc' = IF run.kind = "full" THEN rpc ELSE "excepted"
    /\ UNCHANGED <<job, userVars, batch, snap, listed, cur, seen>>

-----------------------------------------------------------------------------
(* The user, the clock and a restart                                       *)

\* retry_queue_item_for_user and clear_queue_item_for_user accept a row that
\* they have read dropped.
Ask(s) ==
    /\ job[s].status = "dropped"
    /\ asked[s] = "nothing"
    /\ \E what \in {IF job[s].attempts = 0 THEN "requeue" ELSE "reset", "clear"} :
           asked' = [asked EXCEPT ![s] = what]
    /\ UNCHANGED <<job, enabled, runnerVars, listed, run, sessionVars, disturbances>>

Answered(s) == asked' = [asked EXCEPT ![s] = "nothing"]

RetryItem(s) ==
    /\ asked[s] \in {"requeue", "reset"}
    /\ ~RowLocked(s)
    /\ Write(s, [status |-> "queued", due |-> TRUE,
                 attempts |-> IF asked[s] = "reset" THEN 0 ELSE job[s].attempts])
    /\ Answered(s)
    /\ UNCHANGED <<enabled, runnerVars, listed, run, sessionVars, disturbances>>

ClearItem(s) ==
    /\ asked[s] = "clear"
    /\ ~RowLocked(s)
    /\ Write(s, NoJob)
    /\ listed' = listed \ {s}
    /\ Answered(s)
    /\ UNCHANGED <<enabled, runnerVars, run, sessionVars, disturbances>>

\* drop_queue_item_for_user reads an active row and writes DROPPED whatever the
\* row has become; where it is dropped by then, that changes nothing.
DropItem(s) ==
    /\ job[s].status \in ACTIVE_QUEUE_STATUSES
    /\ ~RowLocked(s)
    /\ Write(s, Dropped(job[s]))
    /\ UNCHANGED <<userVars, runnerVars, listed, run, sessionVars, disturbances>>

\* The user toggles a scholar.
ToggleScholar(s) ==
    /\ disturbances < MaxDisturbances
    /\ disturbances' = disturbances + 1
    /\ enabled' = [enabled EXCEPT ![s] = ~@]
    /\ UNCHANGED <<job, asked, runnerVars, listed, run, sessionVars>>

\* next_attempt_dt passes.
BecomesDue(s) ==
    /\ job[s].status = "queued"
    /\ ~job[s].due
    /\ Write(s, [job[s] EXCEPT !.due = TRUE])
    /\ UNCHANGED <<userVars, runnerVars, listed, run, sessionVars, disturbances>>

\* The process dies; rows it marked RETRYING stay so.
Restart ==
    /\ disturbances < MaxDisturbances
    /\ disturbances' = disturbances + 1
    /\ LeaveBatch
    /\ seen' = Unread
    /\ asked' = [s \in Scholar |-> "nothing"]
    /\ run' = NoRun
    /\ Forget
    /\ UNCHANGED <<job, enabled>>

-----------------------------------------------------------------------------
RunnerStep ==
    \/ ListDueJobs \/ (\E s \in Scholar : TakeJob(s)) \/ BatchDone
    \/ ReadRow \/ DropJob \/ MarkRetrying \/ SkipJob
    \/ CheckScholar \/ StartRefusedByLock \/ StartQueueRun
    \/ Defer \/ AfterException \/ FinalizeSuccessful \/ FinalizeFailed

RunStep ==
    \/ \E s \in Scholar, o \in FirstOutcome : FirstVisit(s, o) \/ DepthVisit(s, o)
    \/ FirstPassDone \/ DepthPassDone \/ RunComplete

UserStep ==
    \E s \in Scholar :
        Ask(s) \/ RetryItem(s) \/ DropItem(s) \/ ClearItem(s) \/ ToggleScholar(s)

Next ==
    \/ RunnerStep
    \/ RunStep
    \/ StorePage
    \/ StartFails \/ StartFullRun \/ RunSeesCancel \/ RunRaises
    \/ RunRaisesLate
    \/ UserStep
    \/ \E s \in Scholar : BecomesDue(s)
    \/ Restart

Spec == Init /\ [][Next]_vars

\* The scheduler loop ticks for ever, a run ends, time passes.
Fairness ==
    /\ WF_vars(RunnerStep)
    /\ WF_vars(RunStep)
    /\ \A s \in Scholar : WF_vars(BecomesDue(s))

FairSpec == Spec /\ Fairness
-----------------------------------------------------------------------------
(* Properties                                                              *)

\* A row marked RETRYING is due, so that the tick after a crash, a canceled
\* run or a lost batch lists it again instead of leaving it behind.
RetryingIsDue ==
    \A s \in Scholar : job[s].status = "retrying" => job[s].due

\* No run is started for a continuation whose attempts are used up, be it a
\* row left by a process with a higher limit or one counted down meanwhile.
NoRunPastMaxAttempts ==
    [][rpc = "start" /\ rpc' = "running"
        => ~Found(cur) \/ job[cur].attempts < MaxAttempts]_vars

\* A dropped row becomes active again, and neither has the user retried it nor
\* has a run written a new row for the scholar.
Revived(s) ==
    /\ job[s].status = "dropped"
    /\ job'[s].status \in ACTIVE_QUEUE_STATUSES
    /\ ~RetryItem(s)
    /\ s \notin touched

\* A drop is undone by the runner only where it comes too late for it: between
\* the SELECT of mark_retrying, which has seen the row queued, and its commit, or
\* while the job is being worked on and ends with the row scheduled again.
DropHonoured ==
    [][\A s \in Scholar : Revived(s)
        => /\ cur = s
           /\ \/ rpc = "mark" /\ seen.status = "queued"
              \/ rpc \in {"defer", "excepted", "finalize_failed"}]_vars

\* Stated, and not kept: a drop is undone by the user or a run alone.
DropsStick == [][\A s \in Scholar : ~Revived(s)]_vars


\* "Each continuation item is re-enqueued with exponential backoff"
\* (docs/developer/ingestion.md): when the run of a continuation is over, pages
\* that can be resumed have a row.
ContinuationReenqueued ==
    run.kind = "queue" /\ run.pc = "end" => \A s \in run.owed : Sees(s) # NoJob
=============================================================================
