----------------------- MODULE ContinuationQueueProofs -----------------------
(***************************************************************************)
(* QueueInv is an inductive invariant of ContinuationQueue, for any number *)
(* of scholars, any limit on the attempts and any number of disturbances.  *)
(*                                                                         *)
(* The runner works from a snapshot, and in the meantime the user and the  *)
(* runs write the same rows, also between its SELECT of a row and its      *)
(* UPDATE.  The argument is what they leave alone: a row that still is the *)
(* one that was listed is due, and its attempts are at most those of the   *)
(* snapshot, because a run replaces the row (which is then not the listed  *)
(* one any more), the user only drops it or makes it due without adding    *)
(* attempts, and only the runner counts and marks RETRYING.                *)
(***************************************************************************)
EXTENDS ContinuationQueue, TLAPS

\* Where the runner has a job in hand.
Working == RunnerPC \ {"idle", "next"}

JobInHand ==
    /\ rpc \in Working => cur \in Scholar \ batch
    /\ run.kind = "queue" => rpc = "running"

\* The session of a run deletes rows and writes QUEUED ones.
WritesQueued == \A s \in touched : view[s].status \in {"none", "queued"}

ListedKept ==
    \A s \in listed :
        /\ s \in batch => job[s].due /\ job[s].attempts <= snap[s]
        /\ s = cur /\ rpc \in Working =>
              job[s].due /\ (rpc # "drop" => job[s].attempts < MaxAttempts)

\* What the row read by the runner's session says of the row by now.
SeenKept ==
    /\ rpc \notin Writing => seen = Unread
    /\ seen \in Job =>
          /\ rpc # "drop" => seen.attempts < MaxAttempts
          /\ Found(cur) /\ job[cur].status = "retrying" => seen.status = "retrying"

QueueInv ==
    /\ TypeOK
    /\ RetryingIsDue
    /\ JobInHand
    /\ WritesQueued
    /\ ListedKept
    /\ SeenKept
-----------------------------------------------------------------------------
(* Rows                                                                    *)

Row == Job \cup {NoJob}

\* Rows of any status with attempts in their range.
AnyRow == [status : {"queued", "retrying", "dropped", "none"},
           attempts : 0..MaxAttempts, due : BOOLEAN]

LEMMA RowIsAnyRow == Row \subseteq AnyRow
<1>1. 0 \in 0..MaxAttempts
  BY QueueConstants
<1>2. NoJob \in AnyRow
  BY <1>1 DEF NoJob, AnyRow
<1> QED
  BY <1>2 DEF Row, Job, ACTIVE_QUEUE_STATUSES, AnyRow

LEMMA RowFields ==
    ASSUME NEW j \in Row
    PROVE  /\ j.attempts \in Nat /\ j.attempts <= MaxAttempts /\ j.due \in BOOLEAN
           /\ j = [status |-> j.status, attempts |-> j.attempts, due |-> j.due]
           /\ j.status \in {"queued", "retrying", "dropped", "none"}
<1>1. CASE j \in Job
  <2>1. j.attempts \in 0..MaxAttempts
    BY <1>1 DEF Job
  <2>2. j.attempts \in Nat /\ j.attempts <= MaxAttempts
    BY <2>1, QueueConstants
  <2>3. /\ j.due \in BOOLEAN
        /\ j = [status |-> j.status, attempts |-> j.attempts, due |-> j.due]
        /\ j.status \in {"queued", "retrying", "dropped", "none"}
    BY <1>1 DEF Job, ACTIVE_QUEUE_STATUSES
  <2> QED
    BY <2>2, <2>3
<1>2. CASE j = NoJob
  <2>1. /\ j.attempts = 0 /\ j.due \in BOOLEAN
        /\ j = [status |-> j.status, attempts |-> j.attempts, due |-> j.due]
        /\ j.status \in {"queued", "retrying", "dropped", "none"}
    BY <1>2 DEF NoJob
  <2>2. j.attempts \in Nat /\ j.attempts <= MaxAttempts
    BY <2>1, QueueConstants
  <2> QED
    BY <2>1, <2>2
<1> QED
  BY <1>1, <1>2 DEF Row

LEMMA RowOf ==
    ASSUME NEW status \in {"queued", "retrying", "dropped"}, NEW n \in Nat, n <= MaxAttempts,
           NEW due \in BOOLEAN
    PROVE  [status |-> status, attempts |-> n, due |-> due] \in Row
<1>1. n \in 0..MaxAttempts
  BY QueueConstants
<1> QED
  BY <1>1 DEF Row, Job, ACTIVE_QUEUE_STATUSES

LEMMA RowStatus == \A j \in Row : j.status # "none" => j \in Job
  BY DEF Row, NoJob

\* What the operations on rows make of a row.
LEMMA RowOperations ==
    ASSUME NEW j \in AnyRow
    PROVE  /\ Dropped(j) \in Row /\ Dropped(j).status = "dropped"
           /\ Dropped(j).due = j.due /\ Dropped(j).attempts = j.attempts
           /\ Rescheduled(j) \in Row /\ Rescheduled(j).status = "queued"
           /\ Rescheduled(j).attempts = j.attempts
<1>1. /\ Dropped(j) \in Job /\ Dropped(j).status = "dropped"
      /\ Dropped(j).due = j.due /\ Dropped(j).attempts = j.attempts
  BY DEF Dropped, AnyRow, Job, ACTIVE_QUEUE_STATUSES
<1>2. /\ Rescheduled(j) \in Job /\ Rescheduled(j).status = "queued"
      /\ Rescheduled(j).attempts = j.attempts
  BY DEF Rescheduled, AnyRow, Job, ACTIVE_QUEUE_STATUSES
<1> QED
  BY <1>1, <1>2 DEF Row

LEMMA RowConstants ==
    /\ NewJob \in Row /\ NewJob.status = "queued"
    /\ NoJob \in Row /\ NoJob.status = "none"
<1>1. 0 \in Nat /\ 0 <= MaxAttempts
  BY QueueConstants
<1>2. [status |-> "queued", attempts |-> 0, due |-> FALSE] \in Row
  BY <1>1, RowOf
<1> QED
  BY <1>2 DEF NewJob, NoJob, Row

LEMMA UnreadIsNoRow == Unread \notin Row /\ Unread # NoJob
<1>1. Unread.status = "unread" /\ NoJob.status = "none"
  BY DEF Unread, NoJob
<1>2. \A j \in Job : j.status # "unread"
  BY DEF Job, ACTIVE_QUEUE_STATUSES
<1> QED
  BY <1>1, <1>2 DEF Row

LEMMA RowUpserted ==
    ASSUME NEW j \in Row
    PROVE  Upserted(j) \in Row /\ Upserted(j).status = "queued"
<1>1. CASE j = NoJob
  BY <1>1, RowConstants DEF Upserted
<1>2. CASE j # NoJob
  <2> DEFINE n == IF j.status = "dropped" THEN 0 ELSE j.attempts
  <2>1. n \in Nat /\ n <= MaxAttempts
    BY RowFields, QueueConstants
  <2>2. Upserted(j) = [status |-> "queued", attempts |-> n, due |-> FALSE]
    BY <1>2 DEF Upserted
  <2> HIDE DEF n
  <2>3. [status |-> "queued", attempts |-> n, due |-> FALSE] \in Row
    BY <2>1, RowOf
  <2> QED
    BY <2>2, <2>3
<1> QED
  BY <1>1, <1>2

\* One row is written.
LEMMA RowWritten ==
    ASSUME QueueInv, NEW s \in Scholar, NEW j \in Row, Write(s, j)
    PROVE  /\ job' \in [Scholar -> Row] /\ job'[s] = j
           /\ \A r \in Scholar \ {s} : job'[r] = job[r]
           /\ (j.status = "retrying" => j.due) => RetryingIsDue'
<1>1. job \in [Scholar -> Row]
  BY DEF QueueInv, TypeOK, Row
<1>2. /\ job' \in [Scholar -> Row] /\ job'[s] = j
      /\ \A r \in Scholar \ {s} : job'[r] = job[r]
  BY <1>1 DEF Write
<1> QED
  BY <1>2 DEF QueueInv, RetryingIsDue

\* The runner stays where it is; the listed rows are kept due, their attempts do
\* not rise and none becomes RETRYING.
LEMMA ListedStayKept ==
    ASSUME QueueInv, job' \in [Scholar -> Row], UNCHANGED <<batch, snap, rpc, cur, seen>>,
           listed' \subseteq listed,
           \A s \in listed' :
               /\ job[s].due => job'[s].due
               /\ job'[s].attempts <= job[s].attempts
               /\ job'[s].status = "retrying" => job[s].status = "retrying"
    PROVE  ListedKept' /\ SeenKept'
<1>1. SeenKept'
  BY DEF QueueInv, SeenKept, Found
<1>2. ASSUME NEW s \in listed'
      PROVE  /\ s \in batch' => job'[s].due /\ job'[s].attempts <= snap'[s]
             /\ s = cur' /\ rpc' \in Working =>
                   job'[s].due /\ (rpc' # "drop" => job'[s].attempts < MaxAttempts)
  <2>1. s \in Scholar /\ s \in listed
    BY <1>2 DEF QueueInv, TypeOK
  <2>2. job[s] \in Row /\ job'[s] \in Row /\ snap[s] \in Nat /\ MaxAttempts \in Nat
    BY <2>1, QueueConstants DEF QueueInv, TypeOK, Row
  <2>3. job[s].attempts \in Nat /\ job'[s].attempts \in Nat
    BY <2>2, RowFields
  <2> QED
    BY <1>2, <2>1, <2>2, <2>3 DEF QueueInv, ListedKept
<1> QED
  BY <1>1, <1>2 DEF ListedKept
-----------------------------------------------------------------------------
(* The initial states                                                      *)

LEMMA InitEstablishes == Init => QueueInv
<1> SUFFICES ASSUME Init PROVE QueueInv
  OBVIOUS
<1> DEFINE left == [status |-> "retrying", attempts |-> MaxAttempts, due |-> TRUE]
<1>1. left \in Row /\ left.due
  <2>1. MaxAttempts \in Nat /\ MaxAttempts <= MaxAttempts
    BY QueueConstants
  <2> QED
    BY <2>1, RowOf
<1>2. job \in [Scholar -> {NoJob, NewJob, left}]
  BY DEF Init
<1> HIDE DEF left
<1>3. NoJob \in Row /\ NewJob \in Row
      /\ NoJob.status # "retrying" /\ NewJob.status # "retrying"
  BY RowConstants
<1>4. job \in [Scholar -> Row] /\ RetryingIsDue
  BY <1>1, <1>2, <1>3 DEF RetryingIsDue
<1>5. view \in [Scholar -> Row] /\ snap \in [Scholar -> 0..MaxAttempts]
  BY <1>3, QueueConstants DEF Init
<1>6. NoRun \in RunRecord /\ NoRun.kind = "none"
  BY DEF NoRun, NewRun, RunRecord
<1>7. disturbances \in 0..MaxDisturbances
  BY QueueConstants DEF Init
<1>8. TypeOK
  BY <1>4, <1>5, <1>6, <1>7 DEF Init, TypeOK, Row, RunnerPC, Request
<1>9. JobInHand /\ WritesQueued /\ ListedKept
  BY <1>6 DEF Init, JobInHand, WritesQueued, ListedKept, Working
<1>10. SeenKept
  BY UnreadIsNoRow DEF Init, SeenKept, Row
<1> QED
  BY <1>4, <1>8, <1>9, <1>10 DEF QueueInv
-----------------------------------------------------------------------------
(* The queue runner                                                        *)

LEMMA ListPreserves ==
    ASSUME QueueInv, ListDueJobs
    PROVE  QueueInv'
<1> DEFINE due == {s \in Scholar : Listable(s)}
<1>1. /\ batch' = due /\ listed' = due /\ rpc' = "next" /\ cur' = cur
      /\ job' = job /\ run' = run /\ rpc = "idle"
      /\ snap' = [s \in Scholar |-> IF s \in due THEN job[s].attempts ELSE 0]
      /\ UNCHANGED <<enabled, asked, seen, view, touched, disturbances>>
  BY DEF ListDueJobs, sessionVars, userVars
<1>2. \A s \in due : s \in Scholar /\ job[s].due
  BY DEF Listable
<1> HIDE DEF due
<1>3. \A s \in Scholar : job[s].attempts \in Nat /\ job[s].attempts <= MaxAttempts
  BY RowFields DEF QueueInv, TypeOK, Row
<1>4. \A s \in Scholar : snap'[s] \in 0..MaxAttempts
  BY <1>1, <1>3, QueueConstants
<1>5. TypeOK'
  BY <1>1, <1>2, <1>4 DEF QueueInv, TypeOK, RunnerPC
<1>6. RetryingIsDue' /\ JobInHand' /\ WritesQueued'
  BY <1>1 DEF QueueInv, RetryingIsDue, JobInHand, WritesQueued, Working
<1>7. ListedKept'
  BY <1>1, <1>2, <1>3 DEF ListedKept, Working
<1>8. SeenKept'
  BY <1>1, UnreadIsNoRow DEF QueueInv, SeenKept, Writing, Row
<1> QED
  BY <1>5, <1>6, <1>7, <1>8 DEF QueueInv

LEMMA TakePreserves ==
    ASSUME QueueInv, NEW s \in Scholar, TakeJob(s)
    PROVE  QueueInv'
<1>1. /\ rpc = "next" /\ s \in batch /\ batch' = batch \ {s} /\ cur' = s
      /\ rpc' = IF UsedUp(snap[s]) THEN "drop" ELSE "mark"
      /\ UNCHANGED <<job, enabled, asked, snap, listed, seen, run, view, touched,
                     disturbances>>
  BY DEF TakeJob, sessionVars, userVars
<1>2. TypeOK' /\ RetryingIsDue' /\ WritesQueued' /\ JobInHand'
  BY <1>1 DEF QueueInv, TypeOK, RetryingIsDue, WritesQueued, JobInHand, Working, RunnerPC,
              Writing
<1>3. job[s].attempts \in Nat /\ snap[s] \in Nat /\ MaxAttempts \in Nat
  BY RowFields, QueueConstants DEF QueueInv, TypeOK, Row
<1>4. ListedKept'
  BY <1>1, <1>3 DEF QueueInv, ListedKept, UsedUp, Working
<1>5. SeenKept'
  BY <1>1, UnreadIsNoRow DEF QueueInv, SeenKept, Writing, Row
<1> QED
  BY <1>2, <1>4, <1>5 DEF QueueInv

\* The runner drops what it has of the batch.
LEMMA BatchLeft ==
    ASSUME QueueInv, LeaveBatch, seen' = Unread, run.kind # "queue",
           UNCHANGED <<job, enabled, asked, run, view, touched, disturbances>>
    PROVE  QueueInv'
<1>1. \A s \in Scholar : snap'[s] \in 0..MaxAttempts
  BY QueueConstants DEF LeaveBatch
<1>2. TypeOK'
  BY <1>1 DEF LeaveBatch, QueueInv, TypeOK, RunnerPC
<1>3. RetryingIsDue' /\ JobInHand' /\ WritesQueued' /\ ListedKept'
  BY DEF LeaveBatch, QueueInv, RetryingIsDue, JobInHand, WritesQueued, ListedKept, Working
<1>4. SeenKept'
  BY UnreadIsNoRow DEF SeenKept, Row
<1> QED
  BY <1>2, <1>3, <1>4 DEF QueueInv

LEMMA BatchDonePreserves ==
    ASSUME QueueInv, BatchDone
    PROVE  QueueInv'
<1>1. rpc = "next" /\ seen = Unread /\ run.kind # "queue"
  BY DEF BatchDone, QueueInv, SeenKept, JobInHand, Writing
<1> QED
  BY <1>1, BatchLeft DEF BatchDone, userVars, sessionVars

\* The row of the job in hand, if it still is the one that was listed.
LEMMA RowInHand ==
    ASSUME QueueInv, rpc \in Working
    PROVE  /\ cur \in Scholar \ batch
           /\ Found(cur) => /\ job[cur] \in Job /\ job[cur].due
                            /\ rpc # "drop" => job[cur].attempts < MaxAttempts
<1>1. cur \in Scholar \ batch
  BY DEF QueueInv, JobInHand
<1>2. Found(cur) => job[cur].due /\ (rpc # "drop" => job[cur].attempts < MaxAttempts)
  BY DEF QueueInv, ListedKept, Found
<1>3. job[cur] \in Row /\ ~NoJob.due
  BY <1>1 DEF QueueInv, TypeOK, Row, NoJob
<1> QED
  BY <1>1, <1>2, <1>3 DEF Row

LEMMA ReadPreserves ==
    ASSUME QueueInv, ReadRow
    PROVE  QueueInv'
<1>1. /\ rpc \in Writing /\ rpc \in Working
      /\ seen' = IF Found(cur) THEN job[cur] ELSE NoJob
      /\ UNCHANGED <<job, enabled, asked, batch, snap, listed, rpc, cur, run, view,
                     touched, disturbances>>
  BY DEF ReadRow, userVars, sessionVars, Working, RunnerPC, Writing
<1>2. cur \in Scholar /\ job[cur] \in Row
  BY <1>1, RowInHand DEF QueueInv, TypeOK, Row
<1>3. TypeOK'
  BY <1>1, <1>2 DEF QueueInv, TypeOK, Row
<1>4. RetryingIsDue' /\ JobInHand' /\ WritesQueued' /\ ListedKept'
  BY <1>1 DEF QueueInv, RetryingIsDue, JobInHand, WritesQueued, ListedKept
<1>5. NoJob \notin Job
  BY DEF NoJob, Job, ACTIVE_QUEUE_STATUSES
<1>6. SeenKept'
  BY <1>1, <1>5, RowInHand DEF SeenKept, Found
<1> QED
  BY <1>3, <1>4, <1>6 DEF QueueInv

\* The row as an UPDATE of the runner leaves it.
LEMMA UpdatedRow ==
    ASSUME NEW read \in Job, NEW j \in Job, NEW row \in Job
    PROVE  /\ Updated(read, j, row) \in Job
           /\ Updated(read, j, row).status
                 = IF j.status = read.status THEN row.status ELSE j.status
           /\ Updated(read, j, row).attempts \in {row.attempts, j.attempts}
           /\ j.due = read.due => Updated(read, j, row).due = row.due
  BY DEF Updated, Job

\* The session of the runner commits what it has made of the row it read.
LEMMA CommitPreserves ==
    ASSUME QueueInv, rpc \in Writing, NEW j, NEW pc \in {"next", "check"}, Commit(j, pc),
           pc = "check" => rpc # "drop",
           seen \in Job => /\ j \in Job
                           /\ pc = "check" => j.attempts < MaxAttempts
                           /\ pc = "check" \/ j.status = "retrying" => j.due = seen.due
    PROVE  QueueInv'
<1>1. /\ rpc \in Working /\ rpc # "running" /\ run.kind # "queue"
      /\ seen # Unread /\ seen' = Unread
      /\ UNCHANGED <<enabled, asked, run, view, touched, disturbances>>
  BY DEF Commit, userVars, sessionVars, QueueInv, JobInHand, Working, RunnerPC, Writing
<1>2. SeenKept'
  BY <1>1, UnreadIsNoRow DEF SeenKept, Row
<1>3. CASE LeaveBatch /\ job' = job
  BY <1>1, <1>3, BatchLeft
<1>4. CASE GoOn(pc) /\ job' = job
  <2>1. rpc' = pc /\ UNCHANGED <<batch, snap, listed, cur>>
    BY <1>4 DEF GoOn
  <2>2. TypeOK' /\ RetryingIsDue' /\ WritesQueued' /\ JobInHand'
    BY <1>1, <1>4, <2>1
       DEF QueueInv, TypeOK, RetryingIsDue, WritesQueued, JobInHand, RunnerPC
  <2>3. ListedKept'
    BY <1>1, <1>4, <2>1 DEF QueueInv, ListedKept, Working
  <2> QED
    BY <1>2, <2>2, <2>3 DEF QueueInv
<1>5. CASE seen # NoJob /\ Found(cur) /\ Write(cur, Updated(seen, j, job[cur])) /\ GoOn(pc)
  <2> DEFINE w == Updated(seen, j, job[cur])
  <2>1. rpc' = pc /\ UNCHANGED <<batch, snap, listed, cur>>
    BY <1>5 DEF GoOn
  <2>2. seen \in Job /\ j \in Job /\ cur \in Scholar \ batch
        /\ job[cur] \in Job /\ job[cur].due
    BY <1>1, <1>5, RowInHand DEF QueueInv, TypeOK
  <2>3. /\ w \in Job
        /\ w.status = IF j.status = seen.status THEN job[cur].status ELSE j.status
        /\ w.attempts \in {job[cur].attempts, j.attempts}
        /\ j.due = seen.due => w.due
    BY <2>2, UpdatedRow
  <2>4. Write(cur, w)
    BY <1>5
  <2> HIDE DEF w
  <2>5. w.status = "retrying" => w.due
    BY <1>5, <2>2, <2>3 DEF QueueInv, SeenKept
  <2>6. pc = "check" => w.due /\ w.attempts < MaxAttempts
    BY <1>1, <1>5, <2>2, <2>3, RowInHand
  <2>7. /\ job' \in [Scholar -> Row] /\ RetryingIsDue' /\ job'[cur] = w
        /\ \A r \in Scholar \ {cur} : job'[r] = job[r]
    BY <2>2, <2>3, <2>4, <2>5, RowWritten DEF Row
  <2>8. TypeOK' /\ WritesQueued' /\ JobInHand'
    BY <1>1, <2>1, <2>2, <2>7
       DEF QueueInv, TypeOK, WritesQueued, JobInHand, Row, RunnerPC
  <2>9. ListedKept'
    BY <1>1, <2>1, <2>2, <2>6, <2>7 DEF QueueInv, TypeOK, ListedKept, Working
  <2> QED
    BY <1>2, <2>7, <2>8, <2>9 DEF QueueInv
<1> QED
  BY <1>1, <1>3, <1>4, <1>5 DEF Commit

\* What the runner makes of the row it has read.
LEMMA WhatIsCommitted ==
    ASSUME QueueInv, seen \in Job
    PROVE  /\ Dropped(seen) \in Job /\ Dropped(seen).status = "dropped"
           /\ Rescheduled(seen) \in Job /\ Rescheduled(seen).status = "queued"
           /\ [seen EXCEPT !.attempts = 0] \in Job
           /\ [seen EXCEPT !.attempts = 0].due = seen.due
           /\ [seen EXCEPT !.attempts = 0].status = seen.status
           /\ [seen EXCEPT !.status = "retrying"] \in Job
           /\ [seen EXCEPT !.status = "retrying"].due = seen.due
           /\ [seen EXCEPT !.status = "retrying"].attempts = seen.attempts
           /\ rpc # "drop" => /\ AttemptFailed(seen) \in Job
                              /\ AttemptFailed(seen).status # "retrying"
<1>1. seen \in AnyRow /\ seen.attempts \in Nat
  BY RowIsAnyRow, RowFields DEF Row
<1>2. /\ Dropped(seen) \in Job /\ Dropped(seen).status = "dropped"
      /\ Rescheduled(seen) \in Job /\ Rescheduled(seen).status = "queued"
  BY <1>1, RowOperations, RowStatus
<1>3. 0 \in 0..MaxAttempts
  BY QueueConstants
<1>4. /\ [seen EXCEPT !.attempts = 0] \in Job
      /\ [seen EXCEPT !.attempts = 0].due = seen.due
      /\ [seen EXCEPT !.attempts = 0].status = seen.status
      /\ [seen EXCEPT !.status = "retrying"] \in Job
      /\ [seen EXCEPT !.status = "retrying"].due = seen.due
      /\ [seen EXCEPT !.status = "retrying"].attempts = seen.attempts
  BY <1>3 DEF Job, ACTIVE_QUEUE_STATUSES
<1>5. ASSUME rpc # "drop"
      PROVE  AttemptFailed(seen) \in Job /\ AttemptFailed(seen).status # "retrying"
  <2> DEFINE j == [seen EXCEPT !.attempts = @ + 1]
  <2>1. seen.attempts < MaxAttempts
    BY <1>5 DEF QueueInv, SeenKept
  <2>2. seen.attempts + 1 \in 0..MaxAttempts
    BY <1>1, <2>1, QueueConstants
  <2>3. j \in AnyRow
    BY <1>1, <2>2 DEF AnyRow
  <2>4. AttemptFailed(seen) = IF UsedUp(j.attempts) THEN Dropped(j) ELSE Rescheduled(j)
    BY DEF AttemptFailed
  <2> HIDE DEF j
  <2>5. /\ Dropped(j) \in Job /\ Dropped(j).status = "dropped"
        /\ Rescheduled(j) \in Job /\ Rescheduled(j).status = "queued"
    BY <2>3, RowOperations, RowStatus
  <2> QED
    BY <2>4, <2>5
<1> QED
  BY <1>2, <1>4, <1>5

LEMMA RunnerStepsPreserve ==
    ASSUME QueueInv,
           \/ DropJob \/ MarkRetrying \/ SkipJob \/ CheckScholar \/ StartRefusedByLock
           \/ Defer \/ AfterException \/ FinalizeSuccessful \/ FinalizeFailed
    PROVE  QueueInv'
<1>1. CASE DropJob
  BY <1>1, CommitPreserves, WhatIsCommitted DEF DropJob, Writing
<1>2. CASE MarkRetrying
  <2>1. rpc = "mark" /\ Commit([seen EXCEPT !.status = "retrying"], "check")
    BY <1>2 DEF MarkRetrying
  <2>2. seen \in Job => seen.attempts < MaxAttempts
    BY <2>1 DEF QueueInv, SeenKept
  <2> QED
    BY <2>1, <2>2, CommitPreserves, WhatIsCommitted DEF Writing
<1>3. CASE Defer
  BY <1>3, CommitPreserves, WhatIsCommitted DEF Defer, Writing
<1>4. CASE AfterException
  BY <1>4, CommitPreserves, WhatIsCommitted DEF AfterException, Writing
<1>5. CASE FinalizeSuccessful
  BY <1>5, CommitPreserves, WhatIsCommitted DEF FinalizeSuccessful, Writing
<1>6. CASE FinalizeFailed
  BY <1>6, CommitPreserves, WhatIsCommitted DEF FinalizeFailed, Writing
<1>7. CASE SkipJob \/ CheckScholar \/ StartRefusedByLock
  <2>1. /\ rpc \in {"mark", "check", "start"}
        /\ rpc' \in {"next", "start", "drop", "defer"}
        /\ rpc' = "next" \/ (seen' = seen /\ rpc # "mark")
        /\ rpc' = "next" => seen' = Unread
        /\ UNCHANGED <<job, enabled, asked, batch, snap, listed, cur, run, view, touched,
                       disturbances>>
    BY <1>7 DEF SkipJob, GoOn, CheckScholar, StartRefusedByLock, userVars, sessionVars
  <2>2. rpc \in Working /\ rpc # "drop" /\ seen' = Unread /\ run.kind # "queue"
    BY <2>1 DEF QueueInv, SeenKept, JobInHand, Working, RunnerPC, Writing
  <2>3. TypeOK' /\ RetryingIsDue' /\ WritesQueued' /\ JobInHand'
    BY <2>1, <2>2 DEF QueueInv, TypeOK, RetryingIsDue, WritesQueued, JobInHand, RunnerPC,
                      Writing
  <2>4. ListedKept'
    BY <2>1, <2>2 DEF QueueInv, ListedKept
  <2>5. SeenKept'
    BY <2>2, UnreadIsNoRow DEF SeenKept, Row
  <2> QED
    BY <2>3, <2>4, <2>5 DEF QueueInv
<1> QED
  BY <1>1, <1>2, <1>3, <1>4, <1>5, <1>6, <1>7

\* A step of the runner into or out of its own run.
LEMMA RunnerMoves ==
    ASSUME QueueInv, StartQueueRun \/ StartFails
    PROVE  QueueInv'
<1>1. /\ rpc = "start" /\ rpc' \in {"running", "defer", "excepted"}
      /\ UNCHANGED <<job, enabled, asked, batch, snap, listed, cur, seen>>
  BY DEF StartQueueRun, StartFails, sessionVars, userVars
<1>2. /\ view' \in [Scholar -> Row] /\ touched' \subseteq Scholar /\ WritesQueued'
      /\ run' \in RunRecord /\ disturbances' \in 0..MaxDisturbances
      /\ run'.kind = "queue" => rpc' = "running"
  <2>1. CASE StartFails
    <3>1. disturbances' \in 0..MaxDisturbances
      BY <2>1, QueueConstants DEF StartFails, QueueInv, TypeOK
    <3> QED
      BY <1>1, <2>1, <3>1
         DEF StartFails, sessionVars, QueueInv, TypeOK, WritesQueued, JobInHand, Row
  <2>2. CASE StartQueueRun
    <3>1. cur \in Scholar
      BY <1>1 DEF QueueInv, JobInHand, Working, RunnerPC, Writing
    <3>2. (UNCHANGED <<view, touched>>) \/ Put(cur, NoJob)
      BY <2>2 DEF StartQueueRun, sessionVars
    <3>3. /\ view' \in [Scholar -> Row] /\ touched' \subseteq Scholar /\ WritesQueued'
      BY <3>1, <3>2, RowConstants
         DEF Put, sessionVars, QueueInv, TypeOK, WritesQueued, Row
    <3>4. run' \in RunRecord
      BY <2>2, <3>1 DEF StartQueueRun, NewRun, RunRecord
    <3> QED
      BY <2>2, <3>3, <3>4 DEF StartQueueRun, QueueInv, TypeOK
  <2> QED
    BY <2>1, <2>2
<1>3. TypeOK'
  BY <1>1, <1>2 DEF QueueInv, TypeOK, RunnerPC, Writing, Row
<1>4. RetryingIsDue' /\ JobInHand' /\ ListedKept'
  BY <1>1, <1>2
     DEF QueueInv, RetryingIsDue, JobInHand, ListedKept, Working, RunnerPC, Writing
<1>5. SeenKept'
  BY <1>1, UnreadIsNoRow DEF QueueInv, SeenKept, Row, Writing
<1> QED
  BY <1>2, <1>3, <1>4, <1>5 DEF QueueInv
-----------------------------------------------------------------------------
(* Runs                                                                    *)

\* What the session of the run does to a row of its own.
LEMMA SessionWrites ==
    ASSUME QueueInv, NEW s \in Scholar,
           \/ UNCHANGED sessionVars
           \/ Put(s, NoJob)
           \/ Put(s, Upserted(Sees(s)))
    PROVE  view' \in [Scholar -> Row] /\ touched' \subseteq Scholar /\ WritesQueued'
<1>1. Sees(s) \in Row
  BY DEF Sees, QueueInv, TypeOK, Row
<1>2. /\ Upserted(Sees(s)) \in Row /\ Upserted(Sees(s)).status = "queued"
      /\ NoJob \in Row /\ NoJob.status = "none"
  BY <1>1, RowUpserted, RowConstants
<1>3. (UNCHANGED sessionVars)
      \/ \E j \in Row : j.status \in {"none", "queued"} /\ Put(s, j)
  BY <1>2
<1> QED
  BY <1>3 DEF Put, sessionVars, QueueInv, TypeOK, WritesQueued, Row

\* A step of a run that commits nothing and does not end the run.
LEMMA RunWorks ==
    ASSUME QueueInv, run' \in RunRecord, run'.kind = run.kind \/ run'.kind = "full",
           view' \in [Scholar -> Row], touched' \subseteq Scholar, WritesQueued',
           disturbances' \in 0..MaxDisturbances,
           UNCHANGED <<job, enabled, asked, batch, snap, listed, rpc, cur, seen>>
    PROVE  QueueInv'
<1>1. TypeOK' /\ RetryingIsDue'
  BY DEF QueueInv, TypeOK, RetryingIsDue, Row
<1>2. JobInHand' /\ ListedKept' /\ SeenKept'
  BY DEF QueueInv, JobInHand, ListedKept, SeenKept, Found
<1> QED
  BY <1>1, <1>2 DEF QueueInv

\* The session of the run commits.
LEMMA PublishKeeps ==
    ASSUME QueueInv, Publish
    PROVE  /\ job' \in [Scholar -> Row] /\ RetryingIsDue' /\ WritesQueued'
           /\ view' \in [Scholar -> Row] /\ touched' \subseteq Scholar
           /\ listed' \subseteq listed
           /\ asked' \in [Scholar -> Request]
           /\ \A s \in listed' : job'[s] = job[s]
<1>1. \A s \in Scholar : Sees(s) \in Row
  BY DEF Sees, QueueInv, TypeOK, Row
<1>2. job' \in [Scholar -> Row] /\ \A s \in Scholar : job'[s] = Sees(s)
  BY <1>1 DEF Publish
<1>3. RetryingIsDue'
  BY <1>2 DEF Sees, QueueInv, TypeOK, RetryingIsDue, WritesQueued
<1>4. /\ view' \in [Scholar -> Row] /\ touched' = {} /\ listed' = listed \ touched
  BY RowConstants DEF Publish
<1>5. \A s \in listed' : job'[s] = job[s]
  BY <1>2, <1>4 DEF Sees, QueueInv, TypeOK
<1>6. asked' \in [Scholar -> Request]
  BY DEF Publish, QueueInv, TypeOK, Request
<1> QED
  BY <1>2, <1>3, <1>4, <1>5, <1>6 DEF WritesQueued

LEMMA RunStepsPreserve ==
    ASSUME QueueInv,
           \/ \E s \in Scholar, o \in FirstOutcome : FirstVisit(s, o) \/ DepthVisit(s, o)
           \/ FirstPassDone \/ DepthPassDone \/ RunSeesCancel \/ StartFullRun
    PROVE  QueueInv'
<1>1. run \in RunRecord
  BY DEF QueueInv, TypeOK
<1>2. ASSUME NEW s \in Scholar, NEW o \in FirstOutcome, FirstVisit(s, o) \/ DepthVisit(s, o)
      PROVE  QueueInv'
  <2>1. /\ run' \in RunRecord /\ run'.kind = run.kind
        /\ UNCHANGED <<job, enabled, asked, batch, snap, listed, rpc, cur, seen,
                       disturbances>>
    <3>1. Owed(s, o) \subseteq Scholar
      BY <1>1, <1>2 DEF Owed, RunRecord
    <3>2. ASSUME NEW todo \in SUBSET Scholar, NEW deep \in SUBSET Scholar,
                 NEW failed \in SUBSET Scholar, NEW owed \in SUBSET Scholar,
                 run' = [run EXCEPT !.todo = todo, !.deep = deep, !.failed = failed,
                                    !.owed = owed]
          PROVE  run' \in RunRecord /\ run'.kind = run.kind
      BY <1>1, <3>2 DEF RunRecord
    <3>3. ASSUME NEW deep \in SUBSET Scholar,
                 NEW failed \in SUBSET Scholar, NEW owed \in SUBSET Scholar,
                 run' = [run EXCEPT !.deep = deep, !.failed = failed, !.owed = owed]
          PROVE  run' \in RunRecord /\ run'.kind = run.kind
      BY <1>1, <3>3 DEF RunRecord
    <3>4. /\ run.todo \subseteq Scholar /\ run.deep \subseteq Scholar
          /\ run.failed \subseteq Scholar
      BY <1>1 DEF RunRecord
    <3>5. CASE FirstVisit(s, o)
      <4> DEFINE todo == IF o = "challenge" THEN {} ELSE run.todo \ {s}
                 deep == IF o = "more" THEN run.deep \cup {s} ELSE run.deep
                 failed == IF o \in {"done", "more"} THEN run.failed
                           ELSE run.failed \cup {s}
      <4>1. run' = [run EXCEPT !.todo = todo, !.deep = deep, !.failed = failed,
                               !.owed = Owed(s, o)]
        BY <3>5 DEF FirstVisit
      <4>2. todo \subseteq Scholar /\ deep \subseteq Scholar /\ failed \subseteq Scholar
        BY <3>4
      <4> HIDE DEF todo, deep, failed
      <4>3. run' \in RunRecord /\ run'.kind = run.kind
        BY <3>1, <3>2, <4>1, <4>2
      <4> QED
        BY <3>5, <4>3 DEF FirstVisit, runnerVars, userVars
    <3>6. CASE DepthVisit(s, o)
      <4> DEFINE deep == IF o = "challenge" THEN {} ELSE run.deep \ {s}
                 failed == IF o \in {"done", "more"} THEN run.failed \ {s}
                           ELSE run.failed \cup {s}
      <4>1. run' = [run EXCEPT !.deep = deep, !.failed = failed, !.owed = Owed(s, o)]
        BY <3>6 DEF DepthVisit
      <4>2. deep \subseteq Scholar /\ failed \subseteq Scholar
        BY <3>4
      <4> HIDE DEF deep, failed
      <4>3. run' \in RunRecord /\ run'.kind = run.kind
        BY <3>1, <3>3, <4>1, <4>2
      <4> QED
        BY <3>6, <4>3 DEF DepthVisit, runnerVars, userVars
    <3> QED
      BY <1>2, <3>5, <3>6
  <2>2. \/ UNCHANGED sessionVars
        \/ Put(s, NoJob)
        \/ Put(s, Upserted(Sees(s)))
    BY <1>2 DEF FirstVisit, DepthVisit
  <2>3. view' \in [Scholar -> Row] /\ touched' \subseteq Scholar /\ WritesQueued'
    BY <2>2, SessionWrites
  <2>4. disturbances' \in 0..MaxDisturbances
    BY <2>1 DEF QueueInv, TypeOK
  <2> QED
    BY <2>1, <2>3, <2>4, RunWorks
<1>3. CASE FirstPassDone \/ DepthPassDone \/ RunSeesCancel \/ StartFullRun
  <2>1. /\ run' \in RunRecord /\ (run'.kind = run.kind \/ run'.kind = "full")
        /\ UNCHANGED <<job, enabled, asked, batch, snap, listed, rpc, cur, seen, view,
                       touched>>
    <3>1. CASE FirstPassDone \/ DepthPassDone \/ RunSeesCancel
      BY <1>1, <3>1 DEF FirstPassDone, DepthPassDone, RunSeesCancel, runnerVars,
                        userVars, sessionVars, RunRecord
    <3>2. CASE StartFullRun
      BY <3>2 DEF StartFullRun, NewRun, RunRecord, runnerVars, userVars,
                    sessionVars
    <3> QED
      BY <1>3, <3>1, <3>2
  <2>2. disturbances' \in 0..MaxDisturbances
    BY <1>3, QueueConstants DEF FirstPassDone, DepthPassDone, RunSeesCancel,
       StartFullRun, QueueInv, TypeOK
  <2>3. view' \in [Scholar -> Row] /\ touched' \subseteq Scholar /\ WritesQueued'
    BY <2>1 DEF QueueInv, TypeOK, WritesQueued, Row
  <2> QED
    BY <2>1, <2>2, <2>3, RunWorks
<1> QED
  BY <1>2, <1>3

LEMMA NoRunIsRun == NoRun \in RunRecord /\ NoRun.kind = "none"
  BY DEF NoRun, NewRun, RunRecord

\* A run commits, goes on or is over.
LEMMA RunCommits ==
    ASSUME QueueInv, StorePage \/ RunComplete \/ RunRaisesLate
    PROVE  QueueInv'
<1>1. /\ Publish /\ UNCHANGED <<enabled, batch, snap, cur, seen>>
      /\ disturbances' \in 0..MaxDisturbances
  <2>1. Publish /\ UNCHANGED <<enabled, batch, snap, cur, seen>>
    BY DEF StorePage, RunComplete, RunRaisesLate, runnerVars
  <2>2. disturbances' \in 0..MaxDisturbances
    BY QueueConstants DEF StorePage, RunComplete, RunRaisesLate, QueueInv, TypeOK
  <2> QED
    BY <2>1, <2>2
<1>2. /\ rpc' = rpc \/ (rpc = "running" /\ rpc' \in {"finalize_ok", "finalize_failed", "excepted"})
      /\ run' \in RunRecord /\ (run'.kind = "queue" => rpc' = "running")
  <2>1. run \in RunRecord /\ (run.kind = "queue" => rpc = "running")
    BY DEF QueueInv, TypeOK, JobInHand
  <2>2. CASE StorePage
    BY <2>1, <2>2 DEF StorePage, runnerVars
  <2>3. CASE RunComplete \/ RunRaisesLate
    BY <2>1, <2>3, NoRunIsRun DEF RunComplete, RunRaisesLate, RunRecord
  <2> QED
    BY <2>2, <2>3
<1>3. /\ job' \in [Scholar -> Row] /\ RetryingIsDue' /\ WritesQueued'
      /\ view' \in [Scholar -> Row] /\ touched' \subseteq Scholar
      /\ listed' \subseteq listed /\ asked' \in [Scholar -> Request]
      /\ \A s \in listed' : job'[s] = job[s]
  BY <1>1, PublishKeeps
<1>4. TypeOK'
  BY <1>1, <1>2, <1>3 DEF QueueInv, TypeOK, Row, RunnerPC, Writing
<1>5. JobInHand'
  BY <1>1, <1>2 DEF QueueInv, JobInHand, Working, RunnerPC, Writing
<1>6. ListedKept'
  BY <1>1, <1>2, <1>3 DEF QueueInv, ListedKept, Working, RunnerPC, Writing
<1>7. SeenKept'
  BY <1>1, <1>2, <1>3, UnreadIsNoRow DEF QueueInv, SeenKept, Found, Row, Writing
<1> QED
  BY <1>3, <1>4, <1>5, <1>6, <1>7 DEF QueueInv

LEMMA RunRaisesPreserves ==
    ASSUME QueueInv, RunRaises
    PROVE  QueueInv'
<1>1. /\ disturbances' \in 0..MaxDisturbances /\ run' = NoRun
      /\ UNCHANGED <<job, enabled, asked, batch, snap, listed, cur, seen>>
  BY QueueConstants DEF RunRaises, QueueInv, TypeOK, userVars
<1>2. rpc' = rpc \/ (rpc = "running" /\ rpc' = "excepted")
  BY DEF RunRaises, QueueInv, TypeOK, RunRecord, JobInHand
<1>3. view' \in [Scholar -> Row] /\ touched' = {}
  BY RowConstants DEF RunRaises, Forget
<1>4. TypeOK' /\ WritesQueued' /\ RetryingIsDue'
  BY <1>1, <1>2, <1>3, NoRunIsRun
     DEF QueueInv, TypeOK, WritesQueued, RetryingIsDue, Row, RunnerPC, Writing
<1>5. JobInHand' /\ ListedKept'
  BY <1>1, <1>2, NoRunIsRun DEF QueueInv, JobInHand, ListedKept, Working, RunnerPC,
                                 Writing
<1>6. SeenKept'
  BY <1>1, <1>2, UnreadIsNoRow DEF QueueInv, SeenKept, Found, Row, Writing
<1> QED
  BY <1>4, <1>5, <1>6 DEF QueueInv
-----------------------------------------------------------------------------
(* The user, the clock and a restart                                       *)

\* Another actor writes a row: it stays due, its attempts do not rise and it is not
\* RETRYING, or it is deleted and no longer the listed one.
LEMMA OthersWrite ==
    ASSUME QueueInv, NEW s \in Scholar, NEW j \in Row, Write(s, j), j.status # "retrying",
           asked' \in [Scholar -> Request],
           UNCHANGED <<enabled, batch, snap, rpc, cur, seen, run, view, touched,
                       disturbances>>,
           \/ listed' = listed /\ (job[s].due => j.due) /\ j.attempts <= job[s].attempts
           \/ listed' = listed \ {s}
    PROVE  QueueInv'
<1>1. /\ job' \in [Scholar -> Row] /\ job'[s] = j
      /\ \A r \in Scholar \ {s} : job'[r] = job[r]
      /\ RetryingIsDue'
  BY RowWritten
<1>2. \A r \in Scholar : job[r].attempts \in Nat
  BY RowFields DEF QueueInv, TypeOK, Row
<1>3. TypeOK' /\ JobInHand' /\ WritesQueued'
  BY <1>1 DEF QueueInv, TypeOK, JobInHand, WritesQueued, Row
<1>4. \A r \in listed' :
         /\ job[r].due => job'[r].due
         /\ job'[r].attempts <= job[r].attempts
         /\ job'[r].status = "retrying" => job[r].status = "retrying"
  BY <1>1, <1>2 DEF QueueInv, TypeOK
<1>5. ListedKept' /\ SeenKept'
  BY <1>1, <1>4, ListedStayKept
<1> QED
  BY <1>1, <1>3, <1>5 DEF QueueInv

LEMMA OthersPreserve ==
    ASSUME QueueInv, NEW s \in Scholar,
           Ask(s) \/ RetryItem(s) \/ DropItem(s) \/ ClearItem(s) \/ BecomesDue(s)
    PROVE  QueueInv'
<1>1. /\ UNCHANGED <<enabled, batch, snap, rpc, cur, seen, run, view, touched, disturbances>>
      /\ ~ClearItem(s) => listed' = listed
  BY DEF Ask, RetryItem, DropItem, ClearItem, BecomesDue, runnerVars, sessionVars, userVars
<1>2. /\ job[s] \in Row /\ job[s] \in AnyRow
      /\ job[s].attempts \in Nat /\ job[s].attempts <= MaxAttempts
  BY RowIsAnyRow, RowFields DEF QueueInv, TypeOK, Row
<1>3. asked' \in [Scholar -> Request]
  BY DEF Ask, RetryItem, DropItem, ClearItem, BecomesDue, userVars, Answered, QueueInv,
         TypeOK, Request
<1>4. CASE RetryItem(s)
  <2> DEFINE n == IF asked[s] = "reset" THEN 0 ELSE job[s].attempts
             j == [status |-> "queued", attempts |-> n, due |-> TRUE]
  <2>1. Write(s, j) /\ listed' = listed
    BY <1>4 DEF RetryItem
  <2>2. n \in Nat /\ n <= job[s].attempts /\ n <= MaxAttempts
    BY <1>2, QueueConstants
  <2>3. j.status = "queued" /\ j.attempts = n /\ j.due
    OBVIOUS
  <2> HIDE DEF n
  <2>4. j \in Row
    BY <2>2, RowOf
  <2> HIDE DEF j
  <2> QED
    BY <1>1, <1>3, <2>1, <2>2, <2>3, <2>4, OthersWrite
<1>5. CASE DropItem(s)
  <2>1. Write(s, Dropped(job[s])) /\ listed' = listed
    BY <1>5 DEF DropItem
  <2>2. /\ Dropped(job[s]) \in Row /\ Dropped(job[s]).status # "retrying"
        /\ job[s].due => Dropped(job[s]).due
        /\ Dropped(job[s]).attempts <= job[s].attempts
    BY <1>2, RowOperations
  <2> QED
    BY <1>1, <1>3, <2>1, <2>2, OthersWrite
<1>6. CASE ClearItem(s)
  <2>1. Write(s, NoJob) /\ listed' = listed \ {s}
    BY <1>6 DEF ClearItem
  <2> QED
    BY <1>1, <1>3, <2>1, RowConstants, OthersWrite
<1>7. CASE BecomesDue(s)
  <2> DEFINE j == [job[s] EXCEPT !.due = TRUE]
  <2>1. Write(s, j) /\ listed' = listed /\ job[s].status = "queued"
    BY <1>7 DEF BecomesDue
  <2>2. job[s] \in Job
    BY <1>2, <2>1, RowConstants DEF Row
  <2>3. j \in Job /\ j.due /\ j.attempts = job[s].attempts /\ j.status = "queued"
    BY <2>1, <2>2 DEF Job
  <2> HIDE DEF j
  <2>4. j \in Row /\ j.attempts <= job[s].attempts
    BY <1>2, <2>3 DEF Row
  <2> QED
    BY <1>1, <1>3, <2>1, <2>3, <2>4, OthersWrite
<1>8. CASE Ask(s)
  <2>1. job' = job /\ listed' = listed
    BY <1>8 DEF Ask
  <2>2. TypeOK' /\ RetryingIsDue' /\ JobInHand' /\ WritesQueued'
    BY <1>1, <1>3, <2>1 DEF QueueInv, TypeOK, RetryingIsDue, JobInHand, WritesQueued
  <2>3. ListedKept' /\ SeenKept'
    BY <1>1, <2>1 DEF QueueInv, ListedKept, SeenKept, Found
  <2> QED
    BY <2>2, <2>3 DEF QueueInv
<1> QED
  BY <1>4, <1>5, <1>6, <1>7, <1>8

LEMMA TogglePreserves ==
    ASSUME QueueInv, NEW s \in Scholar, ToggleScholar(s)
    PROVE  QueueInv'
<1>1. disturbances' \in 0..MaxDisturbances
  BY QueueConstants DEF ToggleScholar, QueueInv, TypeOK
<1>2. enabled' \in [Scholar -> BOOLEAN]
  BY DEF ToggleScholar, QueueInv, TypeOK
<1> QED
  BY <1>1, <1>2 DEF ToggleScholar, runnerVars, sessionVars, QueueInv, TypeOK,
     RetryingIsDue, JobInHand, WritesQueued, ListedKept, SeenKept, Found

LEMMA RestartPreserves ==
    ASSUME QueueInv, Restart
    PROVE  QueueInv'
<1>1. disturbances' \in 0..MaxDisturbances
  BY QueueConstants DEF Restart, QueueInv, TypeOK
<1>2. /\ view' \in [Scholar -> Row] /\ touched' = {}
      /\ snap' \in [Scholar -> 0..MaxAttempts]
      /\ asked' \in [Scholar -> Request]
  BY RowConstants, QueueConstants DEF Restart, LeaveBatch, Forget, Request
<1>3. TypeOK'
  BY <1>1, <1>2, NoRunIsRun
     DEF Restart, LeaveBatch, QueueInv, TypeOK, Row, RunnerPC
<1>4. SeenKept'
  BY UnreadIsNoRow DEF Restart, SeenKept, Row
<1> QED
  BY <1>2, <1>3, <1>4, NoRunIsRun DEF Restart, LeaveBatch, QueueInv, RetryingIsDue,
     JobInHand, WritesQueued, ListedKept, Working
-----------------------------------------------------------------------------
LEMMA Stutter ==
    ASSUME QueueInv, UNCHANGED vars
    PROVE  QueueInv'
BY DEF vars, QueueInv, TypeOK, RetryingIsDue, JobInHand, WritesQueued, ListedKept,
       SeenKept, Found

LEMMA Inductive == QueueInv /\ [Next]_vars => QueueInv'
<1> SUFFICES ASSUME QueueInv, [Next]_vars PROVE QueueInv'
  OBVIOUS
<1>1. CASE RunnerStep
  BY <1>1, ListPreserves, TakePreserves, BatchDonePreserves, ReadPreserves,
     RunnerStepsPreserve, RunnerMoves DEF RunnerStep
<1>2. CASE RunStep
  BY <1>2, RunStepsPreserve, RunCommits DEF RunStep
<1>3. CASE StorePage \/ RunRaisesLate
  BY <1>3, RunCommits
<1>4. CASE StartFails
  BY <1>4, RunnerMoves
<1>5. CASE StartFullRun \/ RunSeesCancel
  BY <1>5, RunStepsPreserve
<1>6. CASE RunRaises
  BY <1>6, RunRaisesPreserves
<1>7. CASE UserStep
  BY <1>7, OthersPreserve, TogglePreserves DEF UserStep
<1>8. CASE \E s \in Scholar : BecomesDue(s)
  BY <1>8, OthersPreserve
<1>9. CASE Restart
  BY <1>9, RestartPreserves
<1>10. CASE UNCHANGED vars
  BY <1>10, Stutter
<1> QED
  BY <1>1, <1>2, <1>3, <1>4, <1>5, <1>6, <1>7, <1>8, <1>9, <1>10 DEF Next

\* QueueInv holds in every reachable state.
THEOREM Invariance == Spec => []QueueInv
<1> QED
  BY InitEstablishes, Inductive, PTL DEF Spec

\* The variables of the queue keep their types: the rows' attempts stay within
\* the limit, whatever the orders in which runner, runs and user write them.
THEOREM TypeCorrect == Spec => []TypeOK
<1>1. QueueInv => TypeOK
  BY DEF QueueInv
<1> QED
  BY <1>1, Invariance, PTL

\* A row that a crash, a canceled run or a lost batch leaves RETRYING is due, so
\* that list_due_jobs finds it again.
THEOREM RetryingStaysDue == Spec => []RetryingIsDue
<1>1. QueueInv => RetryingIsDue
  BY DEF QueueInv
<1> QED
  BY <1>1, Invariance, PTL

\* No continuation is run once its attempts are used up: the snapshot the limit
\* is compared with is never below the row it was taken from.
THEOREM AttemptsAreLimited == Spec => NoRunPastMaxAttempts
<1>1. QueueInv /\ [Next]_vars
         => [rpc = "start" /\ rpc' = "running"
              => ~Found(cur) \/ job[cur].attempts < MaxAttempts]_vars
  BY DEF QueueInv, ListedKept, Found, Working, RunnerPC, Writing
<1> QED
  BY <1>1, Invariance, PTL DEF Spec, NoRunPastMaxAttempts
-----------------------------------------------------------------------------
(* Dropped rows                                                            *)

\* What DropHonoured asks of a step.
DropKept ==
    \A s \in Scholar : Revived(s)
        => /\ cur = s
           /\ \/ rpc = "mark" /\ seen.status = "queued"
              \/ rpc \in {"defer", "excepted", "finalize_failed"}

\* A row is written that was not dropped, stays dropped, is retried by the user or
\* is one that the runner may bring back.
LEMMA DropKeptByWrite ==
    ASSUME QueueInv, NEW r \in Scholar, NEW j, Write(r, j),
           \/ job[r].status # "dropped"
           \/ j.status \notin ACTIVE_QUEUE_STATUSES
           \/ RetryItem(r)
           \/ cur = r /\ rpc = "mark" /\ seen.status = "queued"
           \/ cur = r /\ rpc \in {"defer", "excepted", "finalize_failed"}
    PROVE  DropKept
<1>1. job'[r] = j /\ \A s \in Scholar \ {r} : job'[s] = job[s]
  BY DEF Write, QueueInv, TypeOK
<1> QED
  BY <1>1 DEF DropKept, Revived, ACTIVE_QUEUE_STATUSES

LEMMA DropKeptWhereUnchanged ==
    ASSUME job' = job
    PROVE  DropKept
BY DEF DropKept, Revived, ACTIVE_QUEUE_STATUSES

\* An UPDATE that does not change what it has read of the status keeps a drop, and
\* so does one that writes DROPPED.
LEMMA DropKeptByCommit ==
    ASSUME QueueInv, rpc \in Writing, NEW j, NEW pc \in {"next", "check"}, Commit(j, pc),
           seen \in Job => j \in Job,
           \/ j.status = seen.status
           \/ j.status = "dropped"
           \/ rpc = "mark" /\ seen.status = "queued"
           \/ rpc \in {"defer", "excepted", "finalize_failed"}
    PROVE  DropKept
<1>1. CASE job' = job
  BY <1>1, DropKeptWhereUnchanged
<1>2. CASE seen \notin {NoJob, Unread} /\ Found(cur) /\ Write(cur, Updated(seen, j, job[cur]))
  <2>1. rpc \in Working
    BY DEF Working, RunnerPC, Writing
  <2>2. seen \in Job /\ j \in Job /\ cur \in Scholar /\ job[cur] \in Job
    BY <1>2, <2>1, RowInHand DEF QueueInv, TypeOK
  <2>3. Updated(seen, j, job[cur]).status
           = IF j.status = seen.status THEN job[cur].status ELSE j.status
    BY <2>2, UpdatedRow
  <2> QED
    BY <1>2, <2>2, <2>3, DropKeptByWrite DEF ACTIVE_QUEUE_STATUSES
<1> QED
  BY <1>1, <1>2 DEF Commit

LEMMA DropKeptByRunner ==
    ASSUME QueueInv, RunnerStep
    PROVE  DropKept
<1>1. CASE DropJob
  <2>1. rpc = "drop" /\ Commit(Dropped(seen), "next") /\ (seen # Unread)
    BY <1>1 DEF DropJob, Commit
  <2>2. CASE seen = NoJob
    <3>1. job' = job
      BY <2>1, <2>2 DEF Commit
    <3> QED
      BY <3>1, DropKeptWhereUnchanged
  <2>3. CASE seen \in Job
    BY <2>1, <2>3, WhatIsCommitted, DropKeptByCommit DEF Writing
  <2> QED
    BY <2>1, <2>2, <2>3 DEF QueueInv, TypeOK
<1>2. CASE MarkRetrying
  <2>1. /\ rpc = "mark" /\ Commit([seen EXCEPT !.status = "retrying"], "check")
        /\ seen \notin {NoJob, Unread} /\ seen.status # "dropped"
    BY <1>2 DEF MarkRetrying, MayRetry, Commit
  <2>2. seen \in Job
    BY <2>1 DEF QueueInv, TypeOK
  <2>3. seen.status = "queued" \/ [seen EXCEPT !.status = "retrying"].status = seen.status
    BY <2>1, <2>2 DEF Job, ACTIVE_QUEUE_STATUSES
  <2> QED
    BY <2>1, <2>2, <2>3, WhatIsCommitted, DropKeptByCommit DEF Writing
<1>3. CASE Defer \/ AfterException \/ FinalizeFailed
  <2>1. /\ rpc \in {"defer", "excepted", "finalize_failed"}
        /\ Commit(Rescheduled(seen), "next") \/ Commit(AttemptFailed(seen), "next")
    BY <1>3 DEF Defer, AfterException, FinalizeFailed
  <2> QED
    BY <2>1, WhatIsCommitted, DropKeptByCommit DEF Writing
<1>4. CASE FinalizeSuccessful
  <2> DEFINE j == [seen EXCEPT !.attempts = 0]
  <2>1. rpc = "finalize_ok" /\ Commit(j, "next") /\ seen # Unread
    BY <1>4 DEF FinalizeSuccessful, Commit
  <2>2. seen \in Job \/ seen = NoJob
    BY <2>1 DEF QueueInv, TypeOK
  <2>3. seen \in Job => j \in Job
    BY WhatIsCommitted
  <2>4. j.status = seen.status
    BY <2>2, WhatIsCommitted DEF NoJob
  <2> HIDE DEF j
  <2> QED
    BY <2>1, <2>3, <2>4, DropKeptByCommit DEF Writing
<1>5. CASE \/ ListDueJobs \/ (\E s \in Scholar : TakeJob(s)) \/ BatchDone \/ ReadRow
           \/ SkipJob \/ CheckScholar \/ StartRefusedByLock \/ StartQueueRun
  BY <1>5, DropKeptWhereUnchanged
     DEF ListDueJobs, TakeJob, BatchDone, ReadRow, SkipJob, CheckScholar,
         StartRefusedByLock, StartQueueRun
<1> QED
  BY <1>1, <1>2, <1>3, <1>4, <1>5 DEF RunnerStep

LEMMA DropKeptByStep == QueueInv /\ [Next]_vars => DropKept
<1> SUFFICES ASSUME QueueInv, [Next]_vars PROVE DropKept
  OBVIOUS
<1>1. CASE Publish
  <2>1. \A s \in Scholar : job'[s] = Sees(s)
    BY <1>1 DEF Publish
  <2> QED
    BY <2>1 DEF DropKept, Revived, Sees, ACTIVE_QUEUE_STATUSES
<1>2. CASE RunnerStep
  BY <1>2, DropKeptByRunner
<1>3. CASE RunStep
  <2>1. Publish \/ job' = job
    BY <1>3 DEF RunStep, FirstVisit, DepthVisit, FirstPassDone, DepthPassDone,
                RunComplete
  <2> QED
    BY <1>1, <2>1, DropKeptWhereUnchanged
<1>4. CASE StorePage \/ RunRaisesLate
  BY <1>1, <1>4 DEF StorePage, RunRaisesLate
<1>5. CASE StartFails \/ StartFullRun \/ RunSeesCancel \/ RunRaises \/ Restart
  BY <1>5, DropKeptWhereUnchanged
     DEF StartFails, StartFullRun, RunSeesCancel, RunRaises, Restart
<1>6. ASSUME NEW s \in Scholar,
             \/ Ask(s) \/ RetryItem(s) \/ DropItem(s) \/ ClearItem(s) \/ ToggleScholar(s)
             \/ BecomesDue(s)
      PROVE  DropKept
  <2>1. CASE RetryItem(s)
    <3>1. \E j : Write(s, j)
      BY <2>1 DEF RetryItem
    <3> QED
      BY <2>1, <3>1, DropKeptByWrite
  <2>2. CASE DropItem(s) \/ BecomesDue(s)
    <3>1. job[s].status # "dropped" /\ \E j : Write(s, j)
      BY <2>2 DEF DropItem, BecomesDue, ACTIVE_QUEUE_STATUSES
    <3> QED
      BY <3>1, DropKeptByWrite
  <2>3. CASE ClearItem(s)
    BY <2>3, RowConstants, DropKeptByWrite DEF ClearItem, ACTIVE_QUEUE_STATUSES
  <2>4. CASE Ask(s) \/ ToggleScholar(s)
    BY <2>4, DropKeptWhereUnchanged DEF Ask, ToggleScholar
  <2> QED
    BY <1>6, <2>1, <2>2, <2>3, <2>4
<1>7. CASE UNCHANGED vars
  BY <1>7, DropKeptWhereUnchanged DEF vars
<1> QED
  BY <1>2, <1>3, <1>4, <1>5, <1>6, <1>7 DEF Next, UserStep

\* A row dropped by the user or by the runner comes back only by the user's
\* retry, as a new row of a run, or by the runner where the drop was committed
\* after its SELECT in mark_retrying or while the job was being worked on.
THEOREM DropsAreHonoured == Spec => DropHonoured
<1>1. QueueInv /\ [Next]_vars => [DropKept]_vars
  BY DropKeptByStep
<1> QED
  BY <1>1, Invariance, PTL DEF Spec, DropHonoured, DropKept
=============================================================================
