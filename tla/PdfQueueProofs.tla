--------------------------- MODULE PdfQueueProofs ---------------------------
(* PdfQueueInv is inductive; ResolvedHasPdf and InFlightAttended follow. *)
EXTENDS PdfQueue, TLAPS

\* The four parts of the invariant hold when no row and no task exists.
LEMMA InitEstablishes == Init => PdfQueueInv
<1> SUFFICES ASSUME Init
            PROVE  PdfQueueInv
  OBVIOUS
<1>1. TypeOK
  <2>1. /\ status \in [Publication -> Status \cup {"none"}]
        /\ pc \in [Task -> TaskPC]
        /\ rows \in [Task -> SUBSET Publication]
        /\ inserts \in [Task -> SUBSET Publication]
        /\ current \in [Task -> Publication \cup {NoPublication}]
    BY DEF Init, TaskPC
  <2>2. pdf \in [Publication -> BOOLEAN] /\ budget \in BOOLEAN
    BY DEF Init
  <2>3. age \in [Publication -> Never..Weeks]
    BY DEF Init, Never, Weeks
  <2>4. attempts \in [Publication -> 0..AttemptBound] /\ restarts \in 0..RestartBound
    BY PdfQueueConstants DEF Init
  <2>5. abandoned \subseteq Publication
    BY DEF Init
  <2> QED
    BY <2>1, <2>2, <2>3, <2>4, <2>5 DEF TypeOK
<1>2. TaskHoldings
  BY DEF Init, TaskHoldings
<1>3. ResolvedHasPdf
  BY DEF Init, ResolvedHasPdf
<1>4. InFlightAttended
  BY DEF Init, InFlightAttended, InFlight
<1> QED
  BY <1>1, <1>2, <1>3, <1>4 DEF PdfQueueInv

\* A decision only fills the rows of a free task, which attended nothing.
LEMMA DecideStep ==
    ASSUME NEW t \in Task, NEW candidates \in SUBSET Publication,
           NEW force \in BOOLEAN, PdfQueueInv, Decide(t, candidates, force)
    PROVE  PdfQueueInv'
<1>1. TypeOK'
  BY DEF PdfQueueInv, Decide, TypeOK, TaskPC
<1>2. TaskHoldings'
  BY DEF PdfQueueInv, Decide, TypeOK, TaskHoldings
<1>3. ResolvedHasPdf'
  BY DEF PdfQueueInv, Decide, ResolvedHasPdf
<1>4. InFlightAttended'
  BY DEF PdfQueueInv, Decide, TaskHoldings, InFlightAttended, Attends
<1> QED
  BY <1>1, <1>2, <1>3, <1>4 DEF PdfQueueInv

\* The rows that become queued are those the new task will serve.
LEMMA CommitQueuedStep ==
    ASSUME NEW t \in Task, PdfQueueInv, CommitQueued(t)
    PROVE  PdfQueueInv'
<1>1. TypeOK'
  BY DEF PdfQueueInv, CommitQueued, ScheduledRows, TypeOK, TaskPC, Status,
      InFlight
<1>2. TaskHoldings'
  BY DEF PdfQueueInv, CommitQueued, TaskHoldings
<1>3. ResolvedHasPdf'
  BY DEF PdfQueueInv, CommitQueued, ResolvedHasPdf
<1>4. InFlightAttended'
  BY DEF PdfQueueInv, CommitQueued, ScheduledRows, TypeOK, InFlightAttended,
      Attends
<1> QED
  BY <1>1, <1>2, <1>3, <1>4 DEF PdfQueueInv

\* A refused commit only drops rows that were not queued by it.
LEMMA CommitRefusedStep ==
    ASSUME NEW t \in Task, PdfQueueInv, CommitRefused(t)
    PROVE  PdfQueueInv'
<1>1. TypeOK'
  BY DEF PdfQueueInv, CommitRefused, TypeOK, TaskPC
<1>2. TaskHoldings'
  BY DEF PdfQueueInv, CommitRefused, TypeOK, TaskHoldings
<1>3. ResolvedHasPdf'
  BY DEF PdfQueueInv, CommitRefused, ResolvedHasPdf
<1>4. InFlightAttended'
  BY DEF PdfQueueInv, CommitRefused, InFlightAttended, Attends
<1> QED
  BY <1>1, <1>2, <1>3, <1>4 DEF PdfQueueInv

\* The task keeps the publication it takes from its rows.
LEMMA MarkAttemptStartedStep ==
    ASSUME NEW t \in Task, NEW p \in Publication, PdfQueueInv,
           MarkAttemptStarted(t, p)
    PROVE  PdfQueueInv'
<1>1. TypeOK'
  BY PdfQueueConstants DEF PdfQueueInv, MarkAttemptStarted, TypeOK, TaskPC,
      Status, InFlight, Never, Recent, Weeks
<1>2. TaskHoldings'
  BY PdfQueueConstants DEF PdfQueueInv, MarkAttemptStarted, TypeOK,
      TaskHoldings
<1>3. ResolvedHasPdf'
  BY DEF PdfQueueInv, MarkAttemptStarted, ResolvedHasPdf
<1>4. InFlightAttended'
  BY PdfQueueConstants DEF PdfQueueInv, MarkAttemptStarted, TypeOK,
      TaskHoldings, InFlightAttended, Attends
<1> QED
  BY <1>1, <1>2, <1>3, <1>4 DEF PdfQueueInv

\* The same when the attempt cannot be marked.
LEMMA MarkFailsStep ==
    ASSUME NEW t \in Task, NEW p \in Publication, PdfQueueInv,
           MarkFails(t, p)
    PROVE  PdfQueueInv'
<1>1. TypeOK'
  BY DEF PdfQueueInv, MarkFails, TypeOK, TaskPC
<1>2. TaskHoldings'
  BY PdfQueueConstants DEF PdfQueueInv, MarkFails, TypeOK, TaskHoldings
<1>3. ResolvedHasPdf'
  BY DEF PdfQueueInv, MarkFails, ResolvedHasPdf
<1>4. InFlightAttended'
  BY PdfQueueConstants DEF PdfQueueInv, MarkFails, TypeOK, TaskHoldings,
      InFlightAttended, Attends
<1> QED
  BY <1>1, <1>2, <1>3, <1>4 DEF PdfQueueInv

\* The publication the task lets go of is resolved, and has a PDF.
LEMMA PersistResolvedStep ==
    ASSUME NEW t \in Task, PdfQueueInv, PersistResolved(t)
    PROVE  PdfQueueInv'
<1>1. TypeOK'
  BY DEF PdfQueueInv, PersistResolved, Released, PdfStored, TypeOK, TaskPC,
      Status
<1>2. TaskHoldings'
  BY DEF PdfQueueInv, PersistResolved, Released, TypeOK, TaskHoldings
<1>3. ResolvedHasPdf'
  BY DEF PdfQueueInv, PersistResolved, PdfStored, TypeOK, ResolvedHasPdf
<1>4. InFlightAttended'
  BY DEF PdfQueueInv, PersistResolved, Released, TypeOK, InFlightAttended,
      Attends, InFlight
<1> QED
  BY <1>1, <1>2, <1>3, <1>4 DEF PdfQueueInv

\* The publication the task lets go of is failed.
LEMMA PersistFailedStep ==
    ASSUME NEW t \in Task, PdfQueueInv, PersistFailed(t)
    PROVE  PdfQueueInv'
<1>1. TypeOK'
  BY DEF PdfQueueInv, PersistFailed, Released, FailureStatus, TypeOK, TaskPC,
      Status
<1>2. TaskHoldings'
  BY DEF PdfQueueInv, PersistFailed, Released, TypeOK, TaskHoldings
<1>3. ResolvedHasPdf'
  BY DEF PdfQueueInv, PersistFailed, FailureStatus, ResolvedHasPdf
<1>4. InFlightAttended'
  BY DEF PdfQueueInv, PersistFailed, Released, FailureStatus, TypeOK,
      InFlightAttended, Attends, InFlight
<1> QED
  BY <1>1, <1>2, <1>3, <1>4 DEF PdfQueueInv

\* The task keeps its publication for the second write.
LEMMA PersistRaisesStep ==
    ASSUME NEW t \in Task, PdfQueueInv, PersistRaises(t)
    PROVE  PdfQueueInv'
<1>1. TypeOK'
  BY DEF PdfQueueInv, PersistRaises, TypeOK, TaskPC
<1>2. TaskHoldings'
  BY DEF PdfQueueInv, PersistRaises, TaskHoldings
<1>3. ResolvedHasPdf'
  BY DEF PdfQueueInv, PersistRaises, ResolvedHasPdf
<1>4. InFlightAttended'
  BY DEF PdfQueueInv, PersistRaises, InFlightAttended, Attends
<1> QED
  BY <1>1, <1>2, <1>3, <1>4 DEF PdfQueueInv

\* A lost write abandons the one publication the task lets go of.
LEMMA PersistLostStep ==
    ASSUME NEW t \in Task, PdfQueueInv, PersistLost(t)
    PROVE  PdfQueueInv'
<1>1. TypeOK'
  BY DEF PdfQueueInv, PersistLost, Released, TypeOK, TaskHoldings, TaskPC
<1>2. TaskHoldings'
  BY DEF PdfQueueInv, PersistLost, Released, TypeOK, TaskHoldings
<1>3. ResolvedHasPdf'
  BY DEF PdfQueueInv, PersistLost, ResolvedHasPdf
<1>4. InFlightAttended'
  BY DEF PdfQueueInv, PersistLost, Released, TypeOK, InFlightAttended,
      Attends
<1> QED
  BY <1>1, <1>2, <1>3, <1>4 DEF PdfQueueInv

\* An exhausted budget abandons the rows the task has left; the publication it
\* was resolving is failed.
LEMMA BudgetExhaustedStep ==
    ASSUME NEW t \in Task, PdfQueueInv, BudgetExhausted(t)
    PROVE  PdfQueueInv'
<1>1. TypeOK'
  BY DEF PdfQueueInv, BudgetExhausted, FailureStatus, TypeOK, TaskPC, Status
<1>2. TaskHoldings'
  BY DEF PdfQueueInv, BudgetExhausted, TypeOK, TaskHoldings
<1>3. ResolvedHasPdf'
  BY DEF PdfQueueInv, BudgetExhausted, FailureStatus, ResolvedHasPdf
<1>4. InFlightAttended'
  BY DEF PdfQueueInv, BudgetExhausted, FailureStatus, TypeOK,
      InFlightAttended, Attends, InFlight
<1> QED
  BY <1>1, <1>2, <1>3, <1>4 DEF PdfQueueInv

\* A task that ends attends nothing.
LEMMA TaskEndsStep ==
    ASSUME NEW t \in Task, PdfQueueInv, TaskEnds(t)
    PROVE  PdfQueueInv'
<1>1. TypeOK'
  BY DEF PdfQueueInv, TaskEnds, TypeOK, TaskPC
<1>2. TaskHoldings'
  BY DEF PdfQueueInv, TaskEnds, TaskHoldings
<1>3. ResolvedHasPdf'
  BY DEF PdfQueueInv, TaskEnds, ResolvedHasPdf
<1>4. InFlightAttended'
  BY DEF PdfQueueInv, TaskEnds, InFlightAttended, Attends
<1> QED
  BY <1>1, <1>2, <1>3, <1>4 DEF PdfQueueInv

\* Time does not touch rows and tasks.
LEMMA GrowsOlderStep ==
    ASSUME NEW p \in Publication, PdfQueueInv, GrowsOlder(p)
    PROVE  PdfQueueInv'
<1>1. TypeOK'
  BY DEF PdfQueueInv, GrowsOlder, TypeOK, Never, Days, Weeks
<1>2. TaskHoldings'
  BY DEF PdfQueueInv, GrowsOlder, TaskHoldings
<1>3. ResolvedHasPdf'
  BY DEF PdfQueueInv, GrowsOlder, ResolvedHasPdf
<1>4. InFlightAttended'
  BY DEF PdfQueueInv, GrowsOlder, InFlightAttended, Attends
<1> QED
  BY <1>1, <1>2, <1>3, <1>4 DEF PdfQueueInv

\* A restart abandons the rows in flight and puts no other row in flight.
LEMMA RestartStep ==
    ASSUME PdfQueueInv, Restart
    PROVE  PdfQueueInv'
<1>1. TypeOK'
  <2>1. status' \in [Publication -> Status \cup {"none"}]
    BY DEF PdfQueueInv, TypeOK, Restart, Status, InFlight
  <2>2. /\ pc' \in [Task -> TaskPC]
        /\ rows' \in [Task -> SUBSET Publication]
        /\ inserts' \in [Task -> SUBSET Publication]
        /\ current' \in [Task -> Publication \cup {NoPublication}]
        /\ budget' \in BOOLEAN
    BY DEF Restart, TaskPC
  <2>3. restarts' \in 0..RestartBound
    BY PdfQueueConstants DEF PdfQueueInv, TypeOK, Restart
  <2> QED
    BY <2>1, <2>2, <2>3 DEF PdfQueueInv, TypeOK, Restart
<1>2. TaskHoldings'
  BY DEF PdfQueueInv, Restart, TaskHoldings
<1>3. ResolvedHasPdf'
  BY DEF PdfQueueInv, Restart, ResolvedHasPdf
<1>4. InFlightAttended'
  BY DEF PdfQueueInv, Restart, TypeOK, InFlightAttended, InFlight
<1> QED
  BY <1>1, <1>2, <1>3, <1>4 DEF PdfQueueInv

\* Neither the end of the budget cooldown nor a stuttering step matters.
LEMMA IdleStep ==
    ASSUME PdfQueueInv, BudgetCooldownEnds \/ UNCHANGED vars
    PROVE  PdfQueueInv'
<1>1. TypeOK'
  BY DEF PdfQueueInv, BudgetCooldownEnds, vars, taskVars, TypeOK
<1>2. TaskHoldings'
  BY DEF PdfQueueInv, BudgetCooldownEnds, vars, taskVars, TaskHoldings
<1>3. ResolvedHasPdf'
  BY DEF PdfQueueInv, BudgetCooldownEnds, vars, taskVars, ResolvedHasPdf
<1>4. InFlightAttended'
  BY DEF PdfQueueInv, BudgetCooldownEnds, vars, taskVars, InFlightAttended,
      Attends
<1> QED
  BY <1>1, <1>2, <1>3, <1>4 DEF PdfQueueInv

\* Every step of Next, and a stuttering step, preserves PdfQueueInv.
LEMMA Inductive == PdfQueueInv /\ [Next]_vars => PdfQueueInv'
<1> SUFFICES ASSUME PdfQueueInv, [Next]_vars
            PROVE  PdfQueueInv'
  OBVIOUS
<1>1. ASSUME NEW t \in Task, Enqueue(t)
      PROVE  PdfQueueInv'
  <2>1. ASSUME NEW candidates \in SUBSET Publication, NEW force \in BOOLEAN,
               Decide(t, candidates, force)
        PROVE  PdfQueueInv'
    BY <2>1, DecideStep
  <2>2. ASSUME NEW listed \in SUBSET Publication, EnqueueMissing(t, listed)
        PROVE  PdfQueueInv'
    BY <2>1, <2>2 DEF EnqueueMissing
  <2>3. ASSUME NEW p \in Publication, EnqueueRetry(t, p)
        PROVE  PdfQueueInv'
    BY <2>1, <2>3 DEF EnqueueRetry
  <2>4. CASE EnqueueAllMissing(t) \/ DrainReadyJobs(t)
    BY <2>1, <2>4 DEF EnqueueAllMissing, DrainReadyJobs
  <2> QED
    BY <1>1, <2>2, <2>3, <2>4 DEF Enqueue
<1>2. ASSUME NEW t \in Task, TaskStep(t)
      PROVE  PdfQueueInv'
  <2>1. ASSUME NEW p \in Publication, MarkAttemptStarted(t, p) \/ MarkFails(t, p)
        PROVE  PdfQueueInv'
    BY <2>1, MarkAttemptStartedStep, MarkFailsStep
  <2>2. CASE \/ PersistResolved(t) \/ PersistFailed(t) \/ PersistRaises(t)
             \/ PersistLost(t)
    BY <2>2, PersistResolvedStep, PersistFailedStep, PersistRaisesStep,
       PersistLostStep
  <2>3. CASE \/ CommitQueued(t) \/ CommitRefused(t) \/ BudgetExhausted(t)
             \/ TaskEnds(t)
    BY <2>3, CommitQueuedStep, CommitRefusedStep, BudgetExhaustedStep,
       TaskEndsStep
  <2> QED
    BY <1>2, <2>1, <2>2, <2>3 DEF TaskStep
<1>3. ASSUME NEW p \in Publication, GrowsOlder(p)
      PROVE  PdfQueueInv'
  BY <1>3, GrowsOlderStep
<1>4. CASE Restart
  BY <1>4, RestartStep
<1>5. CASE BudgetCooldownEnds \/ UNCHANGED vars
  BY <1>5, IdleStep
<1> QED
  BY <1>1, <1>2, <1>3, <1>4, <1>5 DEF Next

\* Rows, tasks and PDFs agree in every reachable state of the queue.
THEOREM Invariance == Spec => []PdfQueueInv
<1> QED
  BY InitEstablishes, Inductive, PTL DEF Spec

\* Type correctness of the rows and tasks of the PDF queue.
THEOREM TypeCorrect == Spec => []TypeOK
<1>1. PdfQueueInv => TypeOK
  BY DEF PdfQueueInv
<1> QED
  BY <1>1, Invariance, PTL

\* A row that is resolved has a PDF, after every interleaving of tasks that
\* resolve the same publication, of retries and of restarts.
THEOREM ResolvedRowsHavePdf == Spec => []ResolvedHasPdf
<1>1. PdfQueueInv => ResolvedHasPdf
  BY DEF PdfQueueInv
<1> QED
  BY <1>1, Invariance, PTL

\* No queued or running row is left without the task that serves it, except
\* those that a restart, an exhausted budget or a lost write has abandoned.
THEOREM InFlightRowsAttended == Spec => []InFlightAttended
<1>1. PdfQueueInv => InFlightAttended
  BY DEF PdfQueueInv
<1> QED
  BY <1>1, Invariance, PTL
=============================================================================
