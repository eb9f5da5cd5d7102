-------------------------- MODULE RunLifecycleProofs --------------------------
(***************************************************************************)
(* IInv is an inductive invariant of RunLifecycle, for any set of users    *)
(* and runs and any bound.  One lemma per action shows that the action     *)
(* preserves it: first the parts that follow from the part itself, then    *)
(* those that lean on others, which the leaf names.                        *)
(***************************************************************************)
EXTENDS RunLifecycle, TLAPS

\* In the initial states there is no row, no lock and no task.
LEMMA InitEstablishes == Init => IInv
<1> SUFFICES ASSUME Init
            PROVE  IInv
  OBVIOUS
<1>1. TypeOK
  BY ConstantsAssumption DEF Init, TypeOK, PC
<1>2. OneActiveRun /\ UncommittedRunHoldsLock /\ CompletedRunHasEnd
  BY DEF Init, OneActiveRun, UncommittedRunHoldsLock, CompletedRunHasEnd,
      ACTIVE_RUN_STATUSES
<1>3. LockDiscipline
  BY ConstantsAssumption DEF Init, LockDiscipline
<1>4. RowMatchesTask /\ CopiesAreSound
  BY DEF Init, RowMatchesTask, CopiesAreSound
<1>5. ManualRunAttended
  BY DEF Init, ManualRunAttended, ACTIVE_RUN_STATUSES
<1> QED
  BY <1>1, <1>2, <1>3, <1>4, <1>5 DEF IInv

\* The lock of the user was free, so no uncommitted row of his exists; the id
\* had no row, so nothing is claimed of it under its old owner.
LEMMA StartStep ==
    ASSUME NEW r \in Run, NEW u \in User, NEW t \in {"manual", "scheduled"},
           IInv, Start(r, u, t)
    PROVE  IInv'
<1>1. (RowMatchesTask /\ CopiesAreSound /\ CompletedRunHasEnd)'
  BY DEF IInv, Start, RowMatchesTask, CopiesAreSound, CompletedRunHasEnd
<1>2. TypeOK'
  BY DEF IInv, Start, PC, TypeOK
<1>3. OneActiveRun'
  BY DEF IInv, Start, RowMatchesTask, ACTIVE_RUN_STATUSES, OneActiveRun
<1>4. UncommittedRunHoldsLock'
  BY ConstantsAssumption DEF IInv, Start, LockFree, RowMatchesTask,
      UncommittedRunHoldsLock
<1>5. LockDiscipline'
  BY ConstantsAssumption DEF IInv, Start, LockFree, TypeOK, RowMatchesTask,
      LockDiscipline
<1>6. ManualRunAttended'
  BY DEF IInv, Start, RowMatchesTask, ACTIVE_RUN_STATUSES, ManualRunAttended
<1> QED
  BY <1>1, <1>2, <1>3, <1>4, <1>5, <1>6 DEF IInv

\* The start that gives its lock up has not written a row yet.
LEMMA StartAbortedStep ==
    ASSUME NEW r \in Run, IInv, StartAborted(r)
    PROVE  IInv'
<1>1. (OneActiveRun /\ RowMatchesTask /\ CopiesAreSound /\
       CompletedRunHasEnd)'
  BY DEF IInv, StartAborted, OneActiveRun, RowMatchesTask, CopiesAreSound,
      CompletedRunHasEnd
<1>2. TypeOK'
  BY DEF IInv, StartAborted, Unlocked, PC, TypeOK
<1>3. UncommittedRunHoldsLock'
  BY DEF IInv, StartAborted, Unlocked, RowMatchesTask, UncommittedRunHoldsLock
<1>4. LockDiscipline'
  BY ConstantsAssumption DEF IInv, StartAborted, Unlocked, TypeOK,
      LockDiscipline
<1>5. ManualRunAttended'
  BY DEF IInv, StartAborted, RowMatchesTask, ACTIVE_RUN_STATUSES,
      ManualRunAttended
<1> QED
  BY <1>1, <1>2, <1>3, <1>4, <1>5 DEF IInv

\* The index keeps the new active row from meeting another one of the user;
\* the lock is the one LockDiscipline says a start holds.
LEMMA InsertRowStep ==
    ASSUME NEW r \in Run, IInv, InsertRow(r)
    PROVE  IInv'
<1>1. (OneActiveRun /\ LockDiscipline /\ CompletedRunHasEnd /\
       ManualRunAttended)'
  BY DEF IInv, InsertRow, IndexConflict, IndexWait, OneActiveRun,
      LockDiscipline, CompletedRunHasEnd, ManualRunAttended
<1>2. TypeOK'
  BY DEF IInv, InsertRow, PC, ACTIVE_RUN_STATUSES, RunStatus, TypeOK
<1>3. UncommittedRunHoldsLock'
  BY DEF IInv, InsertRow, LockDiscipline, UncommittedRunHoldsLock
<1>4. RowMatchesTask'
  BY DEF IInv, InsertRow, TypeOK, LockDiscipline, RowMatchesTask
<1>5. CopiesAreSound'
  BY DEF IInv, InsertRow, TypeOK, CopiesAreSound
<1> QED
  BY <1>1, <1>2, <1>3, <1>4, <1>5 DEF IInv

\* As StartAborted: no row was written.
LEMMA InsertRefusedStep ==
    ASSUME NEW r \in Run, IInv, InsertRefused(r)
    PROVE  IInv'
<1>1. (OneActiveRun /\ RowMatchesTask /\ CopiesAreSound /\
       CompletedRunHasEnd)'
  BY DEF IInv, InsertRefused, OneActiveRun, RowMatchesTask, CopiesAreSound,
      CompletedRunHasEnd
<1>2. TypeOK'
  BY DEF IInv, InsertRefused, Unlocked, PC, TypeOK
<1>3. UncommittedRunHoldsLock'
  BY DEF IInv, InsertRefused, Unlocked, RowMatchesTask,
      UncommittedRunHoldsLock
<1>4. LockDiscipline'
  BY ConstantsAssumption DEF IInv, InsertRefused, Unlocked, TypeOK,
      LockDiscipline
<1>5. ManualRunAttended'
  BY DEF IInv, InsertRefused, RowMatchesTask, ACTIVE_RUN_STATUSES,
      ManualRunAttended
<1> QED
  BY <1>1, <1>2, <1>3, <1>4, <1>5 DEF IInv

\* Lock and uncommitted row go together in one commit.
LEMMA CommitManualStep ==
    ASSUME NEW r \in Run, IInv, CommitManual(r)
    PROVE  IInv'
<1>1. (OneActiveRun /\ CopiesAreSound /\ CompletedRunHasEnd /\
       ManualRunAttended)'
  BY DEF IInv, CommitManual, OneActiveRun, CopiesAreSound, CompletedRunHasEnd,
      ManualRunAttended
<1>2. TypeOK'
  BY DEF IInv, CommitManual, Unlocked, PC, TypeOK
<1>3. UncommittedRunHoldsLock'
  BY DEF IInv, CommitManual, Unlocked, TypeOK, RowMatchesTask,
      UncommittedRunHoldsLock
<1>4. LockDiscipline'
  BY ConstantsAssumption DEF IInv, CommitManual, Unlocked, TypeOK,
      LockDiscipline
<1>5. RowMatchesTask'
  BY DEF IInv, CommitManual, TypeOK, RowMatchesTask
<1> QED
  BY <1>1, <1>2, <1>3, <1>4, <1>5 DEF IInv

\* The task's copy of the status becomes the row's status.
LEMMA PrepareExecuteStep ==
    ASSUME NEW r \in Run, IInv, PrepareExecute(r)
    PROVE  IInv'
<1>1. (OneActiveRun /\ UncommittedRunHoldsLock /\ LockDiscipline /\
       RowMatchesTask /\ CompletedRunHasEnd /\ ManualRunAttended)'
  BY DEF IInv, PrepareExecute, OneActiveRun, UncommittedRunHoldsLock,
      LockDiscipline, RowMatchesTask, CompletedRunHasEnd, ManualRunAttended
<1>2. TypeOK'
  BY DEF IInv, PrepareExecute, PC, TypeOK
<1>3. CopiesAreSound'
  BY DEF IInv, PrepareExecute, TypeOK, CopiesAreSound
<1> QED
  BY <1>1, <1>2, <1>3 DEF IInv

\* The same at a boundary, where a canceled run is sent to completion.
LEMMA BoundaryStep ==
    ASSUME NEW r \in Run, IInv, Boundary(r)
    PROVE  IInv'
<1>1. (OneActiveRun /\ UncommittedRunHoldsLock /\ LockDiscipline /\
       RowMatchesTask /\ CopiesAreSound /\ CompletedRunHasEnd /\
       ManualRunAttended)'
  BY DEF IInv, Boundary, OneActiveRun, UncommittedRunHoldsLock,
      LockDiscipline, RowMatchesTask, CopiesAreSound, CompletedRunHasEnd,
      ManualRunAttended
<1>2. TypeOK'
  BY ConstantsAssumption DEF IInv, Boundary, HasBoundary, PC, TypeOK
<1> QED
  BY <1>1, <1>2 DEF IInv

\* Storing a page publishes the row in the step that ends the lock.
LEMMA ScrapeStep ==
    ASSUME NEW r \in Run, NEW c \in BOOLEAN, IInv, Scrape(r, c)
    PROVE  IInv'
<1>1. (OneActiveRun /\ CompletedRunHasEnd /\ ManualRunAttended)'
  BY DEF IInv, Scrape, OneActiveRun, CompletedRunHasEnd, ManualRunAttended
<1>2. TypeOK'
  BY DEF IInv, Scrape, Unlocked, PC, TypeOK
<1>3. UncommittedRunHoldsLock'
  BY DEF IInv, Scrape, Unlocked, TypeOK, RowMatchesTask,
      UncommittedRunHoldsLock
<1>4. LockDiscipline'
  BY ConstantsAssumption DEF IInv, Scrape, Unlocked, LockDiscipline
<1>5. RowMatchesTask'
  BY DEF IInv, Scrape, TypeOK, RowMatchesTask
<1>6. CopiesAreSound'
  BY DEF IInv, Scrape, TypeOK, CopiesAreSound
<1> QED
  BY <1>1, <1>2, <1>3, <1>4, <1>5, <1>6 DEF IInv

\* Only the place of the task changes.
LEMMA IterationDoneStep ==
    ASSUME NEW r \in Run, IInv, IterationDone(r)
    PROVE  IInv'
<1>1. (OneActiveRun /\ UncommittedRunHoldsLock /\ LockDiscipline /\
       RowMatchesTask /\ CopiesAreSound /\ CompletedRunHasEnd /\
       ManualRunAttended)'
  BY DEF IInv, IterationDone, OneActiveRun, UncommittedRunHoldsLock,
      LockDiscipline, RowMatchesTask, CopiesAreSound, CompletedRunHasEnd,
      ManualRunAttended
<1>2. TypeOK'
  BY DEF IInv, IterationDone, PC, TypeOK
<1> QED
  BY <1>1, <1>2 DEF IInv

\* The row that loses its lock is the uncommitted one, which disappears.
LEMMA RollbackStep ==
    ASSUME NEW r \in Run, IInv,
           pc[r] \in {"spawned", "iterating", "scraping", "completing"},
           Rollback(r)
    PROVE  IInv'
<1>1. (CompletedRunHasEnd /\ ManualRunAttended)'
  BY DEF IInv, Rollback, RowAfterRollback, CompletedRunHasEnd,
      ManualRunAttended
<1>2. TypeOK'
  BY DEF IInv, Rollback, RowAfterRollback, Unlocked, PC, TypeOK
<1>3. OneActiveRun'
  BY DEF IInv, Rollback, RowAfterRollback, ACTIVE_RUN_STATUSES, OneActiveRun
<1>4. UncommittedRunHoldsLock'
  BY DEF IInv, Rollback, RowAfterRollback, Unlocked, TypeOK, RowMatchesTask,
      UncommittedRunHoldsLock
<1>5. LockDiscipline'
  BY ConstantsAssumption DEF IInv, Rollback, Unlocked, LockDiscipline
<1>6. RowMatchesTask'
  BY DEF IInv, Rollback, RowAfterRollback, TypeOK, RowMatchesTask
<1>7. CopiesAreSound'
  BY DEF IInv, Rollback, RowAfterRollback, RowMatchesTask, CopiesAreSound
<1> QED
  BY <1>1, <1>2, <1>3, <1>4, <1>5, <1>6, <1>7 DEF IInv

\* CopiesAreSound: a copy that says canceled is right, so no active status is
\* left without a task.
LEMMA CompleteCanceledStep ==
    ASSUME NEW r \in Run, IInv, CompleteCanceled(r)
    PROVE  IInv'
<1>1. (OneActiveRun /\ CopiesAreSound /\ CompletedRunHasEnd)'
  BY DEF IInv, CompleteCanceled, EndDt, OneActiveRun, CopiesAreSound,
      CompletedRunHasEnd
<1>2. TypeOK'
  BY DEF IInv, CompleteCanceled, EndDt, Unlocked, PC, TypeOK
<1>3. UncommittedRunHoldsLock'
  BY DEF IInv, CompleteCanceled, Unlocked, RowMatchesTask, CopiesAreSound,
      UncommittedRunHoldsLock
<1>4. LockDiscipline'
  BY ConstantsAssumption DEF IInv, CompleteCanceled, Unlocked, LockDiscipline
<1>5. RowMatchesTask'
  BY DEF IInv, CompleteCanceled, EndDt, CopiesAreSound, RowMatchesTask
<1>6. ManualRunAttended'
  BY DEF IInv, CompleteCanceled, CopiesAreSound, ACTIVE_RUN_STATUSES,
      ManualRunAttended
<1> QED
  BY <1>1, <1>2, <1>3, <1>4, <1>5, <1>6 DEF IInv

\* The index again keeps the active row unique; end_dt is written with it.
LEMMA CompleteResolvingStep ==
    ASSUME NEW r \in Run, NEW o \in Outcome, IInv, CompleteResolving(r, o)
    PROVE  IInv'
<1>1. (OneActiveRun /\ CopiesAreSound /\ ManualRunAttended)'
  BY DEF IInv, CompleteResolving, IndexConflict, IndexWait, OneActiveRun,
      CopiesAreSound, ManualRunAttended
<1>2. TypeOK'
  BY DEF IInv, CompleteResolving, EndDt, Unlocked, PC, ACTIVE_RUN_STATUSES,
      RunStatus, TypeOK
<1>3. UncommittedRunHoldsLock'
  BY DEF IInv, CompleteResolving, Unlocked, TypeOK, RowMatchesTask,
      UncommittedRunHoldsLock
<1>4. LockDiscipline'
  BY ConstantsAssumption DEF IInv, CompleteResolving, Unlocked, LockDiscipline
<1>5. RowMatchesTask'
  BY DEF IInv, CompleteResolving, EndDt, TypeOK, RowMatchesTask
<1>6. CompletedRunHasEnd'
  BY DEF IInv, CompleteResolving, EndDt, TypeOK, CompletedRunHasEnd
<1> QED
  BY <1>1, <1>2, <1>3, <1>4, <1>5, <1>6 DEF IInv

\* A failed run is not active and needs neither lock nor end time.
LEMMA FailRunStep ==
    ASSUME NEW r \in Run, IInv, FailRun(r)
    PROVE  IInv'
<1>1. (LockDiscipline /\ CopiesAreSound /\ CompletedRunHasEnd)'
  BY DEF IInv, FailRun, EndDt, LockDiscipline, CopiesAreSound,
      CompletedRunHasEnd
<1>2. TypeOK'
  BY DEF IInv, FailRun, EndDt, PC, RunStatus, Finished, TypeOK
<1>3. OneActiveRun'
  BY DEF IInv, FailRun, ACTIVE_RUN_STATUSES, OneActiveRun
<1>4. UncommittedRunHoldsLock'
  BY DEF IInv, FailRun, RowMatchesTask, UncommittedRunHoldsLock
<1>5. RowMatchesTask'
  BY DEF IInv, FailRun, EndDt, TypeOK, RowMatchesTask
<1>6. ManualRunAttended'
  BY DEF IInv, FailRun, TypeOK, ACTIVE_RUN_STATUSES, ManualRunAttended
<1> QED
  BY <1>1, <1>2, <1>3, <1>4, <1>5, <1>6 DEF IInv

\* Excluded by the premise of ManualRunAttended, harmless otherwise.
LEMMA FailRunLostStep ==
    ASSUME NEW r \in Run, IInv, FailRunLost(r)
    PROVE  IInv'
<1>1. (OneActiveRun /\ UncommittedRunHoldsLock /\ LockDiscipline /\
       RowMatchesTask /\ CopiesAreSound /\ CompletedRunHasEnd /\
       ManualRunAttended)'
  BY DEF IInv, FailRunLost, OneActiveRun, UncommittedRunHoldsLock,
      LockDiscipline, RowMatchesTask, CopiesAreSound, CompletedRunHasEnd,
      ManualRunAttended
<1>2. TypeOK'
  BY DEF IInv, FailRunLost, PC, TypeOK
<1> QED
  BY <1>1, <1>2 DEF IInv

\* The outcome is a finished status, and end_dt was written at completion.
LEMMA InlineFinalizeStep ==
    ASSUME NEW r \in Run, IInv, InlineFinalize(r)
    PROVE  IInv'
<1>1. (LockDiscipline /\ CopiesAreSound /\ ManualRunAttended)'
  BY DEF IInv, InlineFinalize, LockDiscipline, CopiesAreSound,
      ManualRunAttended
<1>2. TypeOK'
  BY ConstantsAssumption DEF IInv, InlineFinalize, PC, RunStatus, TypeOK
<1>3. OneActiveRun'
  BY ConstantsAssumption DEF IInv, InlineFinalize, RowMatchesTask,
      ACTIVE_RUN_STATUSES, Finished, OneActiveRun
<1>4. UncommittedRunHoldsLock'
  BY DEF IInv, InlineFinalize, RowMatchesTask, UncommittedRunHoldsLock
<1>5. RowMatchesTask'
  BY ConstantsAssumption DEF IInv, InlineFinalize, TypeOK, Finished,
      RowMatchesTask
<1>6. CompletedRunHasEnd'
  BY DEF IInv, InlineFinalize, RowMatchesTask, CompletedRunHasEnd
<1> QED
  BY <1>1, <1>2, <1>3, <1>4, <1>5, <1>6 DEF IInv

\* Only scheduled runs are stranded here, which ManualRunAttended excepts.
LEMMA InlineRaisesStep ==
    ASSUME NEW r \in Run, IInv, InlineRaises(r)
    PROVE  IInv'
<1>1. (OneActiveRun /\ UncommittedRunHoldsLock /\ LockDiscipline /\
       RowMatchesTask /\ CopiesAreSound /\ CompletedRunHasEnd /\
       ManualRunAttended)'
  BY DEF IInv, InlineRaises, OneActiveRun, UncommittedRunHoldsLock,
      LockDiscipline, RowMatchesTask, CopiesAreSound, CompletedRunHasEnd,
      ManualRunAttended
<1>2. TypeOK'
  BY DEF IInv, InlineRaises, PC, TypeOK
<1> QED
  BY <1>1, <1>2 DEF IInv

\* RowMatchesTask: what is read is RESOLVING or CANCELED.
LEMMA EnrichReadStep ==
    ASSUME NEW r \in Run, IInv, EnrichRead(r)
    PROVE  IInv'
<1>1. (OneActiveRun /\ UncommittedRunHoldsLock /\ CompletedRunHasEnd)'
  BY DEF IInv, EnrichRead, OneActiveRun, UncommittedRunHoldsLock,
      CompletedRunHasEnd
<1>2. TypeOK'
  BY DEF IInv, EnrichRead, PC, TypeOK
<1>3. LockDiscipline'
  BY DEF IInv, EnrichRead, TypeOK, LockDiscipline
<1>4. RowMatchesTask'
  BY DEF IInv, EnrichRead, TypeOK, RowMatchesTask
<1>5. CopiesAreSound'
  BY DEF IInv, EnrichRead, TypeOK, RowMatchesTask, CopiesAreSound
<1>6. ManualRunAttended'
  BY DEF IInv, EnrichRead, TypeOK, ManualRunAttended
<1> QED
  BY <1>1, <1>2, <1>3, <1>4, <1>5, <1>6 DEF IInv

\* The row the task leaves has the outcome, or is canceled by CopiesAreSound.
LEMMA EnrichWriteStep ==
    ASSUME NEW r \in Run, IInv, EnrichWrite(r)
    PROVE  IInv'
<1>1. (LockDiscipline /\ CopiesAreSound)'
  BY DEF IInv, EnrichWrite, LockDiscipline, CopiesAreSound
<1>2. TypeOK'
  BY ConstantsAssumption DEF IInv, EnrichWrite, PC, RunStatus, TypeOK
<1>3. OneActiveRun'
  BY ConstantsAssumption DEF IInv, EnrichWrite, RowMatchesTask,
      ACTIVE_RUN_STATUSES, Finished, OneActiveRun
<1>4. UncommittedRunHoldsLock'
  BY DEF IInv, EnrichWrite, RowMatchesTask, UncommittedRunHoldsLock
<1>5. RowMatchesTask'
  BY ConstantsAssumption DEF IInv, EnrichWrite, TypeOK, Finished,
      RowMatchesTask
<1>6. CompletedRunHasEnd'
  BY DEF IInv, EnrichWrite, RowMatchesTask, CompletedRunHasEnd
<1>7. ManualRunAttended'
  BY ConstantsAssumption DEF IInv, EnrichWrite, TypeOK, CopiesAreSound,
      ACTIVE_RUN_STATUSES, Finished, ManualRunAttended
<1> QED
  BY <1>1, <1>2, <1>3, <1>4, <1>5, <1>6, <1>7 DEF IInv

\* The fallback session takes the place of the failed one.
LEMMA EnrichRaisesStep ==
    ASSUME NEW r \in Run, IInv, EnrichRaises(r)
    PROVE  IInv'
<1>1. (OneActiveRun /\ UncommittedRunHoldsLock /\ LockDiscipline /\
       RowMatchesTask /\ CopiesAreSound /\ CompletedRunHasEnd /\
       ManualRunAttended)'
  BY DEF IInv, EnrichRaises, AfterEnrichError, OneActiveRun,
      UncommittedRunHoldsLock, LockDiscipline, RowMatchesTask, CopiesAreSound,
      CompletedRunHasEnd, ManualRunAttended
<1>2. TypeOK'
  BY DEF IInv, EnrichRaises, AfterEnrichError, PC, TypeOK
<1> QED
  BY <1>1, <1>2 DEF IInv

\* Excluded by the premise of ManualRunAttended, harmless otherwise.
LEMMA FallbackLostStep ==
    ASSUME NEW r \in Run, IInv, FallbackLost(r)
    PROVE  IInv'
<1>1. (OneActiveRun /\ UncommittedRunHoldsLock /\ LockDiscipline /\
       RowMatchesTask /\ CopiesAreSound /\ CompletedRunHasEnd /\
       ManualRunAttended)'
  BY DEF IInv, FallbackLost, OneActiveRun, UncommittedRunHoldsLock,
      LockDiscipline, RowMatchesTask, CopiesAreSound, CompletedRunHasEnd,
      ManualRunAttended
<1>2. TypeOK'
  BY DEF IInv, FallbackLost, PC, TypeOK
<1> QED
  BY <1>1, <1>2 DEF IInv

\* The run that is read is published.
LEMMA CancelRequestStep ==
    ASSUME NEW r \in Run, IInv, CancelRequest(r)
    PROVE  IInv'
<1>1. (OneActiveRun /\ UncommittedRunHoldsLock /\ LockDiscipline /\
       RowMatchesTask /\ CopiesAreSound /\ CompletedRunHasEnd /\
       ManualRunAttended)'
  BY DEF IInv, CancelRequest, OneActiveRun, UncommittedRunHoldsLock,
      LockDiscipline, RowMatchesTask, CopiesAreSound, CompletedRunHasEnd,
      ManualRunAttended
<1>2. TypeOK'
  BY DEF IInv, CancelRequest, TypeOK
<1> QED
  BY <1>1, <1>2 DEF IInv

\* A canceled run is not active; that its row is committed is known from
\* CopiesAreSound.
LEMMA CancelCommitStep ==
    ASSUME NEW r \in Run, IInv, CancelCommit(r)
    PROVE  IInv'
<1>1. (LockDiscipline /\ CopiesAreSound /\ CompletedRunHasEnd)'
  BY DEF IInv, CancelCommit, LockDiscipline, CopiesAreSound,
      CompletedRunHasEnd
<1>2. TypeOK'
  BY DEF IInv, CancelCommit, RunStatus, TypeOK
<1>3. OneActiveRun'
  BY DEF IInv, CancelCommit, ACTIVE_RUN_STATUSES, OneActiveRun
<1>4. UncommittedRunHoldsLock'
  BY DEF IInv, CancelCommit, CopiesAreSound, UncommittedRunHoldsLock
<1>5. RowMatchesTask'
  BY DEF IInv, CancelCommit, LockDiscipline, CopiesAreSound, RowMatchesTask
<1>6. ManualRunAttended'
  BY DEF IInv, CancelCommit, ACTIVE_RUN_STATUSES, ManualRunAttended
<1> QED
  BY <1>1, <1>2, <1>3, <1>4, <1>5, <1>6 DEF IInv

\* No task, lock or copy survives a restart; of the active rows that were
\* committed the start of the service makes failed ones, unless that is lost.
LEMMA RestartStep ==
    ASSUME NEW cleaned \in BOOLEAN, IInv, Restart(cleaned)
    PROVE  IInv'
<1>1. TypeOK'
  BY DEF IInv, Restart, Recovered, TypeOK, RunStatus, Finished, PC
<1>2. OneActiveRun'
  BY DEF IInv, Restart, Recovered, OneActiveRun, ACTIVE_RUN_STATUSES
<1>3. UncommittedRunHoldsLock'
  BY DEF IInv, Restart, UncommittedRunHoldsLock
<1>4. LockDiscipline'
  BY ConstantsAssumption DEF IInv, Restart, LockDiscipline, RowMatchesTask
<1>5. RowMatchesTask'
  BY DEF IInv, Restart, Recovered, RowMatchesTask
<1>6. CopiesAreSound'
  BY DEF IInv, Restart, CopiesAreSound
<1>7. CompletedRunHasEnd'
  BY DEF IInv, Restart, Recovered, CompletedRunHasEnd, ACTIVE_RUN_STATUSES
<1>8. ManualRunAttended'
  BY DEF IInv, Restart, Recovered, ManualRunAttended, ACTIVE_RUN_STATUSES
<1> QED
  BY <1>1, <1>2, <1>3, <1>4, <1>5, <1>6, <1>7, <1>8 DEF IInv

\* A stuttering step changes none of the variables of IInv.
LEMMA StutterStep ==
    ASSUME IInv, UNCHANGED vars
    PROVE  IInv'
<1>1. (TypeOK /\ OneActiveRun /\ UncommittedRunHoldsLock)'
  BY DEF IInv, vars, TypeOK, OneActiveRun, UncommittedRunHoldsLock
<1>2. (LockDiscipline /\ RowMatchesTask /\ CopiesAreSound)'
  BY DEF IInv, vars, LockDiscipline, RowMatchesTask, CopiesAreSound
<1>3. (CompletedRunHasEnd /\ ManualRunAttended)'
  BY DEF IInv, vars, CompletedRunHasEnd, ManualRunAttended
<1> QED
  BY <1>1, <1>2, <1>3 DEF IInv

\* Every step of Next, and a stuttering step, preserves IInv.
LEMMA Inductive == IInv /\ [Next]_vars => IInv'
<1> SUFFICES ASSUME IInv, [Next]_vars
            PROVE  IInv'
  OBVIOUS
<1>1. ASSUME NEW r \in Run, NEW u \in User, NEW t \in {"manual", "scheduled"},
             Start(r, u, t)
      PROVE  IInv'
  BY <1>1, StartStep
<1>2. ASSUME NEW r \in Run, TaskStep(r)
      PROVE  IInv'
  <2>1. ASSUME NEW c \in BOOLEAN, Scrape(r, c)
        PROVE  IInv'
    BY <2>1, ScrapeStep
  <2>2. ASSUME NEW o \in Outcome, CompleteResolving(r, o)
        PROVE  IInv'
    BY <2>2, CompleteResolvingStep
  <2>3. CASE CompleteRefused(r)
    BY <2>3, RollbackStep DEF CompleteRefused
  <2>4. CASE \/ InsertRow(r) \/ InsertRefused(r) \/ CommitManual(r)
             \/ PrepareExecute(r) \/ Boundary(r) \/ IterationDone(r)
    BY <2>4, InsertRowStep, InsertRefusedStep, CommitManualStep,
       PrepareExecuteStep, BoundaryStep, IterationDoneStep
  <2>5. CASE \/ CompleteCanceled(r) \/ FailRun(r) \/ InlineFinalize(r)
             \/ EnrichRead(r) \/ EnrichWrite(r)
    BY <2>5, CompleteCanceledStep, FailRunStep, InlineFinalizeStep,
       EnrichReadStep, EnrichWriteStep
  <2> QED
    BY <1>2, <2>1, <2>2, <2>3, <2>4, <2>5 DEF TaskStep
<1>3. ASSUME NEW r \in Run, FaultStep(r)
      PROVE  IInv'
  <2>1. CASE Raise(r)
    BY <2>1, RollbackStep DEF Raise
  <2>2. CASE \/ StartAborted(r) \/ FailRunLost(r) \/ InlineRaises(r)
             \/ EnrichRaises(r) \/ FallbackLost(r)
    BY <2>2, StartAbortedStep, FailRunLostStep, InlineRaisesStep,
       EnrichRaisesStep, FallbackLostStep
  <2> QED
    BY <1>3, <2>1, <2>2 DEF FaultStep
<1>4. ASSUME NEW r \in Run, CancelRequest(r) \/ CancelCommit(r)
      PROVE  IInv'
  BY <1>4, CancelRequestStep, CancelCommitStep
<1>5. ASSUME NEW cleaned \in BOOLEAN, Restart(cleaned)
      PROVE  IInv'
  BY <1>5, RestartStep
<1>6. CASE UNCHANGED vars
  BY <1>6, StutterStep
<1> QED
  BY <1>1, <1>2, <1>3, <1>4, <1>5, <1>6 DEF Next

\* Locks, rows, tasks and their copies agree in every reachable state,
\* whatever starts, scrapes, cancels, fails and restarts interleave.
THEOREM Invariance == Spec => []IInv
<1> QED
  BY InitEstablishes, Inductive, PTL DEF Spec

\* Type correctness of the variables of the run lifecycle.
THEOREM TypeCorrect == Spec => []TypeOK
<1>1. IInv => TypeOK
  BY DEF IInv
<1> QED
  BY <1>1, Invariance, PTL

\* No user ever has two runs that are running or resolving
\* (uq_crawl_runs_user_active with the advisory lock).
THEOREM AtMostOneActiveRun == Spec => []OneActiveRun
<1>1. IInv => OneActiveRun
  BY DEF IInv
<1> QED
  BY <1>1, Invariance, PTL

\* A run row that is not committed yet is always covered by its user's lock.
THEOREM StartsAreExclusive == Spec => []UncommittedRunHoldsLock
<1>1. IInv => UncommittedRunHoldsLock
  BY DEF IInv
<1> QED
  BY <1>1, Invariance, PTL

\* Of two tasks that scrape for one user, one has been canceled: their rows
\* are running or canceled by RowMatchesTask, and not both are running.
THEOREM AtMostOneLiveScraper == Spec => []OneLiveScraper
<1>1. IInv => OneLiveScraper
  BY DEF IInv, OneLiveScraper, OneActiveRun, RowMatchesTask, Scraping,
      ACTIVE_RUN_STATUSES
<1> QED
  BY <1>1, Invariance, PTL

\* A run that is resolving, succeeded or partially failed has an end time.
THEOREM CompletedRunsHaveEnd == Spec => []CompletedRunHasEnd
<1>1. IInv => CompletedRunHasEnd
  BY DEF IInv
<1> QED
  BY <1>1, Invariance, PTL

\* As long as the last-resort status writes succeed, an active manual run has
\* a task that will give it a final status.
THEOREM ManualRunsAttended == Spec => []ManualRunAttended
<1>1. IInv => ManualRunAttended
  BY DEF IInv
<1> QED
  BY <1>1, Invariance, PTL

\* The only step that touches the row of a finished run is the commit of a
\* cancel request: RowMatchesTask says that no task of such a run is at a
\* place where it writes a status.
LEMMA FinishedStep ==
    ASSUME IInv, [Next]_vars, NEW q \in Run, row[q] \in Finished
    PROVE  row'[q] \in {row[q], "canceled"}
<1> USE DEF IInv
<1>1. CASE UNCHANGED vars
  BY <1>1 DEF vars
<1>2. ASSUME NEW r \in Run, NEW u \in User, NEW t \in {"manual", "scheduled"},
             Start(r, u, t)
      PROVE  row' = row
  BY <1>2 DEF Start
<1>3. ASSUME NEW r \in Run, TaskStep(r)
      PROVE  row'[q] = row[q]
  <2>1. CASE \/ InsertRefused(r) \/ CommitManual(r) \/ PrepareExecute(r)
             \/ Boundary(r) \/ (\E c \in BOOLEAN : Scrape(r, c))
             \/ IterationDone(r) \/ CompleteCanceled(r) \/ EnrichRead(r)
    BY <2>1 DEF InsertRefused, CommitManual, PrepareExecute, Boundary, Scrape,
        IterationDone, CompleteCanceled, EnrichRead
  <2>2. CASE InsertRow(r)
    BY <2>2 DEF InsertRow, RowMatchesTask, TypeOK, Finished
  <2>3. CASE \E o \in Outcome : CompleteResolving(r, o)
    BY <2>3 DEF CompleteResolving, RowMatchesTask, TypeOK, Finished
  <2>4. CASE CompleteRefused(r)
    BY <2>4 DEF CompleteRefused, Rollback, RowAfterRollback, RowMatchesTask,
        TypeOK, Finished
  <2>5. CASE FailRun(r)
    BY <2>5 DEF FailRun, RowMatchesTask, TypeOK, Finished
  <2>6. CASE InlineFinalize(r) \/ EnrichWrite(r)
    BY <2>6 DEF InlineFinalize, EnrichWrite, RowMatchesTask, TypeOK, Finished
  <2> QED
    BY <1>3, <2>1, <2>2, <2>3, <2>4, <2>5, <2>6 DEF TaskStep
<1>4. ASSUME NEW r \in Run, FaultStep(r)
      PROVE  row'[q] = row[q]
  <2>1. CASE Raise(r)
    BY <2>1 DEF Raise, Rollback, RowAfterRollback, RowMatchesTask, TypeOK, Finished
  <2>2. CASE \/ StartAborted(r) \/ FailRunLost(r) \/ InlineRaises(r)
             \/ EnrichRaises(r) \/ FallbackLost(r)
    BY <2>2 DEF StartAborted, FailRunLost, InlineRaises, EnrichRaises, FallbackLost
  <2> QED
    BY <1>4, <2>1, <2>2 DEF FaultStep
<1>5. ASSUME NEW r \in Run, CancelRequest(r) \/ CancelCommit(r)
      PROVE  row'[q] \in {row[q], "canceled"}
  BY <1>5 DEF CancelRequest, CancelCommit, TypeOK
<1>6. ASSUME NEW cleaned \in BOOLEAN, Restart(cleaned)
      PROVE  row'[q] = row[q]
  BY <1>6 DEF Restart, Recovered, RowMatchesTask, UncommittedRunHoldsLock,
      ACTIVE_RUN_STATUSES, Finished
<1> QED
  BY <1>1, <1>2, <1>3, <1>4, <1>5, <1>6 DEF Next

\* A finished run keeps its status through late tasks, enrichment sessions
\* and restarts; a cancel request in flight alone may overwrite it.
THEOREM FinishedRunsStayFinished == Spec => FinishedIsFinal
<1>1. IInv /\ [Next]_vars
        => [\A r \in Run : row[r] \in Finished => row'[r] \in {row[r], "canceled"}]_row
  BY FinishedStep
<1> QED
  BY <1>1, Invariance, PTL DEF Spec, FinishedIsFinal

-----------------------------------------------------------------------------
(***************************************************************************)
(* RunLifecycle implements RunRecord: the initial states map to its        *)
(* initial state, and every step of the detailed specification maps to a   *)
(* step of the contract or to a stutter.  The inductive invariant IInv     *)
(* says what a row can be when a task is about to write it, and that a     *)
(* row nobody sees yet belongs to a session that still works on it.        *)
(***************************************************************************)

\* Only a committed row has an end time.
EndedIsPublished == \A r \in Run : ended[r] => published[r]

RInv == IInv /\ EndedIsPublished

Contract == Record!RecordNext \/ UNCHANGED Record!recordVars

\* A step that leaves the rows alone is invisible to the readers.
LEMMA InvisibleStep ==
    ASSUME UNCHANGED <<row, published, owner, ended>>
    PROVE  UNCHANGED Record!recordVars
BY DEF Record!recordVars

\* The end of a run is written by tasks whose row is committed, or with it.
LEMMA EndedStep ==
    ASSUME RInv, [Next]_vars
    PROVE  EndedIsPublished'
<1> USE DEF RInv, EndedIsPublished
<1>1. CASE UNCHANGED vars
  BY <1>1 DEF vars
<1>2. ASSUME NEW r \in Run, NEW u \in User, NEW t \in {"manual", "scheduled"},
             Start(r, u, t)
      PROVE  EndedIsPublished'
  BY <1>2 DEF Start
<1>3. ASSUME NEW r \in Run, TaskStep(r)
      PROVE  EndedIsPublished'
  <2>1. CASE \/ InsertRow(r) \/ InsertRefused(r) \/ PrepareExecute(r)
             \/ Boundary(r) \/ IterationDone(r) \/ EnrichRead(r)
             \/ InlineFinalize(r) \/ EnrichWrite(r)
    BY <2>1 DEF InsertRow, InsertRefused, PrepareExecute, Boundary,
        IterationDone, EnrichRead, InlineFinalize, EnrichWrite
  <2>2. CASE CommitManual(r) \/ \E c \in BOOLEAN : Scrape(r, c)
    BY <2>2 DEF CommitManual, Scrape, IInv, TypeOK
  <2>3. CASE CompleteCanceled(r) \/ \E o \in Outcome : CompleteResolving(r, o)
    BY <2>3 DEF CompleteCanceled, CompleteResolving, EndDt, IInv, TypeOK
  <2>4. CASE CompleteRefused(r)
    BY <2>4 DEF CompleteRefused, Rollback
  <2>5. CASE FailRun(r)
    BY <2>5 DEF FailRun, EndDt, IInv, TypeOK, RowMatchesTask
  <2> QED
    BY <1>3, <2>1, <2>2, <2>3, <2>4, <2>5 DEF TaskStep
<1>4. ASSUME NEW r \in Run, FaultStep(r)
      PROVE  EndedIsPublished'
  BY <1>4 DEF FaultStep, Raise, Rollback, StartAborted, FailRunLost,
      InlineRaises, EnrichRaises, FallbackLost
<1>5. ASSUME NEW r \in Run, CancelRequest(r) \/ CancelCommit(r)
      PROVE  EndedIsPublished'
  BY <1>5 DEF CancelRequest, CancelCommit
<1>6. ASSUME NEW cleaned \in BOOLEAN, Restart(cleaned)
      PROVE  EndedIsPublished'
  BY <1>6 DEF Restart
<1> QED
  BY <1>1, <1>2, <1>3, <1>4, <1>5, <1>6 DEF Next

\* A first commit is a step of the contract.
LEMMA PublishIsAllowed ==
    ASSUME NEW r \in Run, NEW u \in User, Record!Publish(r, u)
    PROVE  Contract
BY Zenon DEF Contract, Record!RecordNext

\* The first commit of a running row: by OneActiveRun the account has no
\* other active run, seen or unseen.
LEMMA PublishStep ==
    ASSUME RInv, NEW r \in Run, row[r] = "running", ~published[r],
           owner[r] \in User,
           published' = [published EXCEPT ![r] = TRUE],
           UNCHANGED <<row, owner, ended>>
    PROVE  Contract
<1>1. Record!Alone(r, owner[r])
  BY DEF RInv, IInv, OneActiveRun, TypeOK, ACTIVE_RUN_STATUSES, Record!Alone,
      Record!Active
<1>2. ~ended[r]
  BY DEF RInv, EndedIsPublished
<1>3. PICK u \in User : owner[r] = u
  OBVIOUS
<1>4. Record!Publish(r, u)
  BY <1>1, <1>2, <1>3 DEF Record!Publish, Record!Alone, RInv, IInv, TypeOK
<1> QED
  BY <1>4, PublishIsAllowed

\* The commit of RESOLVING passed the index, so the account has no other
\* active run that is committed; it may be the first commit of the row.
LEMMA ResolveStep ==
    ASSUME RInv, NEW r \in Run, NEW o \in Outcome, CompleteResolving(r, o)
    PROVE  Contract
<1>1. /\ row[r] \in {"running", "canceled"}
      /\ owner[r] \in User
      /\ ~published[r] => row[r] = "running" /\ ~ended[r]
  BY DEF RInv, IInv, RowMatchesTask, CompleteResolving, EndedIsPublished, TypeOK
<1>2. \A q \in Run \ {r} :
        owner[q] = owner[r] /\ published[q] => row[q] \notin ACTIVE_RUN_STATUSES
  BY DEF CompleteResolving, IndexConflict
<1>3. Record!Alone(r, owner[r])
  BY <1>2 DEF Record!Alone, Record!Active, ACTIVE_RUN_STATUSES, RInv, IInv, TypeOK
<1>4. CASE published[r]
  <2>1. Record!Resolve(r)
    BY <1>1, <1>3, <1>4 DEF Record!Resolve, CompleteResolving, EndDt, RInv, IInv, TypeOK
  <2> QED
    BY <2>1 DEF Contract, Record!RecordNext
<1>5. CASE ~published[r]
  <2>1. PICK u \in User : owner[r] = u
    BY <1>1
  <2>2. Record!Publish(r, u)
    BY <1>1, <1>3, <1>5, <2>1 DEF Record!Publish, Record!Alone, CompleteResolving,
        EndDt, RInv, IInv, TypeOK
  <2> QED
    BY <2>2, PublishIsAllowed
<1> QED
  BY <1>4, <1>5

\* The enrichment writes its outcome over RESOLVING, or over a cancel.
LEMMA SettleStep ==
    ASSUME RInv, NEW r \in Run, InlineFinalize(r) \/ EnrichWrite(r)
    PROVE  Contract
<1>1. /\ row[r] \in {"resolving", "canceled"}
      /\ published[r] /\ ended[r]
      /\ intended[r] \in Record!Final
  BY ConstantsAssumption DEF RInv, IInv, RowMatchesTask, InlineFinalize,
      EnrichWrite, Record!Final, Finished
<1>2. CASE mem[r] = "resolving"
  <2>1. row' = [row EXCEPT ![r] = intended[r]] /\ UNCHANGED <<published, owner, ended>>
    BY <1>2 DEF InlineFinalize, EnrichWrite
  <2>2. [q \in Run |-> IF published[q] THEN row[q] ELSE "none"]'
          = [[q \in Run |-> IF published[q] THEN row[q] ELSE "none"]
                EXCEPT ![r] = intended[r]]
    BY <1>1, <2>1 DEF RInv, IInv, TypeOK
  <2>3. Record!Settle(r)
    BY <1>1, <2>1, <2>2, Zenon DEF Record!Settle
  <2> QED
    BY <2>3 DEF Contract, Record!RecordNext
<1>3. CASE mem[r] # "resolving"
  BY <1>3, InvisibleStep DEF InlineFinalize, EnrichWrite, Contract
<1> QED
  BY <1>2, <1>3

\* A rollback removes a row nobody has seen.
LEMMA UnseenStep ==
    ASSUME RInv, NEW r \in Run, Rollback(r)
    PROVE  Contract
BY DEF Rollback, RowAfterRollback, Contract, Record!recordVars, RInv, IInv, TypeOK

\* The other steps of a task.
LEMMA TaskContract ==
    ASSUME RInv, NEW r \in Run, TaskStep(r)
    PROVE  Contract
<1>1. CASE InsertRow(r)
  BY <1>1 DEF InsertRow, Contract, Record!recordVars, RInv, IInv, TypeOK, RowMatchesTask
<1>2. CASE \/ InsertRefused(r) \/ PrepareExecute(r) \/ Boundary(r)
           \/ IterationDone(r) \/ EnrichRead(r)
  BY <1>2, InvisibleStep DEF InsertRefused, PrepareExecute, Boundary,
      IterationDone, EnrichRead, Contract
<1>3. CASE CommitManual(r)
  <2>1. row[r] = "running" /\ ~published[r] /\ owner[r] \in User
    BY <1>3 DEF CommitManual, RInv, IInv, RowMatchesTask, LockDiscipline
  <2> QED
    BY <1>3, <2>1, PublishStep DEF CommitManual
<1>4. ASSUME NEW c \in BOOLEAN, Scrape(r, c)
      PROVE  Contract
  <2>1. CASE published[r] \/ ~c
    <3>1. published' = published
      BY <1>4, <2>1 DEF Scrape, RInv, IInv, TypeOK
    <3> QED
      BY <1>4, <3>1, InvisibleStep DEF Scrape, Contract
  <2>2. CASE ~published[r] /\ c
    <3>1. row[r] = "running" /\ owner[r] \in User
      BY <1>4, <2>2 DEF Scrape, RInv, IInv, RowMatchesTask
    <3>2. published' = [published EXCEPT ![r] = TRUE]
      BY <1>4, <2>2 DEF Scrape, RInv, IInv, TypeOK
    <3> QED
      BY <1>4, <2>2, <3>1, <3>2, PublishStep DEF Scrape
  <2> QED
    BY <2>1, <2>2
<1>5. CASE CompleteCanceled(r)
  <2>1. row[r] = "canceled" /\ published[r]
    BY <1>5 DEF CompleteCanceled, RInv, IInv, CopiesAreSound, RowMatchesTask
  <2>2. Record!Leave(r)
    BY <1>5, <2>1 DEF CompleteCanceled, EndDt, Record!Leave, RInv, IInv, TypeOK
  <2> QED
    BY <2>2 DEF Contract, Record!RecordNext
<1>6. CASE \E o \in Outcome : CompleteResolving(r, o)
  BY <1>6, ResolveStep
<1>7. CASE CompleteRefused(r)
  BY <1>7, UnseenStep DEF CompleteRefused
<1>8. CASE FailRun(r)
  <2>1. row[r] \in {"running", "canceled"} /\ published[r]
    BY <1>8 DEF FailRun, RInv, IInv, RowMatchesTask
  <2>2. Record!Fail(r)
    BY <1>8, <2>1 DEF FailRun, EndDt, Record!Fail, RInv, IInv, TypeOK
  <2> QED
    BY <2>2 DEF Contract, Record!RecordNext
<1>9. CASE InlineFinalize(r) \/ EnrichWrite(r)
  BY <1>9, SettleStep
<1> QED
  BY <1>1, <1>2, <1>3, <1>4, <1>5, <1>6, <1>7, <1>8, <1>9 DEF TaskStep

\* A restart fails what the readers see as active, or leaves it.
LEMMA RestartContract ==
    ASSUME RInv, NEW cleaned \in BOOLEAN, Restart(cleaned)
    PROVE  Contract
<1>1. CASE cleaned
  <2>1. Record!Recover
    BY <1>1 DEF Restart, Recovered, Record!Recover, Record!Active,
        ACTIVE_RUN_STATUSES, RInv, IInv, TypeOK
  <2> QED
    BY <2>1 DEF Contract, Record!RecordNext
<1>2. CASE ~cleaned
  BY <1>2 DEF Restart, Contract, Record!recordVars, RInv, IInv, TypeOK
<1> QED
  BY <1>1, <1>2

\* Every step of the detailed specification keeps the contract.
LEMMA ContractStep ==
    ASSUME RInv, [Next]_vars
    PROVE  Contract
<1>1. CASE UNCHANGED vars
  BY <1>1, InvisibleStep DEF vars, Contract
<1>2. ASSUME NEW r \in Run, NEW u \in User, NEW t \in {"manual", "scheduled"},
             Start(r, u, t)
      PROVE  Contract
  BY <1>2 DEF Start, Contract, Record!recordVars, RInv, IInv, TypeOK, RowMatchesTask
<1>3. ASSUME NEW r \in Run, TaskStep(r)
      PROVE  Contract
  BY <1>3, TaskContract
<1>4. ASSUME NEW r \in Run, FaultStep(r)
      PROVE  Contract
  <2>1. CASE Raise(r)
    BY <2>1, UnseenStep DEF Raise
  <2>2. CASE \/ StartAborted(r) \/ FailRunLost(r) \/ InlineRaises(r)
             \/ EnrichRaises(r) \/ FallbackLost(r)
    BY <2>2, InvisibleStep DEF StartAborted, FailRunLost, InlineRaises,
        EnrichRaises, FallbackLost, Contract
  <2> QED
    BY <1>4, <2>1, <2>2 DEF FaultStep
<1>5. ASSUME NEW r \in Run, CancelRequest(r)
      PROVE  Contract
  BY <1>5, InvisibleStep DEF CancelRequest, Contract
<1>6. ASSUME NEW r \in Run, CancelCommit(r)
      PROVE  Contract
  <2>1. published[r] /\ row[r] # "none"
    BY <1>6 DEF CancelCommit, RInv, IInv, CopiesAreSound, RowMatchesTask
  <2>2. Record!Cancel(r)
    BY <1>6, <2>1 DEF CancelCommit, Record!Cancel, RInv, IInv, TypeOK
  <2> QED
    BY <2>2 DEF Contract, Record!RecordNext
<1>7. ASSUME NEW cleaned \in BOOLEAN, Restart(cleaned)
      PROVE  Contract
  BY <1>7, RestartContract
<1> QED
  BY <1>1, <1>2, <1>3, <1>4, <1>5, <1>6, <1>7 DEF Next

\* The committed table keeps its contract, for any accounts and runs, through
\* starts, cancels, failing tasks, lost writes and restarts: RunLifecycle
\* implements RunRecord.
THEOREM LifecycleImplementsRecord == Spec => KeepsRecord
<1>1. Init => EndedIsPublished /\ Record!RecordInit
  BY DEF Init, EndedIsPublished, Record!RecordInit
<1>2. IInv /\ EndedIsPublished /\ [Next]_vars => EndedIsPublished'
  BY EndedStep DEF RInv
<1>3. IInv /\ EndedIsPublished /\ [Next]_vars => [Record!RecordNext]_(Record!recordVars)
  BY ContractStep DEF RInv, Contract
<1> QED
  BY <1>1, <1>2, <1>3, Invariance, PTL DEF Spec, KeepsRecord, Record!RecordSpec
=============================================================================
