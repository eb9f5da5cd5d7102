------------------------------ MODULE ManualStart ------------------------------
(***************************************************************************)
(* POST /runs/manual for one account: the look-up of the idempotency key,  *)
(* the safety gate, the advisory lock, the INSERT with its two unique      *)
(* indexes, and the recovery of a refused INSERT.  Requests interleave     *)
(* with each other, with scheduled runs, with the end of runs and with a   *)
(* restart; a client that got no answer sends the same key again.          *)
(***************************************************************************)
EXTENDS Naturals, FiniteSets

CONSTANTS
    Request,    \* requests the clients send
    Key,        \* values of the Idempotency-Key header
    NoKey,      \* the header is missing
    Attempt,    \* ids of crawl_runs
    NoHolder    \* the advisory lock is free

ASSUME StartAssumption ==
    /\ NoKey \notin Key
    /\ NoHolder \notin Request \cup {"scheduler"}
    /\ "scheduler" \notin Request

VARIABLES
    runs,       \* committed rows of crawl_runs: active, key
    cooling,    \* the account is in a safety cooldown
    starting,   \* holder of the account's advisory lock
    req         \* request: place, key, run of the key when sent, answer

startVars == <<runs, cooling, starting, req>>

Answers == {"started", "reused", "in_progress", "busy", "blocked", "failed"}
StartPlaces == {"unsent", "sent", "looked", "gated", "locked", "inserted",
                "refused", "answered", "dead"}
NoAnswer == [kind |-> "none", run |-> 0]
Unsent == [place |-> "unsent", key |-> NoKey, known |-> 0, answer |-> NoAnswer]

StartTypeOK ==
    /\ DOMAIN runs \subseteq Attempt
    /\ \A r \in DOMAIN runs :
        runs[r].active \in BOOLEAN /\ runs[r].key \in Key \cup {NoKey}
    /\ cooling \in BOOLEAN
    /\ starting \in Request \cup {NoHolder, "scheduler"}
    /\ \A q \in Request :
        /\ req[q].place \in StartPlaces
        /\ req[q].key \in Key \cup {NoKey}
        /\ req[q].answer.kind \in Answers \cup {"none"}
        /\ req[q].place = "answered" <=> req[q].answer.kind # "none"
    /\ starting \in Request => req[starting].place \in {"locked", "inserted"}

StartInit ==
    /\ runs = <<>>
    /\ cooling = FALSE
    /\ starting = NoHolder
    /\ req = [q \in Request |-> Unsent]

-----------------------------------------------------------------------------
WithKey_Finished(k) == {r \in DOMAIN runs : runs[r].key = k /\ ~runs[r].active} \* seeded fault

\* get_manual_run_by_idempotency_key
WithKey(k) == {r \in DOMAIN runs : k # NoKey /\ runs[r].key = k}

Active == {r \in DOMAIN runs : runs[r].active}

Goes(q, place) == req' = [req EXCEPT ![q].place = place]

Replied(q, kind, r) ==
    req' = [req EXCEPT ![q].place = "answered", ![q].answer = [kind |-> kind, run |-> r]]

LockFreed_Kept(q) == starting   \* seeded fault: a lock of the session, not of the transaction

\* The transaction of q ends and with it the advisory lock.
LockFreed(q) == IF starting = q THEN NoHolder ELSE starting

\* A client sends a request, or sends one again under the same key.
SendRequest(q, k) ==
    /\ req[q].place = "unsent"
    /\ req' = [req EXCEPT ![q].place = "sent", ![q].key = k,
                          ![q].known = IF WithKey(k) = {} THEN 0
                                       ELSE CHOOSE r \in WithKey(k) : TRUE]
    /\ UNCHANGED <<runs, cooling, starting>>

\* The answer for a run that has the key already.
AnswerKnown(q, r) == Replied(q, IF runs[r].active THEN "in_progress" ELSE "reused", r)

\* reused_manual_run_payload, after the policy check and load_safety_state.
LookUpKey(q) ==
    /\ req[q].place = "sent"
    /\ \/ WithKey(req[q].key) = {} /\ Goes(q, "looked")
       \/ \E r \in WithKey(req[q].key) : AnswerKnown(q, r)
    /\ UNCHANGED <<runs, cooling, starting>>

\* load_user_settings_for_run: the safety gate.
PassGate(q) ==
    /\ req[q].place = "looked"
    /\ IF cooling THEN Replied(q, "blocked", 0) ELSE Goes(q, "gated")
    /\ UNCHANGED <<runs, cooling, starting>>

\* _try_acquire_user_lock does not wait.
TryLock(q) ==
    /\ req[q].place = "gated"
    /\ IF starting = NoHolder
       THEN Goes(q, "locked") /\ starting' = q
       ELSE Replied(q, "busy", 0) /\ UNCHANGED starting
    /\ UNCHANGED <<runs, cooling>>

\* run_preflight_guard commits a cooldown and raises.
PreflightBlocks(q) ==
    /\ req[q].place = "locked"
    /\ cooling' = TRUE
    /\ starting' = LockFreed(q)
    /\ Replied(q, "blocked", 0)
    /\ UNCHANGED runs

KeyTakenBy_Nobody(k) == {}  \* seeded fault: no unique index on the key

\* uq_crawl_runs_user_manual_idempotency_key
KeyTakenBy(k) == WithKey(k)

\* _start_run_record: the flush of the INSERT.  An active run is busy; a taken
\* key is an IntegrityError for run_manual; with both either may be reported.
InsertRun(q) ==
    /\ req[q].place = "locked"
    /\ \/ /\ Active = {} /\ KeyTakenBy(req[q].key) = {}
          /\ Goes(q, "inserted")
          /\ UNCHANGED starting
       \/ /\ Active # {}
          /\ Replied(q, "busy", 0)
          /\ starting' = LockFreed(q)
       \/ /\ KeyTakenBy(req[q].key) # {}
          /\ Goes(q, "refused")
          /\ starting' = LockFreed(q)
    /\ UNCHANGED <<runs, cooling>>

Extended(r, k) == [x \in DOMAIN runs \cup {r} |->
                      IF x = r THEN [active |-> TRUE, key |-> k] ELSE runs[x]]

\* run_manual commits and spawns the task; what follows can still raise, and
\* the run goes on behind an answer that says it failed.
CommitRun(q, r) ==
    /\ req[q].place = "inserted"
    /\ r \in Attempt \ DOMAIN runs
    /\ runs' = Extended(r, req[q].key)
    /\ starting' = LockFreed(q)
    /\ \/ Replied(q, "started", r)
       \/ Replied(q, "failed", 0)
    /\ UNCHANGED cooling

\* recover_integrity_error, in a new transaction.
RecoverKey(q) ==
    /\ req[q].place = "refused"
    /\ \/ WithKey(req[q].key) = {} /\ Replied(q, "failed", 0)
       \/ \E r \in WithKey(req[q].key) : AnswerKnown(q, r)
    /\ UNCHANGED <<runs, cooling, starting>>

\* Any other exception: rolled back, raise_manual_failed.
StartFails(q) ==
    /\ req[q].place \in StartPlaces \ {"unsent", "answered", "dead"}
    /\ starting' = LockFreed(q)
    /\ Replied(q, "failed", 0)
    /\ UNCHANGED <<runs, cooling>>

-----------------------------------------------------------------------------
\* A scheduled run takes the same lock, and publishes its row some time later.
SchedulerLocks ==
    /\ starting = NoHolder
    /\ ~cooling
    /\ starting' = "scheduler"
    /\ UNCHANGED <<runs, cooling, req>>

SchedulerReleases(r) ==
    /\ starting = "scheduler"
    /\ starting' = NoHolder
    /\ \/ UNCHANGED runs
       \/ Active = {} /\ r \in Attempt \ DOMAIN runs /\ runs' = Extended(r, NoKey)
    /\ UNCHANGED <<cooling, req>>

\* A run ends, and may put the account into a cooldown.
RunEnds(r, trips) ==
    /\ r \in Active
    /\ runs' = [runs EXCEPT ![r].active = FALSE]
    /\ cooling' = (cooling \/ trips)
    /\ UNCHANGED <<starting, req>>

\* load_safety_state, or a settings request, clears an expired cooldown.
CooldownOver ==
    /\ cooling
    /\ cooling' = FALSE
    /\ UNCHANGED <<runs, starting, req>>

\* The service restarts: requests and locks are gone, active runs have failed.
RestartService ==
    /\ runs' = [r \in DOMAIN runs |-> [runs[r] EXCEPT !.active = FALSE]]
    /\ starting' = NoHolder
    /\ req' = [q \in Request |-> IF req[q].place \in {"unsent", "answered"} THEN req[q]
                                 ELSE [req[q] EXCEPT !.place = "dead"]]
    /\ UNCHANGED cooling

StartNext ==
    \/ \E q \in Request :
        \/ \E k \in Key \cup {NoKey} : SendRequest(q, k)
        \/ LookUpKey(q) \/ PassGate(q) \/ TryLock(q) \/ PreflightBlocks(q)
        \/ InsertRun(q) \/ (\E r \in Attempt : CommitRun(q, r))
        \/ RecoverKey(q) \/ StartFails(q)
    \/ SchedulerLocks
    \/ \E r \in Attempt :
        \/ SchedulerReleases(r)
        \/ \E trips \in BOOLEAN : RunEnds(r, trips)
    \/ CooldownOver
    \/ RestartService

StartSpec == StartInit /\ [][StartNext]_startVars

-----------------------------------------------------------------------------
\* An idempotency key starts one run: also when the look-up of a request is
\* overtaken by another request that starts a run and by the end of that run.
OneRunPerKey ==
    \A q, r \in DOMAIN runs : runs[q].key = runs[r].key /\ runs[q].key # NoKey => q = r

\* A request that is sent after a run of its key was committed is told about
\* that run, whatever happens to the run and to the account in between: a
\* cooldown the run has tripped, a scheduled run or another start never
\* refuses it.
RetryNamesItsRun ==
    \A q \in Request :
        req[q].known # 0 /\ req[q].place = "answered" =>
            \/ req[q].answer.run = req[q].known /\ req[q].answer.kind \in {"reused", "in_progress"}
            \/ req[q].answer.kind = "failed"
=============================================================================
