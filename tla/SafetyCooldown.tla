--------------------------- MODULE SafetyCooldown ---------------------------
(***************************************************************************)
(* The scrape cooldown of one user (user_settings.scrape_cooldown_until    *)
(* and scrape_cooldown_reason): the gate every run start passes, the       *)
(* preflight that enters a cooldown, the completion of a run that enters   *)
(* one or clears an expired one, and the endpoints that clear it.          *)
(*                                                                         *)
(* A session loads the settings once and keeps them: execute_run from its  *)
(* first statement to the commit of the completion, which may be hours.    *)
(* What it writes is decided on that copy, and the UPDATE names only the   *)
(* columns in which the session changed its copy.                          *)
(***************************************************************************)
EXTENDS Naturals, FiniteSets

CONSTANTS
    Session,        \* slots for requests and tasks, reused
    NoSession,      \* the advisory lock is free
    BlockedTime,    \* INGESTION_SAFETY_COOLDOWN_BLOCKED_SECONDS, in ticks
    NetworkTime     \* INGESTION_SAFETY_COOLDOWN_NETWORK_SECONDS, in ticks

ASSUME SafetyConstants ==
    /\ NoSession \notin Session
    /\ BlockedTime \in Nat \ {0}
    /\ NetworkTime \in Nat \ {0}

VARIABLES
    cooldown,   \* the committed columns
    seen,       \* the copy of each session
    pc,         \* where the session is
    scheduled,  \* it was started by the scheduler
    lock,       \* holder of the user's advisory lock
    active      \* sessions whose run row is RUNNING or RESOLVING

vars == <<cooldown, seen, pc, scheduled, lock, active>>

\* scrape_cooldown_until as the time left: NULL, passed, or ticks to go.
Null == 0
Passed == 1
Longest == Passed + (IF BlockedTime > NetworkTime THEN BlockedTime ELSE NetworkTime)

Reason == {"blocked", "network"}
Cooldown == [until: Null..Longest, reason: Reason \cup {"none"}]
NoCooldown == [until |-> Null, reason |-> "none"]

SessionPC == {"idle", "clearing", "gated", "preflight", "spawned", "running",
              "resolving"}

TypeOK ==
    /\ cooldown \in Cooldown
    /\ seen \in [Session -> Cooldown]
    /\ pc \in [Session -> SessionPC]
    /\ scheduled \in [Session -> BOOLEAN]
    /\ lock \in Session \cup {NoSession}
    /\ active \subseteq Session

Init ==
    /\ cooldown = NoCooldown
    /\ seen = [s \in Session |-> NoCooldown]
    /\ pc = [s \in Session |-> "idle"]
    /\ scheduled = [s \in Session |-> FALSE]
    /\ lock = NoSession
    /\ active = {}

-----------------------------------------------------------------------------
(* What a session writes                                                   *)

\* is_cooldown_active
InForce(c) == c.until > Passed

\* clear_expired_cooldown has something to clear.
Expired(c) == c.until = Passed

Duration(reason) == IF reason = "blocked" THEN BlockedTime ELSE NetworkTime

\* The row after session s has set both columns to NULL in its copy.
ClearedBy(s) ==
    [until |-> Null,
     reason |-> IF seen[s].reason = "none" THEN cooldown.reason ELSE "none"]

\* The row after _apply_cooldown_decision in session s: the new time differs
\* from any earlier one, the reason may be the one the copy has already.
EnteredBy(s, reason) ==
    [until |-> Passed + Duration(reason),
     reason |-> IF seen[s].reason = reason THEN cooldown.reason ELSE reason]

Released(s) == IF lock = s THEN NoSession ELSE lock

Moves(s, place) == pc' = [pc EXCEPT ![s] = place]

\* The session is closed and its copy forgotten.
Closes(s) ==
    /\ Moves(s, "idle")
    /\ seen' = [seen EXCEPT ![s] = NoCooldown]
    /\ scheduled' = [scheduled EXCEPT ![s] = FALSE]
    /\ lock' = Released(s)

-----------------------------------------------------------------------------
(* Starting a run                                                          *)

GatePasses_Always == TRUE   \* seeded fault: the gate is not enforced

\* enforce_safety_gate: no cooldown is in force.
GatePasses == ~InForce(cooldown)

\* load_user_settings_for_run and the gate. A start in a cooldown is refused
\* and changes nothing but a counter. An expired cooldown is cleared first.
Gate(s, byScheduler) ==
    /\ pc[s] = "idle"
    /\ GatePasses
    /\ Moves(s, IF Expired(cooldown) THEN "clearing" ELSE "gated")
    /\ seen' = [seen EXCEPT ![s] = cooldown]
    /\ scheduled' = [scheduled EXCEPT ![s] = byScheduler]
    /\ UNCHANGED <<cooldown, lock, active>>

\* The clearing is committed and the settings are read again; the endpoints
\* that report the safety state do as much and stop here.
Clear(s) ==
    /\ pc[s] = "clearing"
    /\ cooldown' = ClearedBy(s)
    /\ Closes(s)
    /\ UNCHANGED active

\* _try_acquire_user_lock
Lock(s) ==
    /\ pc[s] = "gated"
    /\ lock = NoSession
    /\ lock' = s
    /\ Moves(s, "preflight")
    /\ UNCHANGED <<cooldown, seen, scheduled, active>>

\* The lock is taken: RunAlreadyInProgressError.
LockRefused(s) ==
    /\ pc[s] = "gated"
    /\ lock # NoSession
    /\ Closes(s)
    /\ UNCHANGED <<cooldown, active>>

\* run_preflight_guard finds Scholar blocked and commits a cooldown.
PreflightBlocked(s) ==
    /\ pc[s] = "preflight"
    /\ cooldown' = EnteredBy(s, "blocked")
    /\ Closes(s)
    /\ UNCHANGED active

\* The preflight passes but the user has an active run.
StartRefused(s) ==
    /\ pc[s] = "preflight"
    /\ active # {}
    /\ Closes(s)
    /\ UNCHANGED <<cooldown, active>>

\* The run row is written. A manual run is committed and handed to a task, a
\* scheduled run goes on in this session, with the lock.
StartRun(s) ==
    /\ pc[s] = "preflight"
    /\ active = {}
    /\ active' = {s}
    /\ IF scheduled[s]
       THEN Moves(s, "running") /\ UNCHANGED <<seen, lock>>
       ELSE /\ Moves(s, "spawned")
            /\ seen' = [seen EXCEPT ![s] = NoCooldown]
            /\ lock' = Released(s)
    /\ UNCHANGED <<cooldown, scheduled>>

-----------------------------------------------------------------------------
(* The run                                                                 *)

\* _prepare_execute_run, once a background session is free.
Prepare(s) ==
    /\ pc[s] = "spawned"
    /\ seen' = [seen EXCEPT ![s] = cooldown]
    /\ Moves(s, "running")
    /\ UNCHANGED <<cooldown, scheduled, lock, active>>

\* Storing a page commits, which ends the lock.
StorePage(s) ==
    /\ pc[s] = "running"
    /\ lock = s
    /\ lock' = NoSession
    /\ UNCHANGED <<cooldown, seen, pc, scheduled, active>>

\* apply_run_safety_outcome: enough failures of one kind, or none.
AfterRun(s, reason) ==
    IF reason \in Reason THEN EnteredBy(s, reason)
    ELSE IF Expired(seen[s]) THEN ClearedBy(s)
    ELSE cooldown

\* The completion commits counters, cooldown and status together. A run that
\* was canceled ends here; unless its task has not noticed, then it becomes
\* RESOLVING again, which the index allows if there is no other active run.
Complete(s, reason) ==
    /\ pc[s] = "running"
    /\ cooldown' = AfterRun(s, reason)
    /\ \/ /\ s \in active \/ active = {}
          /\ active' = {s}
          /\ Moves(s, "resolving")
          /\ seen' = [seen EXCEPT ![s] = NoCooldown]
          /\ lock' = Released(s)
          /\ UNCHANGED scheduled
       \/ /\ s \notin active
          /\ Closes(s)
          /\ UNCHANGED active

\* The run raises or its completion is refused by the index: its session is
\* rolled back, the safety outcome with it.
Raise(s) ==
    /\ pc[s] \in {"spawned", "running"}
    /\ Closes(s)
    /\ active' = active \ {s}
    /\ UNCHANGED cooldown

\* The enrichment gives the run its final status.
Settle(s) ==
    /\ pc[s] = "resolving"
    /\ Closes(s)
    /\ active' = active \ {s}
    /\ UNCHANGED cooldown

\* cancel_run, for a run that is committed.
Cancel(s) ==
    /\ s \in active
    /\ lock # s
    /\ active' = active \ {s}
    /\ UNCHANGED <<cooldown, seen, pc, scheduled, lock>>

-----------------------------------------------------------------------------
(* Time and restarts                                                       *)

OneTickLess(c) == [c EXCEPT !.until = IF @ > Passed THEN @ - 1 ELSE @]

Tick ==
    /\ cooldown' = OneTickLess(cooldown)
    /\ seen' = [s \in Session |-> OneTickLess(seen[s])]
    /\ UNCHANGED <<pc, scheduled, lock, active>>

\* The process dies; lifespan fails the active runs.
Restart ==
    /\ seen' = [s \in Session |-> NoCooldown]
    /\ pc' = [s \in Session |-> "idle"]
    /\ scheduled' = [s \in Session |-> FALSE]
    /\ lock' = NoSession
    /\ active' = {}
    /\ UNCHANGED cooldown

-----------------------------------------------------------------------------
SessionStep(s) ==
    \/ \E byScheduler \in BOOLEAN : Gate(s, byScheduler)
    \/ Clear(s) \/ Lock(s) \/ LockRefused(s)
    \/ PreflightBlocked(s) \/ StartRefused(s) \/ StartRun(s)
    \/ Prepare(s) \/ StorePage(s)
    \/ \E reason \in Reason \cup {"none"} : Complete(s, reason)
    \/ Raise(s) \/ Settle(s) \/ Cancel(s)

Next == (\E s \in Session : SessionStep(s)) \/ Tick \/ Restart

Spec == Init /\ [][Next]_vars

\* Time passes. Nothing is asked of the sessions: runs may take for ever.
FairSpec == Spec /\ WF_vars(Tick)
-----------------------------------------------------------------------------
(* Properties                                                              *)

\* A cooldown comes to an end: the runs in progress and the starts that have
\* passed the gate may renew it, but the gate lets no others through that
\* would, so that the user is not locked out for good.
CooldownEnds == []<>~InForce(cooldown)
=============================================================================
