-------------------------------- MODULE MCLive --------------------------------
(* Small instances of the parts around a run, for TLC: its passes and its    *)
(* enrichment, the start of a manual run, the live events, the gated         *)
(* sessions, and the cooldown of the user's runs.  They share no state, so   *)
(* that a behaviour exercises one of them, chosen in its initial state, while*)
(* the others rest.                                                          *)
EXTENDS RunPasses, EnrichmentPass, ManualStart, RunEvents, BackgroundSessions,
        SafetyCooldown

CONSTANTS q1, q2, k1, k2, s1, s2, r1, t1, t2, t3, p1, p2, p3

VARIABLE part

allVars == <<passVars, enrichVars, startVars, eventVars, sessionVars, vars, part>>

MCAttempt == 1..3

\* Two publications of one title, and a third.
SharedTitle == [p \in Paper |-> IF p = p3 THEN "b" ELSE "a"]

MCInit ==
    /\ PassInit /\ EnrichInit /\ StartInit /\ EventsInit /\ SessionsInit
    /\ Init
    /\ part \in {"passes", "enrichment", "start", "events", "sessions",
                 "cooldown"}

MCNext ==
    /\ \/ /\ part = "passes" /\ PassNext
          /\ UNCHANGED <<enrichVars, startVars, eventVars, sessionVars, vars>>
       \/ /\ part = "enrichment" /\ EnrichNext
          /\ UNCHANGED <<passVars, startVars, eventVars, sessionVars, vars>>
       \/ /\ part = "start" /\ StartNext
          /\ UNCHANGED <<passVars, enrichVars, eventVars, sessionVars, vars>>
       \/ /\ part = "events" /\ EventsNext
          /\ UNCHANGED <<passVars, enrichVars, startVars, sessionVars, vars>>
       \/ /\ part = "sessions" /\ SessionsNext
          /\ UNCHANGED <<passVars, enrichVars, startVars, eventVars, vars>>
       \/ /\ part = "cooldown" /\ Next
          /\ UNCHANGED <<passVars, enrichVars, startVars, eventVars, sessionVars>>
    /\ UNCHANGED part

\* In a part that rests no such step is enabled, so that it asks nothing of the
\* behaviours of the others.
MCFairness == SessionsFairness /\ WF_vars(Tick)

MCSpec == MCInit /\ [][MCNext]_allVars /\ MCFairness

\* The type invariants of the parts around a run.
PartsTypeOK == PassTypeOK /\ EnrichTypeOK /\ StartTypeOK /\ EventsTypeOK
               /\ SessionsTypeOK
=============================================================================
