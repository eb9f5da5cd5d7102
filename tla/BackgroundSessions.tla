-------------------------- MODULE BackgroundSessions --------------------------
(***************************************************************************)
(* The semaphore that gates the database sessions of the background tasks, *)
(* and the connection pool they share with the API.  A permit is taken     *)
(* before a session opens and given back when it closes; the connection    *)
(* itself is checked out by the first statement and returned by a commit   *)
(* or a rollback.  Two failure paths open a second session while the first *)
(* is still open, and the sessions of the arXiv client take no permit.     *)
(***************************************************************************)
EXTENDS Integers, Sequences, FiniteSets

CONSTANTS
    Task,       \* runs, enrichments, the scheduler's tick, PDF resolutions
    Nesting,    \* tasks that record a failure inside their first session
    PoolSize,   \* DATABASE_POOL_SIZE
    MaxOverflow,\* DATABASE_POOL_MAX_OVERFLOW
    Reserved    \* DATABASE_RESERVED_API_CONNECTIONS

ASSUME SessionsAssumption ==
    /\ IsFiniteSet(Task)
    /\ Nesting \subseteq Task
    /\ PoolSize \in Int /\ MaxOverflow \in Int /\ Reserved \in Int

VARIABLES
    line,       \* tasks that wait for a permit, in order of arrival
    place,      \* where a task is: "nested" waits with a permit in hand
    busy,       \* tasks whose innermost session has a connection
    ungated     \* tasks with an open session of the arXiv client

sessionVars == <<line, place, busy, ungated>>

Places == {"idle", "waiting", "working", "nested", "cleanup"}

AtLeast(n, floor) == IF n < floor THEN floor ELSE n

Capacity == AtLeast(PoolSize, 1) + AtLeast(MaxOverflow, 0)

\* _build_semaphore
Limit == AtLeast(Capacity - AtLeast(Reserved, 0), 1)

In(p) == {t \in Task : place[t] = p}

Permits == Cardinality(In("working") \cup In("nested")) + 2 * Cardinality(In("cleanup"))

Connections == Cardinality(busy) + Cardinality(ungated)

SessionsTypeOK ==
    /\ line \in Seq(Task)
    /\ place \in [Task -> Places]
    /\ busy \subseteq In("working") \cup In("cleanup")
    /\ ungated \subseteq In("working") \cup In("idle")
    /\ Permits <= Limit
    /\ Connections <= Capacity

SessionsInit ==
    /\ line = <<>>
    /\ place = [t \in Task |-> "idle"]
    /\ busy = {}
    /\ ungated = {}

-----------------------------------------------------------------------------
\* background_session(): the task joins the waiters of the semaphore.
Enter(t) ==
    /\ place[t] = "idle"
    /\ t \notin ungated
    /\ line' = Append(line, t)
    /\ place' = [place EXCEPT ![t] = "waiting"]
    /\ UNCHANGED <<busy, ungated>>

\* The first waiter gets a permit, and with it its session.
Admit(t) ==
    /\ line # <<>>
    /\ t = Head(line)
    /\ Permits < Limit
    /\ line' = Tail(line)
    /\ place' = [place EXCEPT ![t] = IF @ = "nested" THEN "cleanup" ELSE "working"]
    /\ UNCHANGED <<busy, ungated>>

\* The first statement of a transaction takes a connection from the pool.
CheckOut(t) ==
    /\ place[t] \in {"working", "cleanup"}
    /\ t \notin busy
    /\ Connections < Capacity
    /\ busy' = busy \cup {t}
    /\ UNCHANGED <<line, place, ungated>>

\* A commit gives it back; the session stays open, with its permit.
Return(t) ==
    /\ t \in busy
    /\ busy' = busy \ {t}
    /\ UNCHANGED <<line, place, ungated>>

\* The end of the with block, of both when the task was cleaning up.
Close(t) ==
    /\ place[t] \in {"working", "cleanup"}
    /\ t \notin ungated
    /\ place' = [place EXCEPT ![t] = "idle"]
    /\ busy' = busy \ {t}
    /\ UNCHANGED <<line, ungated>>

Nests_All(t) == TRUE    \* seeded fault: every failure is recorded inside

\* execute_run calls _fail_run_in_background, and the queue runner reschedules
\* its job, before the session that failed is closed; the fallback of
\* background_enrich and the scheduler's own runs do not.
Nests(t) == t \in Nesting

\* A failure rolls the session back; a nesting task then asks for another.
Fails(t) ==
    /\ place[t] = "working"
    /\ t \notin ungated
    /\ busy' = busy \ {t}
    /\ IF Nests(t)
       THEN /\ line' = Append(line, t)
            /\ place' = [place EXCEPT ![t] = "nested"]
       ELSE /\ place' = [place EXCEPT ![t] = "idle"]
            /\ UNCHANGED line
    /\ UNCHANGED ungated

\* An arXiv lookup of an enrichment, or of a PDF resolution between its two
\* sessions: the slot, the status and the cache use get_session_factory().
LookUpArxiv(t) ==
    /\ place[t] \in {"idle", "working"}
    /\ t \notin ungated
    /\ Connections < Capacity
    /\ ungated' = ungated \cup {t}
    /\ UNCHANGED <<line, place, busy>>

ArxivDone(t) ==
    /\ t \in ungated
    /\ ungated' = ungated \ {t}
    /\ UNCHANGED <<line, place, busy>>

-----------------------------------------------------------------------------
SessionEnds(t) == Close(t) \/ Fails(t)

SessionsNext ==
    \E t \in Task :
        \/ Enter(t) \/ Admit(t) \/ CheckOut(t) \/ Return(t) \/ SessionEnds(t)
        \/ LookUpArxiv(t) \/ ArxivDone(t)

SessionsSpec == SessionsInit /\ [][SessionsNext]_sessionVars

\* The event loop wakes the first waiter; every request of a task has a
\* timeout, so that its sessions end.  A lookup may be followed by another.
SessionsFairness ==
    \A t \in Task :
        /\ WF_sessionVars(Admit(t))
        /\ WF_sessionVars(ArxivDone(t))
        /\ SF_sessionVars(SessionEnds(t))

-----------------------------------------------------------------------------
\* Every permit is in the hands of a nesting task that waits for one more: the
\* queue runner by itself where there is one permit, or as many failing runs as
\* there are permits.
SelfWait ==
    /\ In("working") \cup In("cleanup") = {}
    /\ In("nested") \subseteq Nesting
    /\ Cardinality(In("nested")) = Limit

\* When somebody waits for a permit, one is free or somebody works with what it
\* has, and nothing else stops the background work but the self-wait: no task
\* that opens one session at a time keeps a permit while it waits for another
\* (background_session.py:50-57, and the failure paths that open a second session).
SomebodyGoesOn ==
    line # <<>> =>
        \/ Permits < Limit
        \/ In("working") \cup In("cleanup") # {}
        \/ SelfWait

\* Background work goes on whatever fails: a task that waits for a session gets
\* one, or the self-wait has set in.
BackgroundServed ==
    \A t \in Task :
        place[t] \in {"waiting", "nested"}
            ~> place[t] \notin {"waiting", "nested"} \/ SelfWait

\* Stated, and not kept: the background tasks never wait for each other.
NeverSelfWait == ~SelfWait

\* "guarantees that at least reserved_for_api connections remain available for
\* API request handlers at all times" (background_session.py).
ReservedForApi == Connections <= Capacity - Reserved
=============================================================================
