------------------------------ MODULE ArxivGate ------------------------------
(***************************************************************************)
(* The way a lookup takes to the arXiv API: the query cache, the requests  *)
(* in flight of a process, and the gate that lets one request of all the   *)
(* processes through at a time, at an interval, and none in a cooldown.    *)
(*                                                                         *)
(* Time passes by Tick; next_allowed_at, cooldown_until and expires_at are *)
(* kept as the ticks that remain.  A caller keeps a connection of its      *)
(* process's pool from Connect until it leaves the gate, and every other   *)
(* access to the database needs one more for the moment.                   *)
(***************************************************************************)
EXTENDS Naturals, FiniteSets

CONSTANTS
    Caller,      \* tasks that look publications up
    Process,     \* application processes
    ProcessOf,   \* the process of each caller
    Query,       \* query fingerprints
    Interval,    \* arxiv_min_interval_seconds
    Cooldown,    \* arxiv_rate_limit_cooldown_seconds
    Ttl,         \* arxiv_cache_ttl_seconds
    MaxEntries,  \* arxiv_cache_max_entries, 0: unlimited
    PoolSize,    \* connections of a process
    None

ASSUME GateAssumption ==
    /\ ProcessOf \in [Caller -> Process]
    /\ {Interval, Cooldown, Ttl, MaxEntries} \subseteq Nat
    /\ PoolSize \in Nat \ {0}
    /\ None \notin Caller \cup Query

VARIABLES
    state,      \* arxiv_runtime_state: next_allowed_at and cooldown_until
    lock,       \* holder of the advisory lock
    cache,      \* arxiv_query_cache_entries: what remains of each entry's life
    inflight,   \* _INFLIGHT_FEEDS of each process
    call,       \* where each caller is
    since       \* ticks since an answer was recorded, up to the interval

gateVars == <<state, lock, cache, inflight, call, since>>

\* The callers that hold the connection of a lock session, and those that
\* hold the one of an open write of the cache.
AtGate == {"lock", "turn", "sleep", "fetch", "record"}
Holding == AtGate \ {"lock"}
Owning == AtGate \cup {"check", "connect", "store", "commit"}
PC == Owning \cup {"idle", "read", "reserve", "waiting", "done"}
Answer == {"feed", "limited", "error"}
Status == {"ok", "429", "failed"}

\* A caller that holds nothing of the gate.
Apart(pc, q, answer) ==
    [pc |-> pc, q |-> q, owner |-> None, wait |-> 0, status |-> "ok",
     write |-> [existing |-> FALSE, drop |-> {}], answer |-> answer]

Idle == Apart("idle", None, None)

GateTypeOK ==
    /\ state \in [next : 0..Interval, cool : 0..Cooldown]
    /\ lock \in Caller \cup {None}
    /\ DOMAIN cache \subseteq Query
    /\ \A q \in DOMAIN cache : cache[q] \in 0..Ttl
    /\ inflight \in [Process -> [Query -> Caller \cup {None}]]
    /\ call \in [Caller -> [pc : PC, q : Query \cup {None}, owner : Caller \cup {None},
                            wait : 0..Interval, status : Status,
                            write : [existing : BOOLEAN, drop : SUBSET Query],
                            answer : Answer \cup {None}]]
    /\ since \in 0..Interval
    /\ \A c \in Caller : lock = c <=> call[c].pc \in Holding

GateInit ==
    /\ state = [next |-> 0, cool |-> 0]
    /\ lock = None
    /\ cache = [q \in {} |-> 0]
    /\ inflight = [p \in Process |-> [q \in Query |-> None]]
    /\ call = [c \in Caller |-> Idle]
    /\ since = Interval

-----------------------------------------------------------------------------
(* Helpers                                                                 *)

Connections(p) ==
    Cardinality({c \in Caller : ProcessOf[c] = p /\ call[c].pc \in AtGate \cup {"commit"}})

\* A connection is free for caller c.
Connected(c) == Connections(ProcessOf[c]) < PoolSize

At(c, pc) == call[c].pc = pc

To(c, pc) == call' = [call EXCEPT ![c].pc = pc]

\* Seeded fault: an error of the owner reaches nobody else.
Settled_OwnerOnly(c, a) ==
    [d \in Caller |->
        IF d = c \/ (a = "feed" /\ call[d].pc = "waiting" /\ call[d].owner = c)
        THEN Apart("done", call[d].q, a) ELSE call[d]]

\* Caller c ends with answer a, and so do the callers that wait for it.
Settled(c, a) ==
    [d \in Caller |->
        IF d = c \/ (call[d].pc = "waiting" /\ call[d].owner = c)
        THEN Apart("done", call[d].q, a) ELSE call[d]]

\* The in-flight entry of c is dropped and its future completed.
Complete(c, a) ==
    /\ inflight' = [inflight EXCEPT ![ProcessOf[c]][call[c].q] =
                       IF @ = c THEN None ELSE @]
    /\ call' = Settled(c, a)

Released(c) == IF lock = c THEN None ELSE lock

Without(f, S) == [k \in DOMAIN f \ S |-> f[k]]

-----------------------------------------------------------------------------
(* Cache and requests in flight                                            *)

\* search() or lookup_ids() with parameters of fingerprint q.
Call(c, q) ==
    /\ At(c, "idle")
    /\ call' = [call EXCEPT ![c] = Apart(IF Ttl > 0 THEN "read" ELSE "reserve", q, None)]
    /\ UNCHANGED <<state, lock, cache, inflight, since>>

\* get_cached_feed: an expired entry is deleted.
ReadCache(c) ==
    LET q == call[c].q IN
    /\ At(c, "read") /\ Connected(c)
    /\ IF q \in DOMAIN cache /\ cache[q] > 0
       THEN call' = [call EXCEPT ![c] = Apart("done", q, "feed")]
       ELSE To(c, "reserve")
    /\ cache' = IF q \in DOMAIN cache /\ cache[q] = 0 THEN Without(cache, {q}) ELSE cache
    /\ UNCHANGED <<state, lock, inflight, since>>

\* _reserve_inflight_future: own the request, or wait for who owns it.
Reserve(c) ==
    LET p == ProcessOf[c]
        q == call[c].q
    IN
    /\ At(c, "reserve")
    /\ \/ /\ inflight[p][q] = None
          /\ inflight' = [inflight EXCEPT ![p][q] = c]
          /\ To(c, "check")
       \/ /\ inflight[p][q] # None
          /\ call' = [call EXCEPT ![c].pc = "waiting", ![c].owner = inflight[p][q]]
          /\ UNCHANGED inflight
    /\ UNCHANGED <<state, lock, cache, since>>

\* The rows a write of query q leaves out: the expired ones and, beyond the
\* limit, the oldest; which of two of the same age goes is the database's.
Pruned(q) ==
    LET alive == {k \in DOMAIN cache : cache[k] > 0} \ {q}
        over == IF MaxEntries = 0 THEN 0
                ELSE IF Cardinality(alive) + 1 > MaxEntries
                     THEN Cardinality(alive) + 1 - MaxEntries ELSE 0
    IN {(DOMAIN cache \ (alive \cup {q})) \cup old :
            old \in {S \in SUBSET alive :
                        /\ Cardinality(S) = over
                        /\ \A k \in S, l \in alive \ S : cache[k] <= cache[l]}}

\* set_cached_feed, up to its commit: what the transaction read and prunes.
WriteCache(c) ==
    /\ At(c, "store") /\ Connected(c)
    /\ \E drop \in Pruned(call[c].q) :
          call' = [call EXCEPT ![c].pc = "commit",
                               ![c].write = [existing |-> call[c].q \in DOMAIN cache,
                                             drop |-> drop]]
    /\ UNCHANGED <<state, lock, cache, inflight, since>>

\* Its commit.  Another process may have inserted the row (IntegrityError) or
\* deleted it (StaleDataError): then the lookup fails although it was answered.
CommitCache(c) ==
    LET q == call[c].q
        w == call[c].write
    IN
    /\ At(c, "commit")
    /\ IF w.existing = (q \in DOMAIN cache)
       THEN /\ cache' = [k \in (DOMAIN cache \ w.drop) \cup {q} |->
                            IF k = q THEN Ttl ELSE cache[k]]
            /\ Complete(c, "feed")
       ELSE Complete(c, "error") /\ UNCHANGED cache
    /\ UNCHANGED <<state, lock, since>>

-----------------------------------------------------------------------------
(* The gate                                                                *)

\* _request_arxiv_feed looks at the cooldown before it queues.
CheckCooldown(c) ==
    /\ At(c, "check") /\ Connected(c)
    /\ \/ state.cool > 0 /\ Complete(c, "limited")
       \/ state.cool = 0 /\ To(c, "connect") /\ UNCHANGED inflight
    /\ UNCHANGED <<state, lock, cache, since>>

\* The session that will hold the lock takes its connection.
Connect(c) ==
    /\ At(c, "connect") /\ Connected(c)
    /\ To(c, "lock")
    /\ UNCHANGED <<state, lock, cache, inflight, since>>

\* pg_advisory_lock
Acquire(c) ==
    /\ At(c, "lock") /\ lock = None
    /\ lock' = c
    /\ To(c, "turn")
    /\ UNCHANGED <<state, cache, inflight, since>>

\* Seeded fault: the cooldown is not looked at again under the lock.
TakeSlot_Unchecked(c) ==
    /\ At(c, "turn") /\ Connected(c)
    /\ state' = [state EXCEPT !.next = Interval]
    /\ call' = [call EXCEPT ![c].pc = "sleep", ![c].wait = state.next]
    /\ UNCHANGED <<lock, cache, inflight, since>>

\* Seeded fault: the refused caller keeps the lock.
TakeSlot_KeepsLock(c) ==
    /\ At(c, "turn") /\ Connected(c)
    /\ \/ /\ state.cool > 0
          /\ Complete(c, "limited")
          /\ UNCHANGED <<state, lock>>
       \/ /\ state.cool = 0
          /\ state' = [state EXCEPT !.next = Interval]
          /\ call' = [call EXCEPT ![c].pc = "sleep", ![c].wait = state.next]
          /\ UNCHANGED <<lock, inflight>>
    /\ UNCHANGED <<cache, since>>

\* _wait_for_allowed_slot_or_raise: how long to sleep, and the slot is taken.
TakeSlot(c) ==
    /\ At(c, "turn") /\ Connected(c)
    /\ \/ /\ state.cool > 0
          /\ lock' = Released(c)
          /\ Complete(c, "limited")
          /\ UNCHANGED state
       \/ /\ state.cool = 0
          /\ state' = [state EXCEPT !.next = Interval]
          /\ call' = [call EXCEPT ![c].pc = "sleep", ![c].wait = state.next]
          /\ UNCHANGED <<lock, inflight>>
    /\ UNCHANGED <<cache, since>>

\* The request is sent.
Send(c) ==
    /\ At(c, "sleep") /\ call[c].wait = 0
    /\ To(c, "fetch")
    /\ UNCHANGED <<state, lock, cache, inflight, since>>

\* An answer arrives.
Respond(c) ==
    /\ At(c, "fetch")
    /\ \E s \in Status : call' = [call EXCEPT ![c].pc = "record", ![c].status = s]
    /\ UNCHANGED <<state, lock, cache, inflight, since>>

\* The request raises (timeout, no network): the lock is released, nothing is
\* recorded.
Break(c) ==
    /\ At(c, "fetch")
    /\ lock' = Released(c)
    /\ Complete(c, "error")
    /\ UNCHANGED <<state, cache, since>>

\* Seeded fault: the interval counts from the slot that was taken.
Recorded_NoInterval(status) ==
    [state EXCEPT !.cool = IF status = "429" THEN Cooldown ELSE @]

\* _record_post_response_state
Recorded(status) ==
    [next |-> Interval, cool |-> IF status = "429" THEN Cooldown ELSE state.cool]

\* The answer is recorded and the lock released: 429 stops the caller's
\* batch, another error status fails the lookup.
Record(c) ==
    /\ At(c, "record") /\ Connected(c)
    /\ state' = Recorded(call[c].status)
    /\ since' = 0
    /\ lock' = Released(c)
    /\ \/ call[c].status = "429" /\ Complete(c, "limited")
       \/ call[c].status = "failed" /\ Complete(c, "error")
       \/ call[c].status = "ok" /\ Ttl = 0 /\ Complete(c, "feed")
       \/ call[c].status = "ok" /\ Ttl > 0 /\ To(c, "store") /\ UNCHANGED inflight
    /\ UNCHANGED cache

\* No connection comes free in pool_timeout: the lookup fails where it is.
PoolTimeout(c) ==
    /\ call[c].pc \in {"read", "check", "connect", "turn", "record", "store"}
    /\ ~Connected(c)
    /\ lock' = Released(c)
    /\ Complete(c, "error")
    /\ UNCHANGED <<state, cache, since>>

\* The caller goes on with the answer.
TakeAnswer(c) ==
    /\ At(c, "done")
    /\ call' = [call EXCEPT ![c] = Idle]
    /\ UNCHANGED <<state, lock, cache, inflight, since>>

\* A process stops: its connections close and the lock goes with them.
StopGate(p) ==
    /\ lock' = IF lock # None /\ ProcessOf[lock] = p THEN None ELSE lock
    /\ inflight' = [inflight EXCEPT ![p] = [q \in Query |-> None]]
    /\ call' = [c \in Caller |-> IF ProcessOf[c] = p THEN Idle ELSE call[c]]
    /\ UNCHANGED <<state, cache, since>>

Down(n) == IF n > 0 THEN n - 1 ELSE 0
Up(n, bound) == IF n < bound THEN n + 1 ELSE bound

GateTick ==
    /\ state' = [next |-> Down(state.next), cool |-> Down(state.cool)]
    /\ cache' = [q \in DOMAIN cache |-> Down(cache[q])]
    /\ call' = [c \in Caller |-> [call[c] EXCEPT !.wait = Down(@)]]
    /\ since' = Up(since, Interval)
    /\ UNCHANGED <<lock, inflight>>

\* What caller c does without being asked.
GateStep(c) ==
    \/ ReadCache(c) \/ Reserve(c) \/ WriteCache(c) \/ CommitCache(c)
    \/ CheckCooldown(c) \/ Connect(c) \/ Acquire(c) \/ TakeSlot(c)
    \/ Send(c) \/ Respond(c) \/ Break(c) \/ Record(c) \/ PoolTimeout(c)

GateNext ==
    \/ \E c \in Caller : GateStep(c) \/ TakeAnswer(c) \/ \E q \in Query : Call(c, q)
    \/ \E p \in Process : StopGate(p)
    \/ GateTick

\* The event loop runs what is ready, requests time out, PostgreSQL hands the
\* lock on in the order it was asked for, and time passes.
GateFairness ==
    /\ \A c \in Caller : WF_gateVars(GateStep(c)) /\ SF_gateVars(Acquire(c))
    /\ WF_gateVars(GateTick)

GateSpec == GateInit /\ [][GateNext]_gateVars /\ GateFairness

-----------------------------------------------------------------------------
(* Properties                                                              *)

Sent(c) == call[c].pc = "sleep" /\ call'[c].pc = "fetch"

\* No request is sent while a cooldown runs, whoever began it and however
\* long the caller queued and slept since it looked (rate_limit.py:141-167).
CooldownKept == [][\A c \in Caller : Sent(c) => state.cool = 0]_gateVars

\* A request is sent at least the interval after the last answer that was
\* recorded, by whichever process (rate_limit.py:170-180).
AnswersSpaced == [][\A c \in Caller : Sent(c) => since >= Interval]_gateVars

\* The service as it sees the callers: a request is out from its sending until
\* its answer is recorded, and the pause is what the last answer leaves of it.
GateRequest == IF \E c \in Caller : call[c].pc \in {"fetch", "record"} THEN "sent" ELSE "none"

ArxivPace == INSTANCE PacedRequests WITH
    Pace <- Interval, Rest <- Cooldown, request <- GateRequest,
    pause <- Interval - since, cool <- state.cool, draft <- [pause |-> 0, cool |-> 0]

\* Whatever the callers of all the processes do, and whichever of them stop,
\* arXiv is asked at its pace: one request at a time, the interval after the
\* last recorded answer, none in a cooldown, which only time ends
\* (rate_limit.py:50-180).
ArxivIsPaced == ArxivPace!PacedSpec

\* Who waits for a request in flight waits for a caller of its own process
\* that is at the same query: nobody is left with a future that no one will
\* complete (cache.py:65-81).
WaitersAttended ==
    \A c \in Caller : At(c, "waiting") =>
        LET o == call[c].owner IN
        /\ call[o].pc \in Owning
        /\ call[o].q = call[c].q
        /\ inflight[ProcessOf[c]][call[c].q] = o

\* Every lookup ends: with an answer, an error or a refusal (rate_limit.py:65-105,
\* cache.py:65-81, the pool's timeout included).
LookupEnds == \A c \in Caller : At(c, "reserve") ~> call[c].pc \in {"done", "idle"}
=============================================================================
