---------------------------- MODULE AuthorSearch ----------------------------
(***************************************************************************)
(* Searching Google Scholar for an author by name.  A search is one        *)
(* transaction that holds an advisory lock from its first statement to its *)
(* commit, its sleep and its live requests included: it reads the shared   *)
(* runtime row, refuses in a cooldown, answers from the cache, or asks     *)
(* Scholar and stores what came back, an armed cooldown included.          *)
(*                                                                         *)
(* Absolute times are kept as the ticks that remain.                       *)
(***************************************************************************)
EXTENDS Naturals, FiniteSets

CONSTANTS
    Client,           \* requests that search
    Name,             \* normalized, case-folded queries
    Nobody,           \* the lock is free
    BlockThreshold,   \* cooldown_block_threshold
    CooldownTime,     \* cooldown_seconds
    MinInterval,      \* min_interval_seconds
    Jitter,           \* interval_jitter_seconds
    Retries,          \* network_error_retries
    AlertAt,          \* cooldown_rejection_alert_threshold
    AnswerTtl,        \* cache_ttl_seconds
    BlockedTtl,       \* blocked_cache_ttl_seconds
    CacheSize         \* cache_max_entries

ASSUME SearchAssumption ==
    /\ {BlockThreshold, CooldownTime, AlertAt, AnswerTtl, BlockedTtl, CacheSize}
          \subseteq Nat \ {0}
    /\ {MinInterval, Jitter, Retries} \subseteq Nat
    /\ Nobody \notin Client

VARIABLES
    runtime,      \* author_search_runtime_state, as committed
    names,        \* author_search_cache_entries: the answer and its time left
    searchLock,   \* holder of pg_advisory_xact_lock
    search,       \* each request: where it is and what it will commit
    streak        \* blocked answers stored in a row, the last cooldown since

searchVars == <<runtime, names, searchLock, search, streak>>

\* cooldown_until: NULL, passed, less than a second to go, or more.
Unset == 0
Over == 1
LastSecond == 2
LongestCooldown == LastSecond + CooldownTime

Outcome == {"found", "blocked", "network"}
RuntimeState == [cool : Unset..LongestCooldown, blocked : 0..BlockThreshold,
                 rejections : 0..AlertAt, alerted : BOOLEAN, next : 0..MinInterval]
NoEntry == [outcome |-> "found", left |-> 0]

Waits == [pc |-> "idle", name |-> Nobody, copy |-> [cool |-> Unset, blocked |-> 0,
          rejections |-> 0, alerted |-> FALSE, next |-> 0], wait |-> 0, tries |-> 0,
          live |-> "no", entry |-> NoEntry]

InTransaction == {"sleep", "fetch", "commit"}

SearchTypeOK ==
    /\ runtime \in RuntimeState
    /\ DOMAIN names \subseteq Name
    /\ \A n \in DOMAIN names : /\ names[n].outcome \in Outcome
                               /\ names[n].left \in 0..AnswerTtl
    /\ searchLock \in Client \cup {Nobody}
    /\ streak \in Nat
    /\ \A c \in Client :
        /\ search[c].pc \in InTransaction \cup {"idle", "lock"}
        /\ search[c].copy \in RuntimeState
        /\ search[c].wait \in 0..(MinInterval + Jitter)
        /\ search[c].tries \in 0..Retries
        /\ search[c].live \in {"no", "answered", "blocked", "armed"}
        /\ searchLock = c <=> search[c].pc \in InTransaction

SearchInit ==
    /\ runtime = Waits.copy
    /\ names = [n \in {} |-> NoEntry]
    /\ searchLock = Nobody
    /\ search = [c \in Client |-> Waits]
    /\ streak = 0

-----------------------------------------------------------------------------
(* The runtime row                                                         *)

\* _normalize_runtime_cooldown_state: an elapsed cooldown is forgotten.
Normalized(r) ==
    IF r.cool = Over
    THEN [r EXCEPT !.cool = Unset, !.rejections = 0, !.alerted = FALSE] ELSE r

\* The remaining time is cut to whole seconds: none in the last second.
Refuses(r) == r.cool > LastSecond

\* A refusal is counted, up to the threshold; reaching it alerts, once.
Counted(r) ==
    LET n == IF r.rejections < AlertAt THEN r.rejections + 1 ELSE AlertAt
    IN [r EXCEPT !.rejections = n, !.alerted = @ \/ n = AlertAt]

\* Seeded fault: the alert of the last cooldown is not forgotten.
Judge_KeepsAlert(r, outcome) ==
    IF outcome # "blocked" THEN [r EXCEPT !.blocked = 0]
    ELSE IF r.blocked + 1 < BlockThreshold THEN [r EXCEPT !.blocked = @ + 1]
    ELSE [r EXCEPT !.cool = LongestCooldown, !.blocked = 0, !.rejections = 0]

\* _apply_block_circuit_breaker
Judge(r, outcome) ==
    IF outcome # "blocked" THEN [r EXCEPT !.blocked = 0]
    ELSE IF r.blocked + 1 < BlockThreshold THEN [r EXCEPT !.blocked = @ + 1]
    ELSE [r EXCEPT !.cool = LongestCooldown, !.blocked = 0,
                   !.rejections = 0, !.alerted = FALSE]

-----------------------------------------------------------------------------
(* The cache                                                               *)

\* _resolve_author_search_cache_ttl_seconds
LifeOf(outcome) ==
    IF outcome = "blocked" /\ BlockedTtl < AnswerTtl THEN BlockedTtl ELSE AnswerTtl

Usable(n) == n \in DOMAIN names /\ names[n].left > 0

\* The caches an answer to n may leave: expired entries go and, beyond the
\* limit, the oldest, by cached_at; among answers of one kind that is the one
\* with the least life left, and the kinds are not compared here.
Stored(n, entry) ==
    LET alive == {m \in DOMAIN names : names[m].left > 0} \ {n}
        over == IF Cardinality(alive) + 1 > CacheSize
                THEN Cardinality(alive) + 1 - CacheSize ELSE 0
    IN {[m \in (alive \ old) \cup {n} |-> IF m = n THEN entry ELSE names[m]] :
            old \in {S \in SUBSET alive :
                        /\ Cardinality(S) = over
                        /\ \A m \in S, k \in alive \ S :
                              names[m].outcome = names[k].outcome
                                  => names[m].left <= names[k].left}}

-----------------------------------------------------------------------------
(* A search                                                                *)

SearchAt(c, place) == search[c].pc = place

SearchBecomes(c, new) == search' = [search EXCEPT ![c] = new]

\* search_scholars with search enabled and a query of two characters or more.
Ask(c, n) ==
    /\ SearchAt(c, "idle")
    /\ SearchBecomes(c, [Waits EXCEPT !.pc = "lock", !.name = n])
    /\ UNCHANGED <<runtime, names, searchLock, streak>>

\* What the transaction does once it has the lock and the row r: refuse,
\* answer from the cache, or sleep before a live request.
Opening(c, r) ==
    LET new == [search[c] EXCEPT !.copy = r, !.pc = "commit"] IN
    IF Refuses(r) THEN {[new EXCEPT !.copy = Counted(r)]}
    ELSE IF Usable(search[c].name) THEN {new}
    ELSE {[new EXCEPT !.pc = "sleep", !.wait = r.next + j] : j \in 0..Jitter}

\* Seeded fault: the transactions are not serialized.
Begin_Unlocked(c) ==
    /\ SearchAt(c, "lock")
    /\ searchLock' = c
    /\ \E new \in Opening(c, Normalized(runtime)) : SearchBecomes(c, new)
    /\ UNCHANGED <<runtime, names, streak>>

\* _load_locked_runtime_state, _cooldown_or_cache_result.
Begin(c) ==
    /\ SearchAt(c, "lock") /\ searchLock = Nobody
    /\ searchLock' = c
    /\ \E new \in Opening(c, Normalized(runtime)) : SearchBecomes(c, new)
    /\ UNCHANGED <<runtime, names, streak>>

\* The throttle's sleep is over: the first request of the search is sent.
SendSearch(c) ==
    /\ SearchAt(c, "sleep") /\ search[c].wait = 0
    /\ SearchBecomes(c, [search[c] EXCEPT !.pc = "fetch"])
    /\ UNCHANGED <<runtime, names, searchLock, streak>>

\* A network error is tried again, after a backoff the model does not time.
RetrySearch(c) ==
    /\ SearchAt(c, "fetch") /\ search[c].tries < Retries
    /\ SearchBecomes(c, [search[c] EXCEPT !.tries = @ + 1])
    /\ UNCHANGED <<runtime, names, searchLock, streak>>

\* _perform_live_author_search after its last attempt.
Receive(c) ==
    /\ SearchAt(c, "fetch")
    /\ \E o \in Outcome :
          LET judged == Judge([search[c].copy EXCEPT !.next = MinInterval], o) IN
          /\ o = "network" => search[c].tries = Retries
          /\ SearchBecomes(c, [search[c] EXCEPT
                !.pc = "commit", !.copy = judged,
                !.live = IF judged.cool = LongestCooldown THEN "armed"
                         ELSE IF o = "blocked" THEN "blocked" ELSE "answered",
                !.entry = [outcome |-> o, left |-> LifeOf(o)]])
    /\ UNCHANGED <<runtime, names, searchLock, streak>>

\* How many blocked answers in a row the committed answers of c make it.
StreakAfter(c) ==
    CASE search[c].live = "no" -> streak
      [] search[c].live = "blocked" -> streak + 1
      [] OTHER -> 0

\* Seeded fault: a refused or failed search keeps the lock.
Finish_HoldsLock(c) ==
    /\ searchLock' = IF search[c].live = "no" THEN c ELSE Nobody
    /\ search' = [search EXCEPT ![c] = Waits]

Finish(c) ==
    /\ searchLock' = Nobody
    /\ search' = [search EXCEPT ![c] = Waits]

\* The commit ends the transaction and with it the lock.
CommitSearch(c) ==
    /\ SearchAt(c, "commit")
    /\ runtime' = search[c].copy
    /\ IF search[c].live # "no" THEN names' \in Stored(search[c].name, search[c].entry)
       ELSE UNCHANGED names
    /\ streak' = StreakAfter(c)
    /\ Finish(c)

\* The request fails, is cancelled or its process ends before the commit: the
\* row and the cache stay as they were, whatever Scholar answered.
FailSearch(c) ==
    /\ search[c].pc \in InTransaction
    /\ Finish(c)
    /\ UNCHANGED <<runtime, names, streak>>

Shorter(n) == IF n > 0 THEN n - 1 ELSE 0
Elapsed(r) == [r EXCEPT !.cool = IF @ > Over THEN @ - 1 ELSE @, !.next = Shorter(@)]

SearchTick ==
    /\ runtime' = Elapsed(runtime)
    /\ names' = [n \in DOMAIN names |-> [names[n] EXCEPT !.left = Shorter(@)]]
    /\ search' = [c \in Client |->
                    [search[c] EXCEPT !.copy = Elapsed(@), !.wait = Shorter(@),
                                      !.entry.left = Shorter(@)]]
    /\ UNCHANGED <<searchLock, streak>>

SearchStep(c) ==
    Begin(c) \/ SendSearch(c) \/ RetrySearch(c) \/ Receive(c) \/ CommitSearch(c)

SearchNext ==
    \/ \E c \in Client : SearchStep(c) \/ FailSearch(c) \/ \E n \in Name : Ask(c, n)
    \/ SearchTick

\* Sleeps and requests end, PostgreSQL grants the lock in the order it was
\* asked for, and time passes.
SearchFairness ==
    /\ \A c \in Client : WF_searchVars(SearchStep(c)) /\ SF_searchVars(Begin(c))
    /\ WF_searchVars(SearchTick)

SearchSpec == SearchInit /\ [][SearchNext]_searchVars /\ SearchFairness

-----------------------------------------------------------------------------
(* Properties                                                              *)

IsSent(c) == search[c].pc = "sleep" /\ search'[c].pc = "fetch"

\* A search goes out only when the interval since the last stored answer has
\* passed and no cooldown is in force, but for its last second: whatever the
\* searches stored that came between its looking and its sending
\* (author_search.py:414-456, 248-295).
SearchesSpaced ==
    [][\A c \in Client : IsSent(c) => runtime.next = 0 /\ ~Refuses(runtime)]_searchVars

\* Scholar as it sees the searches: a request is out from the first attempt to
\* the last, and its answer is noted with the commit of the transaction.
Answered(c) == SearchAt(c, "commit") /\ search[c].live # "no"

SearchRequest ==
    CASE \E c \in Client : SearchAt(c, "fetch") -> "sent"
      [] \E c \in Client : Answered(c) -> "answered"
      [] OTHER -> "none"

\* A cooldown refuses until its last second.
RestLeft(r) == IF Refuses(r) THEN r.cool - LastSecond ELSE 0

SearchDraft ==
    IF SearchRequest = "answered"
    THEN LET copy == search[CHOOSE c \in Client : Answered(c)].copy
         IN  [pause |-> copy.next, cool |-> RestLeft(copy)]
    ELSE [pause |-> 0, cool |-> 0]

ScholarPace == INSTANCE PacedRequests WITH
    Pace <- MinInterval, Rest <- CooldownTime, request <- SearchRequest,
    pause <- runtime.next, cool <- RestLeft(runtime), draft <- SearchDraft

\* Whatever the requests of all the processes do, and whichever fail, Scholar
\* is searched at its pace: one search at a time, the interval after the last
\* stored answer, none in a cooldown, which neither a search that looked
\* before it nor one that fails can shorten (author_search.py:364-580).
ScholarIsPaced == ScholarPace!PacedSpec

\* As many blocked answers in a row as the threshold says put the searches in
\* a cooldown: no blocked answer is forgotten because two searches ran at the
\* same time or a later one was refused or answered from the cache
\* (author_search.py:364-400).
BreakerTrips == streak < BlockThreshold

\* The alert of a cooldown is on exactly when its refusals reached the
\* threshold: none is inherited from the cooldown before (author_search.py:119-182).
AlertIsThisCooldowns ==
    runtime.cool # Unset => (runtime.alerted <=> runtime.rejections = AlertAt)

\* Who waits for the lock is answered, or fails (author_search.py:521-580).
SearchEnds == \A c \in Client : SearchAt(c, "lock") ~> SearchAt(c, "idle")

\* docs/user/configuration.md:126: "Cache TTL for successful searches (6 hours)".
\* It does not hold: a search that fails on the network is cached as long
\* (author_search.py:403-411).
FailuresCachedBriefly ==
    \A n \in DOMAIN names : names[n].left > BlockedTtl => names[n].outcome = "found"
=============================================================================
