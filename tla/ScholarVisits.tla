---------------------------- MODULE ScholarVisits ----------------------------
(***************************************************************************)
(* How the publications of one scholar get into the database: the visits   *)
(* a run pays to the pages of his profile, the cursor that a truncated     *)
(* visit leaves in the continuation queue, and the fingerprint that lets   *)
(* the next run skip an unchanged profile.                                 *)
(*                                                                         *)
(* A run visits the scholar twice: the first pass fetches one page, the    *)
(* depth pass goes on where it stopped, with the rest of the page budget.  *)
(* The profile changes under the cursor, requests fail, Scholar may ignore *)
(* the cursor and serve the first page.  Storing a page commits the        *)
(* session, and with it what earlier visits left uncommitted.              *)
(***************************************************************************)
EXTENDS Naturals, FiniteSets

CONSTANTS
    Publication,        \* publications, numbered in the order Scholar lists them
    PageSize,           \* INGESTION_PAGE_SIZE
    MaxPages,           \* INGESTION_MAX_PAGES_PER_SCHOLAR
    FingerprintRows,    \* INITIAL_PAGE_FINGERPRINT_MAX_PUBLICATIONS
    None,               \* NULL
    ChangeBound,        \* changes of the profile, a bound of the model
    FaultBound          \* failures of a run, a bound of the model

ASSUME VisitConstants ==
    /\ Publication \subseteq Nat
    /\ IsFiniteSet(Publication)
    /\ PageSize \in Nat \ {0}
    /\ MaxPages \in Nat \ {0}
    /\ FingerprintRows \in 1..PageSize
    /\ None \notin Nat
    /\ ChangeBound \in Nat
    /\ FaultBound \in Nat

VARIABLES
    listed,     \* publications on the profile
    changes,    \* how often the profile has changed
    stored,     \* publications linked to the scholar
    saved,      \* committed: fingerprint, resume_cstart of the queue row
    mine,       \* the same as the session of the run sees it
    base,       \* history: what was listed when the chain of visits began
    pass,       \* first or depth pass
    at,         \* where the visit is
    start,      \* start_cstart of the visit
    cur,        \* current_cstart
    next,       \* next_cstart
    pages,      \* pages_fetched of the visit
    first,      \* fingerprint of the first page of the visit
    more,       \* the page at hand has a show-more button
    faults      \* how often something has failed

profile == <<listed, changes>>
visit == <<pass, at, start, cur, next, pages, first, more>>
vars == <<profile, stored, saved, mine, base, visit, faults>>

Place == {"idle", "request", "boundary", "more", "between", "done"}

Init ==
    /\ listed \in SUBSET Publication
    /\ changes = 0
    /\ stored = {}
    /\ saved = [fingerprint |-> None, resume |-> None, base |-> {}]
    /\ mine = saved
    /\ base = {}
    /\ pass = "first"
    /\ at = "idle"
    /\ start = 0
    /\ cur = 0
    /\ next = 0
    /\ pages = 0
    /\ first = None
    /\ more = FALSE
    /\ faults = 0

-----------------------------------------------------------------------------
(* What Scholar serves                                                     *)

\* The number of publications listed before i.
Position(i) == Cardinality({j \in listed : j < i})

Page(c) == {i \in listed : Position(i) \in c..(c + PageSize - 1)}

RangeEnd_OffByOne(c) == c + Cardinality(Page(c)) + 1  \* seeded fault

\* The second number of "Articles 1-20", or what the rows on the page say.
RangeEnd(c) == c + Cardinality(Page(c))

ShowMore(c) == Cardinality(listed) > c + PageSize

\* build_initial_page_fingerprint: range, button and the leading rows.
PageFingerprint(c) ==
    IF Page(c) = {} THEN [from |-> 0, end |-> 0, more |-> FALSE, rows |-> {}]
    ELSE [from |-> c,
          end  |-> RangeEnd(c),
          more |-> ShowMore(c),
          rows |-> {i \in Page(c) : Position(i) < c + FingerprintRows}]

Fingerprint == [from : Nat, end : Nat, more : BOOLEAN, rows : SUBSET Publication]
ScholarRow == [fingerprint : Fingerprint \cup {None},
               resume : Nat \cup {None},
               base : SUBSET Publication]

TypeOK ==
    /\ listed \subseteq Publication
    /\ changes \in 0..ChangeBound
    /\ stored \subseteq Publication
    /\ saved \in ScholarRow
    /\ mine \in ScholarRow
    /\ base \subseteq Publication
    /\ pass \in {"first", "depth"}
    /\ at \in Place
    /\ start \in Nat /\ cur \in Nat /\ next \in Nat
    /\ pages \in 0..MaxPages
    /\ first \in Fingerprint \cup {None}
    /\ more \in BOOLEAN
    /\ faults \in 0..FaultBound

-----------------------------------------------------------------------------
(* The profile changes                                                     *)

\* A publication is added, anywhere in the list.
Appear(i) ==
    /\ changes < ChangeBound
    /\ i \notin listed
    /\ listed' = listed \cup {i}
    /\ changes' = changes + 1
    /\ UNCHANGED <<stored, saved, mine, base, visit, faults>>

\* A publication is removed: those behind it move up, past a cursor perhaps,
\* which voids what the cursor promises.
Vanish(i) ==
    /\ changes < ChangeBound
    /\ i \in listed
    /\ listed' = listed \ {i}
    /\ changes' = changes + 1
    /\ base' = {}
    /\ saved' = [saved EXCEPT !.base = {}]
    /\ mine' = [mine EXCEPT !.base = {}]
    /\ UNCHANGED <<stored, visit, faults>>

-----------------------------------------------------------------------------
(* A visit                                                                 *)

Budget_Whole == MaxPages  \* seeded fault: the first pass is not counted

\* max_pages_per_scholar of the pass: one page, then what is left.
Budget == IF pass = "first" THEN 1 ELSE MaxPages - 1

WithinBudget == pages < Budget

\* process_scholar is called for the page at c.
Visits(c, whichPass) ==
    /\ pass' = whichPass
    /\ at' = "request"
    /\ start' = c
    /\ cur' = c
    /\ next' = c
    /\ pages' = 0
    /\ first' = None
    /\ more' = FALSE


\* sync_continuation_queue; the first pass never queues, it clears the row.
SyncedQueue(c) ==
    IF pass = "depth" /\ c # None
    THEN [mine EXCEPT !.resume = c, !.base = base]
    ELSE [mine EXCEPT !.resume = None, !.base = {}]

KeepsFingerprint_Always(complete) == TRUE \* seeded fault: partial visits too

\* _upsert_success: only a visit that is not partial leaves its fingerprint.
KeepsFingerprint(complete) == complete

\* The visit is over. The first pass asks for a depth pass when its
\* continuation lies ahead; otherwise the run has nothing left to do.
EndVisit(complete, queued, continuation) ==
    /\ mine' = IF KeepsFingerprint(complete)
               THEN [SyncedQueue(queued) EXCEPT !.fingerprint = first]
               ELSE SyncedQueue(queued)
    /\ IF pass = "first" /\ continuation > start /\ MaxPages > 1
       THEN at' = "between" /\ next' = continuation
       ELSE at' = "done" /\ UNCHANGED next
    /\ UNCHANGED <<profile, stored, saved, base, pass, start, cur, pages,
                   first, more>>

\* A page is stored and the session committed, unless the page is empty.
StorePage(c) ==
    /\ stored' = stored \cup Page(c)
    /\ saved' = IF Page(c) = {} THEN saved ELSE mine
    /\ next' = RangeEnd(c)
    /\ more' = ShowMore(c)
    /\ pages' = pages + 1
    /\ at' = "boundary"

\* _should_skip_no_change
Unchanged ==
    /\ start = 0
    /\ mine.fingerprint # None
    /\ mine.fingerprint = PageFingerprint(0)

\* The first page is the one the fingerprint was taken of: nothing is stored.
SkipNoChange ==
    /\ at = "request"
    /\ Unchanged
    /\ mine' = SyncedQueue(None)
    /\ at' = "done"
    /\ UNCHANGED <<profile, stored, saved, base, pass, start, cur, next, pages,
                   first, more>>

\* The first page of the visit arrives; Scholar served the page at c.
FirstPage(c) ==
    /\ at = "request"
    /\ ~Unchanged
    /\ first' = PageFingerprint(c)
    /\ StorePage(c)
    /\ UNCHANGED <<profile, mine, base, pass, start, cur>>

\* A further page arrives; an empty one ends the loop.
FurtherPage(c) ==
    /\ at = "more"
    /\ StorePage(c)
    /\ UNCHANGED <<profile, mine, base, pass, start, cur, first>>

\* The retries are used up. A network error at a page makes the cursor
\* resumable; a page that is blocked or not understood does not.
PageFails(network) ==
    /\ at \in {"request", "more"}
    /\ EndVisit(FALSE, IF network THEN cur ELSE None, cur)

\* No show-more button: everything behind the start of the visit was seen.
LastPage ==
    /\ at = "boundary"
    /\ ~more
    /\ EndVisit(TRUE, None, start)

\* The run was canceled: a partial visit that is not resumable.
CanceledAtPage ==
    /\ at = "boundary"
    /\ more
    /\ EndVisit(FALSE, None, cur)

\* max_pages_reached; the cursor never goes back.
BudgetSpent ==
    /\ at = "boundary"
    /\ more
    /\ ~WithinBudget
    /\ LET c == IF next > cur THEN next ELSE cur IN EndVisit(FALSE, c, c)

\* pagination_cursor_stalled: the page served was not the page asked for.
CursorStalled ==
    /\ at = "boundary"
    /\ more
    /\ WithinBudget
    /\ next <= cur
    /\ EndVisit(FALSE, cur, cur)

\* _fetch_next_page
TurnPage ==
    /\ at = "boundary"
    /\ more
    /\ WithinBudget
    /\ next > cur
    /\ cur' = next
    /\ at' = "more"
    /\ UNCHANGED <<profile, stored, saved, mine, base, pass, start, next, pages,
                   first, more>>

\* Parsing, validating or storing raises: the queue row is left alone. A
\* failed upsert has rolled the session back.
VisitBreaks(rolledBack) ==
    /\ at \in {"request", "boundary", "more"}
    /\ mine' = IF rolledBack THEN saved ELSE mine
    /\ at' = "done"
    /\ UNCHANGED <<profile, stored, saved, base, pass, start, cur, next, pages,
                   first, more>>

-----------------------------------------------------------------------------
(* A run                                                                   *)

\* A manual or scheduled run begins with the first page.
FullRun ==
    /\ at = "idle"
    /\ Visits(0, "first")
    /\ mine' = saved
    /\ base' = listed
    /\ UNCHANGED <<profile, stored, saved, faults>>

\* The queue runner's run begins where the queue row says.
ResumeRun ==
    /\ at = "idle"
    /\ saved.resume # None
    /\ Visits(saved.resume, "first")
    /\ mine' = saved
    /\ base' = saved.base
    /\ UNCHANGED <<profile, stored, saved, faults>>

\* _run_depth_pass, from the continuation of the first pass.
DepthPass ==
    /\ at = "between"
    /\ Visits(next, "depth")
    /\ UNCHANGED <<profile, stored, saved, mine, base>>

\* The run was canceled between the passes.
CanceledBetween ==
    /\ at = "between"
    /\ at' = "done"
    /\ UNCHANGED <<profile, stored, saved, mine, base, pass, start, cur, next,
                   pages, first, more>>

Idle ==
    /\ pass' = "first"
    /\ at' = "idle"
    /\ start' = 0
    /\ cur' = 0
    /\ next' = 0
    /\ pages' = 0
    /\ first' = None
    /\ more' = FALSE

\* complete_run_for_user commits what the visits left.
CompleteRun ==
    /\ at = "done"
    /\ saved' = mine
    /\ base' = {}
    /\ Idle
    /\ UNCHANGED <<profile, stored, mine>>

\* A database error or the end of the process: the session is rolled back.
RunRaises ==
    /\ at # "idle"
    /\ mine' = saved
    /\ base' = {}
    /\ Idle
    /\ UNCHANGED <<profile, stored, saved>>

-----------------------------------------------------------------------------
PageArrives == SkipNoChange \/ FirstPage(cur) \/ FurtherPage(cur)

\* Scholar ignores the cursor and serves the first page.
FirstPageAgain == cur # 0 /\ (FirstPage(0) \/ FurtherPage(0))

VisitStep ==
    /\ \/ PageArrives
       \/ LastPage \/ BudgetSpent \/ CursorStalled \/ TurnPage
       \/ DepthPass \/ CompleteRun
    /\ UNCHANGED faults

Fault ==
    /\ \/ \E network \in BOOLEAN : PageFails(network)
       \/ \E rolledBack \in BOOLEAN : VisitBreaks(rolledBack)
       \/ FirstPageAgain \/ CanceledAtPage \/ CanceledBetween \/ RunRaises
    /\ faults < FaultBound
    /\ faults' = faults + 1

Next ==
    \/ \E i \in Publication : Appear(i) \/ Vanish(i)
    \/ FullRun
    \/ ResumeRun
    \/ VisitStep
    \/ Fault

Spec == Init /\ [][Next]_vars

\* A run goes on to its end. The scheduler starts full runs again and again,
\* and between two of them its ticks serve a continuation that is due.
Fairness == WF_vars(VisitStep) /\ SF_vars(FullRun) /\ SF_vars(ResumeRun)

FairSpec == Spec /\ Fairness
-----------------------------------------------------------------------------
(* Properties                                                              *)

\* What was listed in b and is not stored lies at c or behind it.
NothingHidden(c, b) == \A i \in (b \cap listed) \ stored : Position(i) >= c

\* The cursor in the queue hides no publication: whatever was on the profile
\* when the chain of visits began and is not stored yet lies at the cursor or
\* behind it, through insertions, stalled cursors, failed pages and runs that
\* were resumed, rolled back or cut short by the budget.
ContinuationHidesNothing ==
    saved.resume # None => NothingHidden(saved.resume, saved.base)

\* A run that is about to skip the scholar because his first page looks unchanged
\* misses no second page, none of the leading rows that the fingerprint names,
\* and of the others no more than were stored and have left the profile since.
SkipMissesNothing ==
    at = "request" /\ Unchanged =>
        /\ ~ShowMore(0)
        /\ \A i \in listed \ stored : Position(i) >= FingerprintRows
        /\ Cardinality(listed \ stored) <= Cardinality(stored \ listed)

\* Stated, and not kept: what a run skips is stored. Behind the rows that the
\* fingerprint names, a publication may have taken the place of another.
SkipIsExact == at = "request" /\ Unchanged => listed \subseteq stored

\* A run fetches at most max_pages_per_scholar pages of the scholar, counting
\* both passes.
RunWithinBudget ==
    /\ pass = "first" => pages <= 1
    /\ pass = "depth" => 1 + pages <= MaxPages

\* The profile looks as it did when its fingerprint was taken, but i has taken
\* the place of a publication that has left, behind the rows that are named.
Masked(i) ==
    /\ saved.fingerprint = PageFingerprint(0)
    /\ Position(i) >= FingerprintRows
    /\ stored \ listed # {}


-----------------------------------------------------------------------------
(* The inductive invariant behind the safety properties                    *)

\* The cursors of the session promise what the one in the queue promises.
SessionHidesNothing ==
    /\ mine.resume # None => NothingHidden(mine.resume, mine.base)
    /\ at \in {"request", "boundary", "more", "between"} =>
        NothingHidden(cur, base) /\ NothingHidden(next, base)

\* A publication that appears is in no base: a removal has emptied them.
BasesAreListed ==
    base \subseteq listed /\ saved.base \subseteq listed /\ mine.base \subseteq listed

\* Where the page budget of a pass stands.
BudgetKept ==
    /\ pass = "depth" \/ at = "between" => MaxPages > 1
    /\ at = "request" => pages = 0
    /\ at = "more" => pages < Budget
    /\ RunWithinBudget

IInv ==
    /\ TypeOK
    /\ ContinuationHidesNothing
    /\ SessionHidesNothing
    /\ BasesAreListed
    /\ BudgetKept
=============================================================================
