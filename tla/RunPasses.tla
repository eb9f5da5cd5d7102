------------------------------ MODULE RunPasses ------------------------------
(***************************************************************************)
(* What a run reports of itself: the two passes over the scholars of an    *)
(* account, the retries of a page, the entry each visit leaves in the      *)
(* error log, the counters, the progress events, and the status and the    *)
(* safety cooldown that are decided on them in the end.                    *)
(*                                                                         *)
(* The first pass fetches one page of every scholar; those with more pages *)
(* are visited again by the depth pass, whose entry replaces the first.    *)
(* A page is known here by how it was answered; what is on it, and the     *)
(* cursors, are the matter of ScholarVisits.                               *)
(***************************************************************************)
EXTENDS Naturals, FiniteSets

CONSTANTS
    ScholarCount,       \* enabled scholars of the account, in their order
    PassPages,          \* INGESTION_MAX_PAGES_PER_SCHOLAR
    NetworkRetries,     \* INGESTION_NETWORK_ERROR_RETRIES
    RateLimitRetries,   \* INGESTION_RATE_LIMIT_RETRIES
    BlockedThreshold,   \* INGESTION_ALERT_BLOCKED_FAILURE_THRESHOLD
    NetworkThreshold    \* INGESTION_ALERT_NETWORK_FAILURE_THRESHOLD

ASSUME PassConstants ==
    /\ ScholarCount \in Nat
    /\ PassPages \in Nat \ {0}
    /\ NetworkRetries \in Nat
    /\ RateLimitRetries \in Nat
    /\ BlockedThreshold \in Nat \ {0}
    /\ NetworkThreshold \in Nat \ {0}

VARIABLES
    phase,      \* where the run is
    turn,       \* the scholar whose turn it is in the pass
    ahead,      \* keys of first_pass_cstarts: scholars for the depth pass
    result,     \* scholar_results, by scholar
    count,      \* the counters of RunProgress
    asked,      \* the visit under way
    halted,     \* the row of the run says CANCELED: as written, as last read
    shown,      \* what scholar_progress has told
    verdict     \* status the run was given, and the cooldown it has entered

passVars == <<phase, turn, ahead, result, count, asked, halted, shown, verdict>>

Visited == 1..ScholarCount

Unreached == "network_error"     \* an exception, or no status code
Garbled == "layout_changed"     \* the parser does not know the page

\* 429 may pass when asked again; a challenge does not.
Blocked == {"rate_limited", "challenge"}
PageFailure == {Unreached, Garbled} \cup Blocked

NoResult == [outcome |-> "none", state |-> "none"]
Result == [outcome : {"success", "partial", "failed"},
          state   : {"ok", "ingestion_error"} \cup PageFailure]
NoVisit == [at |-> "none", pages |-> 0, more |-> FALSE, net |-> 0, rate |-> 0]

PassTypeOK ==
    /\ phase \in {"first", "depth", "completing", "over"}
    /\ turn \in 1..(ScholarCount + 1)
    /\ ahead \subseteq Visited
    /\ result \in [Visited -> Result \cup {NoResult}]
    /\ count \in [succeeded : Nat, failed : Nat, partial : Nat]
    /\ asked \in [at : {"none", "request", "boundary"}, pages : 0..PassPages,
                  more : BOOLEAN, net : 0..(NetworkRetries + 1),
                  rate : 0..(RateLimitRetries + 1)]
    /\ halted \in [row : BOOLEAN, read : BOOLEAN]
    /\ shown \in [visited : Nat, finished : Nat]
    /\ verdict \in [status : {"none", "success", "partial_failure", "failed",
                              "canceled", "raised"},
                    cooldown : {"none", "blocked", "network"}]

PassInit ==
    /\ phase = "first"
    /\ turn = 1
    /\ ahead = {}
    /\ result = [s \in Visited |-> NoResult]
    /\ count = [succeeded |-> 0, failed |-> 0, partial |-> 0]
    /\ asked = NoVisit
    /\ halted = [row |-> FALSE, read |-> FALSE]
    /\ shown = [visited |-> 0, finished |-> 0]
    /\ verdict = [status |-> "none", cooldown |-> "none"]

-----------------------------------------------------------------------------
(* The page at hand                                                        *)

\* _classify_attempt: two budgets, each counts the failures of its kind.
Classified(a) ==
    [asked EXCEPT !.net = IF a = Unreached THEN @ + 1 ELSE @,
                  !.rate = IF a = "rate_limited" THEN @ + 1 ELSE @]

\* _should_retry, for an attempt that is counted in v.
ShouldRetry(a, v) ==
    \/ a = Unreached /\ v.net <= NetworkRetries
    \/ a = "rate_limited" /\ v.rate <= RateLimitRetries

\* The page is asked for again, after a backoff.
RetryPage(a) ==
    /\ asked.at = "request"
    /\ ShouldRetry(a, Classified(a))
    /\ asked' = Classified(a)
    /\ UNCHANGED <<phase, turn, ahead, result, count, halted, shown, verdict>>

\* The page is read and its publications stored.
ReadPage(more) ==
    /\ asked.at = "request"
    /\ asked' = [asked EXCEPT !.at = "boundary", !.pages = @ + 1, !.more = more]
    /\ UNCHANGED <<phase, turn, ahead, result, count, halted, shown, verdict>>

-----------------------------------------------------------------------------
(* The end of a visit                                                      *)

\* result_counters: a partial visit counts as a success, too.
Counters(e) ==
    [succeeded |-> IF e.outcome \in {"success", "partial"} THEN 1 ELSE 0,
     failed    |-> IF e.outcome = "failed" THEN 1 ELSE 0,
     partial   |-> IF e.outcome = "partial" THEN 1 ELSE 0]

Recounted_Adds(old, new) ==     \* seeded fault: the old entry still counts
    [k \in DOMAIN count |-> count[k] + Counters(new)[k]]

\* apply_outcome_to_progress: the entry of the first pass is taken back.
Recounted(old, new) ==
    [k \in DOMAIN count |-> count[k] + Counters(new)[k] - Counters(old)[k]]

HardChallenge(e) == e.state = "challenge"

\* The visit leaves entry e. A hard challenge leaves the loop of the pass,
\* without an event; the depth pass comes back to a scholar who is resumable.
EndVisit(e, resumable) ==
    /\ result' = [result EXCEPT ![turn] = e]
    /\ count' = Recounted(result[turn], e)
    /\ asked' = NoVisit
    /\ IF HardChallenge(e)
       THEN /\ turn' = ScholarCount + 1
            /\ UNCHANGED <<ahead, shown>>
       ELSE /\ turn' = turn + 1
            /\ IF phase = "first"
               THEN /\ shown' = [shown EXCEPT !.visited = @ + 1]
                    /\ ahead' = IF resumable THEN ahead \cup {turn} ELSE ahead
               ELSE /\ shown' = [shown EXCEPT !.finished = @ + 1]
                    /\ UNCHANGED ahead
    /\ UNCHANGED <<phase, verdict>>

OutcomeOfFailure == IF asked.pages > 0 THEN "partial" ELSE "failed"

\* The retries are used up. What earlier pages of the visit gave is kept.
FailPage(a) ==
    /\ asked.at = "request"
    /\ ~ShouldRetry(a, Classified(a))
    /\ EndVisit([outcome |-> OutcomeOfFailure, state |-> a], FALSE)
    /\ UNCHANGED halted

\* skipped_no_change_outcome; only a visit that begins with the first page.
SkipScholar ==
    /\ asked.at = "request"
    /\ asked.pages = 0
    /\ phase = "first"
    /\ EndVisit([outcome |-> "success", state |-> "ok"], FALSE)
    /\ UNCHANGED halted

\* No show-more button.
WholeProfile ==
    /\ asked.at = "boundary"
    /\ ~asked.more
    /\ EndVisit([outcome |-> "success", state |-> "ok"], FALSE)
    /\ UNCHANGED halted

PagesOfPass == IF phase = "first" THEN 1 ELSE PassPages - 1

\* refresh(run), then _should_stop_pagination. The cursor may have stalled:
\* such a visit is partial, and not resumable in this run.
AtPageBoundary(stalled) ==
    /\ asked.at = "boundary"
    /\ asked.more
    /\ halted' = [halted EXCEPT !.read = halted.row]
    /\ IF halted.row \/ stalled \/ asked.pages >= PagesOfPass
       THEN EndVisit([outcome |-> "partial", state |-> "ok"],
                     ~halted.row /\ ~stalled)
       ELSE /\ asked' = [asked EXCEPT !.at = "request", !.net = 0, !.rate = 0]
            /\ UNCHANGED <<phase, turn, ahead, result, count, shown, verdict>>

\* unexpected_scholar_exception_outcome
VisitRaises ==
    /\ asked.at # "none"
    /\ EndVisit([outcome |-> "failed", state |-> "ingestion_error"], FALSE)
    /\ UNCHANGED halted

-----------------------------------------------------------------------------
(* The passes                                                              *)

HasTurn == phase = "first" \/ turn \in ahead

\* refresh(run) before a scholar; a canceled run leaves the loop.
TakeTurn ==
    /\ asked.at = "none"
    /\ phase \in {"first", "depth"}
    /\ turn \in Visited
    /\ HasTurn
    /\ halted' = [halted EXCEPT !.read = halted.row]
    /\ IF halted.row
       THEN turn' = ScholarCount + 1 /\ UNCHANGED asked
       ELSE asked' = [NoVisit EXCEPT !.at = "request"] /\ UNCHANGED turn
    /\ UNCHANGED <<phase, ahead, result, count, shown, verdict>>

\* _run_depth_pass: nothing is left of this scholar.
PassOver ==
    /\ phase = "depth"
    /\ turn \in Visited
    /\ ~HasTurn
    /\ turn' = turn + 1
    /\ UNCHANGED <<phase, ahead, result, count, asked, halted, shown, verdict>>

FinishedAtOnce_All == ScholarCount  \* seeded fault: the resumable ones, too

\* Scholars that need no depth pass; those never visited are among them.
FinishedAtOnce == ScholarCount - Cardinality(ahead)

\* The loop of a pass is left, at its end or early: the depth pass follows
\* the first one however that one ended.
LeavePass ==
    /\ phase \in {"first", "depth"}
    /\ turn = ScholarCount + 1
    /\ IF phase = "first"
       THEN /\ phase' = IF PassPages > 1 THEN "depth" ELSE "completing"
            /\ turn' = 1
            /\ shown' = [shown EXCEPT !.finished = @ + FinishedAtOnce]
       ELSE phase' = "completing" /\ UNCHANGED <<turn, shown>>
    /\ UNCHANGED <<ahead, result, count, asked, halted, verdict>>

-----------------------------------------------------------------------------
(* Completion                                                              *)

\* summarize_failures: only entries that say "failed" are counted.
Failures(states) ==
    Cardinality({s \in Visited : result[s].outcome = "failed" /\ result[s].state \in states})

\* build_alert_summary and apply_run_safety_outcome.
CooldownEntered ==
    CASE Failures(Blocked) >= BlockedThreshold -> "blocked"
      [] Failures(Blocked) < BlockedThreshold
         /\ Failures({Unreached}) >= NetworkThreshold -> "network"
      [] OTHER -> "none"

\* resolve_run_status
StatusOf ==
    IF ScholarCount = 0 THEN "success"
    ELSE IF count.failed = ScholarCount THEN "failed"
    ELSE IF count.failed > 0 \/ count.partial > 0 THEN "partial_failure"
    ELSE IF count.succeeded > 0 THEN "success" ELSE "failed"

\* complete_run_for_user; CANCELED is kept if the session has read it.
CompletePasses ==
    /\ phase = "completing"
    /\ phase' = "over"
    /\ verdict' = [status |-> IF halted.read THEN "canceled" ELSE StatusOf,
                   cooldown |-> CooldownEntered]
    /\ UNCHANGED <<turn, ahead, result, count, asked, halted, shown>>

\* A lost connection: the exception leaves the passes, nothing is completed.
PassesRaise ==
    /\ phase # "over"
    /\ phase' = "over"
    /\ asked' = NoVisit
    /\ verdict' = [verdict EXCEPT !.status = "raised"]
    /\ UNCHANGED <<turn, ahead, result, count, halted, shown>>

\* cancel_run, in another session.
Halt ==
    /\ phase # "over"
    /\ ~halted.row
    /\ halted' = [halted EXCEPT !.row = TRUE]
    /\ UNCHANGED <<phase, turn, ahead, result, count, asked, shown, verdict>>

PassNext ==
    \/ \E a \in PageFailure : RetryPage(a) \/ FailPage(a)
    \/ \E b \in BOOLEAN : ReadPage(b) \/ AtPageBoundary(b)
    \/ SkipScholar \/ WholeProfile \/ VisitRaises
    \/ TakeTurn \/ PassOver \/ LeavePass
    \/ CompletePasses \/ PassesRaise \/ Halt

PassSpec == PassInit /\ [][PassNext]_passVars
-----------------------------------------------------------------------------
(* Properties                                                              *)

Judged == phase = "over" /\ verdict.status \notin {"canceled", "raised"}

\* The status of a run tells how it went (run_completion.py:345-412, 211-228):
\* SUCCESS if and only if every profile was read to its end or was unchanged,
\* FAILED if and only if every visit failed, though the depth pass replaces
\* entries, visits end early and a challenge ends a pass before its end.
VerdictMatchesEntries ==
    Judged =>
        /\ verdict.status = "success"
              <=> \A s \in Visited : result[s].outcome = "success"
        /\ verdict.status = "failed"
              <=> ScholarCount > 0 /\ \A s \in Visited : result[s].outcome = "failed"

Challenged == \E s \in Visited : HardChallenge(result[s])

\* The progress shown to the user (scholar_processing.py:407-457) adds up to
\* all scholars in a run that nothing has cut short, and never to more.
ProgressAddsUp ==
    /\ shown.finished <= ScholarCount
    /\ Judged /\ ~Challenged /\ PassPages > 1 =>
          shown = [visited |-> ScholarCount, finished |-> ScholarCount]

\* Of docs/developer/ingestion.md:37-41, with the documented threshold of one:
\* a run that Scholar has blocked enters the cooldown. It does not hold: a
\* visit that had stored a page before it was blocked is partial, and
\* run_completion.py:75 counts failed entries only.
BlockedRunCoolsDown ==
    phase = "over" /\ verdict.status # "raised"
        /\ (\E s \in Visited : result[s].state \in Blocked)
    => verdict.cooldown = "blocked"

\* Of the event "run_aborted_hard_challenge" (scholar_processing.py:307): once
\* a challenge was met no page is asked for. It does not hold: the depth pass
\* follows a first pass that was aborted, for the scholars before.
ChallengeEndsRun == [][Challenged => asked'.at # "request"]_passVars
=============================================================================
