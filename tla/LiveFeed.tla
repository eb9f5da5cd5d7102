------------------------------- MODULE LiveFeed -------------------------------
(***************************************************************************)
(* What somebody who watches a run is promised of its live events: to be   *)
(* told those that come after the first look, in their order and each      *)
(* once, with none left out before the last one told.  A watcher may be    *)
(* told less than there is, for ever.  No registry, queue or connection    *)
(* appears.                                                                *)
(***************************************************************************)
EXTENDS Naturals

CONSTANTS Watcher, Run, NoRun

VARIABLES
    published,  \* events of a run so far
    watches,    \* the run somebody watches, or NoRun
    told        \* number of the last event a watcher was told, or came after

feedVars == <<published, watches, told>>

FeedInit ==
    /\ published = [r \in Run |-> 0]
    /\ watches = [w \in Watcher |-> NoRun]
    /\ told = [w \in Watcher |-> 0]

\* An event, whoever watches.
Happen(r) ==
    /\ published' = [published EXCEPT ![r] = @ + 1]
    /\ UNCHANGED <<watches, told>>

\* What has happened before is not told.
Join(w, r) ==
    /\ watches[w] = NoRun
    /\ watches' = [watches EXCEPT ![w] = r]
    /\ told' = [told EXCEPT ![w] = published[r]]
    /\ UNCHANGED published

\* The next event, which has happened.
Tell(w) ==
    /\ watches[w] # NoRun
    /\ told[w] < published[watches[w]]
    /\ told' = [told EXCEPT ![w] = @ + 1]
    /\ UNCHANGED <<published, watches>>

Leave(w) ==
    /\ watches[w] # NoRun
    /\ watches' = [watches EXCEPT ![w] = NoRun]
    /\ told' = [told EXCEPT ![w] = 0]
    /\ UNCHANGED published

FeedNext ==
    \/ \E r \in Run : Happen(r)
    \/ \E w \in Watcher : (\E r \in Run : Join(w, r)) \/ Tell(w) \/ Leave(w)

FeedSpec == FeedInit /\ [][FeedNext]_feedVars
=============================================================================
