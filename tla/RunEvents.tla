------------------------------- MODULE RunEvents -------------------------------
(***************************************************************************)
(* The live events of the runs: the registry of subscribers, the bounded   *)
(* queue of each, and the server-sent event streams that empty them.  It   *)
(* all lives in the memory of one event loop: every action below is one    *)
(* stretch between two awaits.  No event is stored: what was published     *)
(* while nobody was subscribed is gone.                                    *)
(***************************************************************************)
EXTENDS Naturals, Sequences

CONSTANTS
    Stream,     \* connections to /runs/{run_id}/stream
    Watched,    \* runs that are watched
    NoRun,
    QueueSize,  \* _SUBSCRIBER_QUEUE_MAXSIZE
    MaxEvents   \* events of one run, a bound

ASSUME EventsAssumption ==
    /\ NoRun \notin Watched
    /\ QueueSize \in Nat \ {0}
    /\ MaxEvents \in Nat

VARIABLES
    events,     \* events published for a run so far, numbered from 1
    entry,      \* runs that have an entry in _subscribers
    subs,       \* _subscribers, {} for a run without an entry
    view        \* stream: run, state, queued events, number of the last shown

eventVars == <<events, entry, subs, view>>

NoView == [run |-> NoRun, state |-> "none", queue |-> <<>>, last |-> 0]

EventsTypeOK ==
    /\ events \in [Watched -> 0..MaxEvents]
    /\ entry \subseteq Watched
    /\ subs \in [Watched -> SUBSET Stream]
    /\ \A s \in Stream :
        /\ view[s].run \in Watched \cup {NoRun}
        /\ view[s].state \in {"none", "found", "open"}
        /\ view[s].queue \in Seq(1..MaxEvents)
        /\ Len(view[s].queue) <= QueueSize

EventsInit ==
    /\ events = [r \in Watched |-> 0]
    /\ entry = {}
    /\ subs = [r \in Watched |-> {}]
    /\ view = [s \in Stream |-> NoView]

-----------------------------------------------------------------------------
\* stream_run_events finds the run, with a session of its own, and returns.
OpenStream(s, r) ==
    /\ view[s].state = "none"
    /\ view' = [view EXCEPT ![s] = [NoView EXCEPT !.run = r, !.state = "found"]]
    /\ UNCHANGED <<events, entry, subs>>

\* The body of the response starts: event_generator subscribes.
Subscribe(s) ==
    LET r == view[s].run
    IN  /\ view[s].state = "found"
        /\ entry' = entry \cup {r}
        /\ subs' = [subs EXCEPT ![r] = @ \cup {s}]
        /\ view' = [view EXCEPT ![s].state = "open", ![s].last = events[r]]
        /\ UNCHANGED events

Full(s) == Len(view[s].queue) >= QueueSize

Kept_Everybody(r) == subs[r]    \* seeded fault: only the event is dropped

\* publish discards a subscriber whose queue is full, and tells it nothing.
Kept(r) == {s \in subs[r] : ~Full(s)}

\* publish: the fan-out does not await, nothing comes between.
Publish(r) ==
    /\ events[r] < MaxEvents
    /\ events' = [events EXCEPT ![r] = @ + 1]
    /\ subs' = [subs EXCEPT ![r] = Kept(r)]
    /\ view' = [s \in Stream |->
                  IF s \in subs[r] /\ ~Full(s)
                  THEN [view[s] EXCEPT !.queue = Append(@, events[r] + 1)]
                  ELSE view[s]]
    /\ UNCHANGED entry

\* event_generator shows the first event of its queue.
Show(s) ==
    /\ view[s].state = "open"
    /\ view[s].queue # <<>>
    /\ view' = [view EXCEPT ![s].queue = Tail(@), ![s].last = Head(view[s].queue)]
    /\ UNCHANGED <<events, entry, subs>>

Forgotten_IfSubscribed(s, r) == s \in subs[r] /\ subs[r] = {s}  \* seeded fault

\* unsubscribe removes the entry with its last subscriber.
Forgotten(s, r) == subs[r] \subseteq {s}

\* The client leaves: the generator is cancelled, and unsubscribes.
Disconnect(s) ==
    LET r == view[s].run
    IN  /\ view[s].state = "open"
        /\ subs' = [subs EXCEPT ![r] = @ \ {s}]
        /\ entry' = IF Forgotten(s, r) THEN entry \ {r} ELSE entry
        /\ view' = [view EXCEPT ![s] = NoView]
        /\ UNCHANGED events

\* The client leaves before the body starts.
Abandon(s) ==
    /\ view[s].state = "found"
    /\ view' = [view EXCEPT ![s] = NoView]
    /\ UNCHANGED <<events, entry, subs>>

-----------------------------------------------------------------------------
EventsNext ==
    \/ \E s \in Stream :
        \/ \E r \in Watched : OpenStream(s, r)
        \/ Subscribe(s) \/ Show(s) \/ Disconnect(s) \/ Abandon(s)
    \/ \E r \in Watched : Publish(r)

EventsSpec == EventsInit /\ [][EventsNext]_eventVars

-----------------------------------------------------------------------------
\* A stream shows the events of its run one after the other, none twice and
\* none left out, from where it subscribed to where its queue overflowed: a
\* slow client is cut off, it is never shown a run with a hole in it.
ShownWithoutGaps ==
    [][\A s \in Stream :
        view[s].state = "open" /\ view'[s].state = "open" =>
            view'[s].last \in {view[s].last, view[s].last + 1}]_view

\* The run that somebody watches: a stream is watched while it is subscribed.
WatchedBy(s) == IF view[s].state = "open" THEN view[s].run ELSE NoRun
ToldTo(s) == IF view[s].state = "open" THEN view[s].last ELSE 0

Feed == INSTANCE LiveFeed WITH
    Watcher <- Stream, Run <- Watched, published <- events,
    watches <- [s \in Stream |-> WatchedBy(s)], told <- [s \in Stream |-> ToldTo(s)]

\* Whatever streams come, overflow and leave, and in whatever order, each
\* tells its client the events of its run since it subscribed, in order, each
\* once and none left out: a slow client is cut off, it is never shown a run
\* with a hole in it (events.py:19-92).
KeepsFeed == Feed!FeedSpec

\* The registry forgets a run with the last of its streams, in whatever order
\* the streams overflow and leave, and holds no stream that is gone.
RegistryHoldsOpenStreams ==
    /\ \A r \in Watched : subs[r] # {} => r \in entry
    /\ \A r \in Watched : \A s \in subs[r] : view[s].state = "open" /\ view[s].run = r
    /\ \A r \in entry : \E s \in Stream : view[s].state = "open" /\ view[s].run = r
=============================================================================
