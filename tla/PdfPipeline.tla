----------------------------- MODULE PdfPipeline -----------------------------
(***************************************************************************)
(* How a resolution task looks for the PDFs of its batch of publications:  *)
(* OpenAlex, then arXiv through its gate, then Unpaywall with the DOI that *)
(* is known and, where that does not do, with the one Crossref finds.      *)
(*                                                                         *)
(* Unpaywall and Crossref have one slot each per process.  The first is    *)
(* kept by an asyncio lock while its holder sleeps; the second is read     *)
(* under a thread lock that is free again during the sleep, by worker      *)
(* threads that outlive the timeout of the task that started them.         *)
(***************************************************************************)
EXTENDS ArxivGate

CONSTANTS
    Task,         \* resolution tasks of one process
    Worker,       \* threads of the process's default executor
    BatchSize,    \* rows of a batch
    Attempts,     \* openalex.client: stop_after_attempt
    Ranges,       \* date ranges that discover_doi_for_publication tries
    Crawls,       \* bound on the pages and candidates one crawl fetches
    SlotInterval, \* unpaywall_ and crossref_min_interval_seconds
    Budget        \* unpaywall.crossref_max_lookups_per_request

ASSUME PipelineAssumption ==
    /\ Task \subseteq Caller
    /\ \A t, u \in Task : ProcessOf[t] = ProcessOf[u]
    /\ {BatchSize, Attempts, Ranges, Crawls, SlotInterval, Budget} \subseteq Nat
    /\ Query # {}

VARIABLES
    row,       \* what each task does, and what it knows of the row it is at
    unpaywall, \* holder of _REQUEST_LOCK, ticks until its slot is free
    crossref,  \* ticks until the slot read from _LAST_REQUEST_AT is free
    worker,    \* threads: whose fetch it is, ticks to sleep
    quiet      \* ticks since the last request to Unpaywall, up to the interval

pipelineVars == <<row, unpaywall, crossref, worker, quiet>>
vars == <<gateVars, pipelineVars>>

Stage == {"idle", "openalex", "arxiv", "unpaywall", "slot", "payload",
          "crossref", "items", "crawl", "persist"}

NoRow == [at |-> "idle", left |-> 0, allow |-> TRUE, tries |-> 0, doi |-> FALSE,
          payload |-> "none", used |-> FALSE, wait |-> 0, limited |-> FALSE, pdf |-> FALSE]
Free == [task |-> None, pc |-> "free", wait |-> 0]

PipelineTypeOK ==
    /\ GateTypeOK
    /\ row \in [Task -> [at : Stage, left : 0..BatchSize, allow : BOOLEAN, tries : Nat,
                         doi : BOOLEAN, payload : {"none", "direct", "landing"},
                         used : BOOLEAN, wait : 0..SlotInterval, limited : BOOLEAN,
                         pdf : BOOLEAN]]
    /\ unpaywall \in [holder : Task \cup {None}, next : 0..SlotInterval]
    /\ crossref \in 0..SlotInterval
    /\ worker \in [Worker -> [task : Task \cup {None}, pc : {"free", "sleep", "request"},
                              wait : 0..SlotInterval]]
    /\ quiet \in 0..SlotInterval
    /\ \A t \in Task : ~At(t, "idle") => row[t].at = "arxiv"

Init ==
    /\ GateInit
    /\ row = [t \in Task |-> NoRow]
    /\ unpaywall = [holder |-> None, next |-> 0]
    /\ crossref = 0
    /\ worker = [w \in Worker |-> Free]
    /\ quiet = SlotInterval

-----------------------------------------------------------------------------
(* The batch                                                               *)

Is(t, stage) == row[t].at = stage

Become(t, new) == row' = [row EXCEPT ![t] = new]

\* The row ends; what was found, and whether arXiv turned the task down.
Ended(t, pdf) == [row[t] EXCEPT !.at = "persist", !.pdf = pdf]

\* schedule_rows: a task for a batch; the first row goes to OpenAlex, unless
\* nothing of its title is left to search for.
Begun(at, doi, left, allow) ==
    [NoRow EXCEPT !.at = at, !.left = left, !.allow = allow, !.doi = doi]

NextRow(left, allow) ==
    {Begun(at, doi, left, allow) : at \in {"openalex", "arxiv"}, doi \in BOOLEAN}

Schedule(t) ==
    /\ Is(t, "idle")
    /\ \E r \in NextRow(BatchSize, TRUE) : Become(t, r)
    /\ UNCHANGED <<gateVars, unpaywall, crossref, worker, quiet>>

\* The outcome is persisted and the batch goes on; a rate limit of arXiv
\* keeps the rest of the batch away from it.
Persist(t) ==
    /\ Is(t, "persist")
    /\ \/ /\ row[t].left > 1
          /\ \E r \in NextRow(row[t].left - 1, row[t].allow /\ ~row[t].limited) : Become(t, r)
       \/ row[t].left <= 1 /\ Become(t, NoRow)
    /\ UNCHANGED <<gateVars, unpaywall, crossref, worker, quiet>>

-----------------------------------------------------------------------------
(* OpenAlex and arXiv                                                      *)

\* A network error is tried again; the budget's end stops the batch; any
\* other error counts as nothing found.
AskOpenAlex(t) ==
    /\ Is(t, "openalex")
    /\ \/ Become(t, Ended(t, TRUE))
       \/ Become(t, [row[t] EXCEPT !.at = "arxiv", !.tries = 0])
       \/ row[t].tries + 1 < Attempts /\ Become(t, [row[t] EXCEPT !.tries = @ + 1])
       \/ Become(t, [Ended(t, FALSE) EXCEPT !.left = 0])
    /\ UNCHANGED <<gateVars, unpaywall, crossref, worker, quiet>>

\* Not asked: the batch was turned away, or the row has an identifier, a DOI
\* or a title too poor to search for, or arXiv is switched off.
SkipArxiv(t) ==
    /\ Is(t, "arxiv") /\ At(t, "idle")
    /\ Become(t, [row[t] EXCEPT !.at = "unpaywall"])
    /\ UNCHANGED <<gateVars, unpaywall, crossref, worker, quiet>>

AskArxiv(t) ==
    /\ Is(t, "arxiv") /\ row[t].allow
    /\ \E q \in Query : Call(t, q)
    /\ UNCHANGED pipelineVars

\* An answer names an identifier or none; errors count as none.
FromArxiv(t) ==
    /\ Is(t, "arxiv") /\ TakeAnswer(t)
    /\ \/ call[t].answer = "feed" /\ Become(t, Ended(t, TRUE))
       \/ Become(t, [row[t] EXCEPT !.at = "unpaywall", !.limited = call[t].answer = "limited"])
    /\ UNCHANGED <<unpaywall, crossref, worker, quiet>>

-----------------------------------------------------------------------------
(* Unpaywall                                                               *)

\* resolve_publication_oa_outcomes, _resolve_item_payload: by the DOI of the
\* row, or by Crossref; switched off or without an email, nothing.
AskUnpaywall(t) ==
    /\ Is(t, "unpaywall")
    /\ \/ Become(t, Ended(t, FALSE))
       \/ row[t].doi /\ Become(t, [row[t] EXCEPT !.at = "slot"])
       \/ ~row[t].doi /\ Budget > 0 /\ Become(t, [row[t] EXCEPT !.at = "crossref"])
    /\ UNCHANGED <<gateVars, unpaywall, crossref, worker, quiet>>

\* Seeded fault: the lock is not taken.
EnterSlot_Unlocked(t) ==
    /\ Is(t, "slot")
    /\ Become(t, [row[t] EXCEPT !.at = "payload", !.wait = unpaywall.next])
    /\ UNCHANGED <<gateVars, unpaywall, crossref, worker, quiet>>

\* wait_for_unpaywall_slot, up to the sleep.
EnterSlot(t) ==
    /\ Is(t, "slot") /\ unpaywall.holder = None
    /\ unpaywall' = [unpaywall EXCEPT !.holder = t]
    /\ Become(t, [row[t] EXCEPT !.at = "payload", !.wait = unpaywall.next])
    /\ UNCHANGED <<gateVars, crossref, worker, quiet>>

\* The lock is given back and the interval starts again.
SlotTaken(t) ==
    [holder |-> IF unpaywall.holder = t THEN None ELSE unpaywall.holder,
     next |-> SlotInterval]

\* Awake: the slot is taken, the request sent; what comes back is a page of
\* the crawl, or the payload: none, with a PDF, or with landing pages only.
TakeUnpaywallSlot(t) ==
    /\ Is(t, "payload") /\ row[t].wait = 0
    /\ unpaywall' = SlotTaken(t)
    /\ quiet' = 0
    /\ \/ Become(t, Ended(t, FALSE))
       \/ /\ row[t].tries > 0
          /\ \/ Become(t, Ended(t, TRUE))
             \/ Become(t, [row[t] EXCEPT !.at = "crawl"])
       \/ /\ row[t].tries = 0
          /\ \/ Become(t, [Ended(t, TRUE) EXCEPT !.payload = "direct"])
             \/ \E p \in {"none", "landing"} :
                   Become(t, [row[t] EXCEPT !.payload = IF p = "none" THEN @ ELSE p,
                                            !.at = IF row[t].used \/ Budget = 0
                                                   THEN "crawl" ELSE "crossref"])
    /\ UNCHANGED <<gateVars, crossref, worker>>

\* _resolved_pdf_url_from_payload: page by page, each through the slot.
Crawl(t) ==
    /\ Is(t, "crawl")
    /\ \/ /\ row[t].payload = "landing" /\ row[t].tries < Crawls
          /\ Become(t, [row[t] EXCEPT !.at = "slot", !.tries = @ + 1])
       \/ row[t].payload = "none" /\ Become(t, Ended(t, FALSE))
       \/ row[t].tries >= Crawls /\ Become(t, Ended(t, FALSE))
    /\ UNCHANGED <<gateVars, unpaywall, crossref, worker, quiet>>

-----------------------------------------------------------------------------
(* Crossref                                                                *)

\* A worker thread takes the fetch and reads how long the slot is taken.
StartFetch(t) ==
    /\ Is(t, "crossref")
    /\ \E w \in Worker :
          /\ worker[w] = Free
          /\ worker' = [worker EXCEPT ![w] = [task |-> t, pc |-> "sleep", wait |-> crossref]]
    /\ Become(t, [row[t] EXCEPT !.at = "items"])
    /\ UNCHANGED <<gateVars, unpaywall, crossref, quiet>>

\* _rate_limit_wait after its sleep: the slot is taken, the request sent.
TakeCrossrefSlot(w) ==
    /\ worker[w].pc = "sleep" /\ worker[w].wait = 0
    /\ crossref' = SlotInterval
    /\ worker' = [worker EXCEPT ![w].pc = "request"]
    /\ UNCHANGED <<gateVars, row, unpaywall, quiet>>

\* What the row does with the items of one date range: a DOI that is not the
\* one it has, the same one, or none, which moves it to the next range.
Judged(t) ==
    {[row[t] EXCEPT !.at = "slot", !.used = TRUE, !.tries = 0],
     [row[t] EXCEPT !.at = "crawl", !.tries = 0]}
    \cup IF row[t].tries + 1 < Ranges
         THEN {[row[t] EXCEPT !.at = "crossref", !.tries = @ + 1]} ELSE {}

\* The thread ends; the task goes on unless it gave up.
EndFetch(w) ==
    LET t == worker[w].task IN
    /\ worker[w].pc = "request"
    /\ worker' = [worker EXCEPT ![w] = Free]
    /\ IF t = None THEN UNCHANGED row ELSE \E r \in Judged(t) : Become(t, r)
    /\ UNCHANGED <<gateVars, unpaywall, crossref, quiet>>

\* Seeded fault: the task waits for its thread for ever.
GiveUp_Never(t) == FALSE /\ UNCHANGED vars

\* asyncio.wait_for gives up, also on a fetch no thread has begun; the thread
\* goes on and the task has no items.
GiveUp(t) ==
    /\ row[t].at \in {"items", "crossref"}
    /\ worker' = [w \in Worker |-> IF worker[w].task = t THEN [worker[w] EXCEPT !.task = None]
                                   ELSE worker[w]]
    /\ IF row[t].tries + 1 < Ranges
       THEN Become(t, [row[t] EXCEPT !.at = "crossref", !.tries = @ + 1])
       ELSE Become(t, [row[t] EXCEPT !.at = "crawl", !.tries = 0])
    /\ UNCHANGED <<gateVars, unpaywall, crossref, quiet>>

-----------------------------------------------------------------------------
(* The system                                                              *)

Tick ==
    /\ GateTick
    /\ row' = [t \in Task |-> [row[t] EXCEPT !.wait = Down(@)]]
    /\ unpaywall' = [unpaywall EXCEPT !.next = Down(@)]
    /\ crossref' = Down(crossref)
    /\ worker' = [w \in Worker |-> [worker[w] EXCEPT !.wait = Down(@)]]
    /\ quiet' = Up(quiet, SlotInterval)

\* A process stops; the one of the tasks takes them and their threads along.
Stop(p) ==
    /\ StopGate(p)
    /\ IF \E t \in Task : ProcessOf[t] = p
       THEN /\ row' = [t \in Task |-> NoRow]
            /\ unpaywall' = [holder |-> None, next |-> 0]
            /\ crossref' = 0
            /\ worker' = [w \in Worker |-> Free]
            /\ quiet' = SlotInterval
       ELSE UNCHANGED pipelineVars

RowStep(t) ==
    \/ AskOpenAlex(t) \/ SkipArxiv(t) \/ AskArxiv(t) \/ FromArxiv(t)
    \/ AskUnpaywall(t) \/ EnterSlot(t) \/ TakeUnpaywallSlot(t) \/ Crawl(t)
    \/ StartFetch(t) \/ GiveUp(t) \/ Persist(t)

\* A caller that is no task of a batch: the enrichment of a run.
Enrich(c) == Call(c, CHOOSE q \in Query : TRUE) \/ TakeAnswer(c)

Next ==
    \/ \E t \in Task : Schedule(t) \/ RowStep(t)
    \/ \E c \in Caller : GateStep(c) /\ UNCHANGED pipelineVars
    \/ \E c \in Caller \ Task : Enrich(c) /\ UNCHANGED pipelineVars
    \/ \E w \in Worker : TakeCrossrefSlot(w) \/ EndFetch(w)
    \/ \E p \in Process : Stop(p)
    \/ Tick

Spec == Init /\ [][Next]_vars

\* Requests answer or time out and time passes; a thread need not end.
Fairness ==
    /\ \A t \in Task : WF_vars(RowStep(t)) /\ SF_vars(EnterSlot(t))
    /\ \A c \in Caller : /\ WF_vars(GateStep(c) /\ UNCHANGED pipelineVars)
                         /\ SF_vars(Acquire(c) /\ UNCHANGED pipelineVars)
    /\ WF_vars(Tick)

FairSpec == Spec /\ Fairness

-----------------------------------------------------------------------------
(* Properties                                                              *)

\* Requests to Unpaywall, and the pages its payloads lead to, are spaced by
\* the interval whatever the tasks of the process do (unpaywall/rate_limit.py:10-18).
UnpaywallSpaced ==
    [][\A t \in Task : Is(t, "payload") /\ row'[t].at \notin {"payload", "idle"} =>
          quiet >= SlotInterval]_vars

\* A row that is begun is decided, whatever the four services do, unless the
\* process stops: a thread that hangs and a gate that is shut hold no task up
\* (pdf_resolution_pipeline.py:25-54, crossref/application.py:332-356).
RowDecided == \A t \in Task : Is(t, "openalex") \/ Is(t, "arxiv") ~> row[t].at \in {"persist", "idle"}
=============================================================================
