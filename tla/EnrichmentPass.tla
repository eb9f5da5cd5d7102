---------------------------- MODULE EnrichmentPass ----------------------------
(***************************************************************************)
(* The enrichment that follows the scraping of a run: publications are     *)
(* sent to OpenAlex in chunks of titles, the identifiers of each are looked*)
(* up at Crossref and at arXiv, and duplicates are swept.  The run may be  *)
(* canceled at any moment, OpenAlex and arXiv may refuse, the session may  *)
(* break.  A chunk and a look-up take several requests, and only before    *)
(* they are begun is the cancel looked for.                                *)
(*                                                                         *)
(* Everything is written in one session, which is committed when the pass  *)
(* is over and rolled back when it raises.                                 *)
(***************************************************************************)
EXTENDS Naturals, Sequences, FiniteSets, SequencesExt

CONSTANTS
    Paper,      \* publications linked to scholars of the account
    TitleOf,    \* sanitized titles: two publications may have the same
    ChunkSize,  \* titles that fit in _MAX_TITLE_FILTER_BYTES, all of a length
    Attempts,   \* requests of get_works_by_filter that may fail in the network
    DateRanges, \* of _query_filters, for a publication with a year
    MaxPasses   \* runs of the account, a bound of the model

ASSUME EnrichConstants ==
    /\ IsFiniteSet(Paper)
    /\ ChunkSize \in Nat \ {0}
    /\ Attempts \in Nat \ {0}
    /\ DateRanges \in Nat \ {0}
    /\ MaxPasses \in Nat

VARIABLES
    kept,       \* committed: what is known of a publication
    held,       \* the same, as the session of the pass has it
    stage,      \* where the pass is
    loaded,     \* the publications of the pass, in the order of the query
    sent,       \* how many of their titles went out in chunks
    batch,      \* of the chunk at hand: <<place of a title, place of one of its
                \* publications>>, not yet looked up
    tries,      \* requests sent so far for the chunk or the look-up at hand
    arxivOn,    \* arxiv_lookup_allowed
    stopped,    \* the run is CANCELED
    heard,      \* history of a pass: refusals, requests after the cancel
    passes      \* passes begun

enrichVars == <<kept, held, stage, loaded, sent, batch, tries, arxivOn, stopped, heard,
                passes>>

Known == {"due", "tried", "enriched"}
Quiet == [arxiv |-> FALSE, openalex |-> FALSE, broken |-> FALSE, late |-> 0]

EnrichTypeOK ==
    /\ kept \in [Paper -> Known]
    /\ held \in [Paper -> Known]
    /\ stage \in {"idle", "chunk", "ask", "paper", "lookup", "match", "sweep",
                  "settle"}
    /\ loaded \in Seq(Paper)
    /\ sent \in 0..Len(loaded)
    /\ batch \subseteq (1..Len(loaded)) \X (1..Len(loaded))
    /\ tries \in Nat
    /\ arxivOn \in BOOLEAN
    /\ stopped \in BOOLEAN
    /\ heard \in [arxiv : BOOLEAN, openalex : BOOLEAN, broken : BOOLEAN, late : Nat]
    /\ passes \in 0..MaxPasses

EnrichInit ==
    /\ kept = [p \in Paper |-> "due"]
    /\ held = kept
    /\ stage = "idle"
    /\ loaded = <<>>
    /\ sent = 0
    /\ batch = {}
    /\ tries = 0
    /\ arxivOn = TRUE
    /\ stopped = FALSE
    /\ heard = Quiet
    /\ passes = 0

-----------------------------------------------------------------------------
(* Chunks and batches                                                      *)

\* _load_unenriched_publications: not enriched, not tried for a week.
Due == {p \in Paper : kept[p] = "due"}

\* _chunk_titles_by_url_length: a chunk is filled before the next is begun.
ChunkEnd == IF sent + ChunkSize < Len(loaded) THEN sent + ChunkSize ELSE Len(loaded)

\* The publications of the titles of the next chunk, by title_to_pubs; one
\* whose title is in the chunk twice is there twice.
NextBatch ==
    {e \in ((sent + 1)..ChunkEnd) \X (1..Len(loaded)) :
        TitleOf[loaded[e[1]]] = TitleOf[loaded[e[2]]]}

PapersOf(b) == {loaded[e[2]] : e \in b}

\* The batch is in the order of the titles, and under a title in that of the query.
AtHand(e) ==
    /\ e \in batch
    /\ \A f \in batch : e[1] < f[1] \/ (e[1] = f[1] /\ e[2] <= f[2])

SeesCancel_AtChunks == stage = "chunk" /\ stopped   \* seeded fault: not in a batch

\* run_is_canceled reads the row, before a chunk and before a publication.
SeesCancel == stopped

\* The requests sent after the cancel.
Late == [heard EXCEPT !.late = IF stopped THEN @ + 1 ELSE @]

-----------------------------------------------------------------------------
(* The pass                                                                *)

\* enrich_pending_publications; without work there is no sweep either.
BeginPass ==
    /\ stage = "idle"
    /\ passes < MaxPasses
    /\ passes' = passes + 1
    /\ held' = kept
    /\ arxivOn' = TRUE
    /\ stopped' = FALSE
    /\ heard' = Quiet
    /\ loaded' \in SetToSeqs(Due)
    /\ sent' = 0
    /\ stage' = IF Due = {} THEN "settle" ELSE "chunk"
    /\ UNCHANGED <<kept, batch, tries>>

\* The next chunk, if the run is not canceled. A canceled pass does not sweep.
NextChunk ==
    /\ stage = "chunk"
    /\ sent < Len(loaded)
    /\ stage' = IF SeesCancel THEN "settle" ELSE "ask"
    /\ UNCHANGED <<kept, held, loaded, sent, batch, tries, arxivOn, stopped, heard, passes>>

NoChunkLeft ==
    /\ stage = "chunk"
    /\ sent = Len(loaded)
    /\ stage' = "sweep"
    /\ UNCHANGED <<kept, held, loaded, sent, batch, tries, arxivOn, stopped, heard, passes>>

\* A request for the chunk or the look-up at hand, which others follow or not.
SendsOneMore == heard' = Late /\ tries' = tries + 1
SendsLast(mark) == heard' = mark /\ tries' = 0

\* get_works_by_filter, whose retry decorator sends the request again after a
\* network error or a timeout.
WorksRetried ==
    /\ stage = "ask"
    /\ tries + 1 < Attempts
    /\ SendsOneMore
    /\ UNCHANGED <<kept, held, stage, loaded, sent, batch, arxivOn, stopped, passes>>

\* It answers for the chunk.
WorksArrive ==
    /\ stage = "ask"
    /\ SendsLast(Late)
    /\ batch' = NextBatch
    /\ sent' = ChunkEnd
    /\ stage' = "paper"
    /\ UNCHANGED <<kept, held, loaded, arxivOn, stopped, passes>>

\* OpenAlexBudgetExhaustedError: nothing more is sent, what there is is swept.
BudgetExhausted ==
    /\ stage = "ask"
    /\ SendsLast([Late EXCEPT !.openalex = TRUE])
    /\ sent' = ChunkEnd
    /\ stage' = "sweep"
    /\ UNCHANGED <<kept, held, loaded, batch, arxivOn, stopped, passes>>

\* OpenAlexRateLimitError: the chunk is left for another run.
ChunkRefused ==
    /\ stage = "ask"
    /\ SendsLast(Late)
    /\ sent' = ChunkEnd
    /\ stage' = "chunk"
    /\ UNCHANGED <<kept, held, loaded, batch, arxivOn, stopped, passes>>

Tried(papers) ==
    [p \in Paper |-> IF p \in papers /\ held[p] = "due" THEN "tried" ELSE held[p]]

\* Any other error, or the last attempt in vain: the chunk counts as tried.
ChunkFails ==
    /\ stage = "ask"
    /\ SendsLast(Late)
    /\ held' = Tried(PapersOf(NextBatch))
    /\ sent' = ChunkEnd
    /\ stage' = "chunk"
    /\ UNCHANGED <<kept, loaded, batch, arxivOn, stopped, passes>>

\* _enrich_batch, for the next publication.
NextPaper ==
    /\ stage = "paper"
    /\ \E e \in batch :
        /\ AtHand(e)
        /\ IF SeesCancel
           THEN stage' = "settle" /\ UNCHANGED held
           ELSE stage' = "lookup" /\ held' = Tried({loaded[e[2]]})
    /\ UNCHANGED <<kept, loaded, sent, batch, tries, arxivOn, stopped, heard, passes>>

BatchDone ==
    /\ stage = "paper"
    /\ batch = {}
    /\ stage' = "chunk"
    /\ UNCHANGED <<kept, held, loaded, sent, batch, tries, arxivOn, stopped, heard, passes>>

\* discover_and_sync_identifiers_for_publication asks Crossref for one range of
\* years after the other, until one answer has a DOI. An error is no answer.
CrossrefMisses ==
    /\ stage = "lookup"
    /\ arxivOn
    /\ tries < DateRanges
    /\ SendsOneMore
    /\ UNCHANGED <<kept, held, stage, loaded, sent, batch, arxivOn, stopped, passes>>

\* A DOI is found, and arXiv need not be asked.
CrossrefFinds ==
    /\ stage = "lookup"
    /\ arxivOn
    /\ tries < DateRanges
    /\ SendsLast(Late)
    /\ stage' = "match"
    /\ UNCHANGED <<kept, held, loaded, sent, batch, arxivOn, stopped, passes>>

\* Crossref was asked in vain: once for a publication without a year, and not
\* at all where its title gives no query.
RangesAsked == tries \in {0, 1, DateRanges}

\* A DOI was known before, or arxiv_skip_reason_for_item has its reason.
ArxivSkipped ==
    /\ stage = "lookup"
    /\ arxivOn
    /\ RangesAsked
    /\ tries' = 0
    /\ stage' = "match"
    /\ UNCHANGED <<kept, held, loaded, sent, batch, arxivOn, stopped, heard, passes>>

\* _discover_arxiv_identifier: arXiv is asked and answers, or fails.
ArxivAnswers ==
    /\ stage = "lookup"
    /\ arxivOn
    /\ RangesAsked
    /\ SendsLast([Late EXCEPT !.broken = @ \/ heard.arxiv])
    /\ stage' = "match"
    /\ UNCHANGED <<kept, held, loaded, sent, batch, arxivOn, stopped, passes>>

\* ArxivRateLimitError: no more lookups in this pass, and the identifiers are
\* taken from the fields of the publication.
ArxivRefuses ==
    /\ stage = "lookup"
    /\ arxivOn
    /\ RangesAsked
    /\ SendsLast([Late EXCEPT !.broken = @ \/ heard.arxiv, !.arxiv = TRUE])
    /\ arxivOn' = FALSE
    /\ stage' = "match"
    /\ UNCHANGED <<kept, held, loaded, sent, batch, stopped, passes>>

\* sync_identifiers_for_publication_fields alone: nothing is requested.
FieldsOnly ==
    /\ stage = "lookup"
    /\ ~arxivOn
    /\ stage' = "match"
    /\ UNCHANGED <<kept, held, loaded, sent, batch, tries, arxivOn, stopped, heard, passes>>

\* find_best_match among the works of the chunk, or none that is near enough.
Match(found) ==
    /\ stage = "match"
    /\ \E e \in batch :
        /\ AtHand(e)
        /\ held' = IF found THEN [held EXCEPT ![loaded[e[2]]] = "enriched"] ELSE held
        /\ batch' = batch \ {e}
    /\ stage' = "paper"
    /\ UNCHANGED <<kept, loaded, sent, tries, arxivOn, stopped, heard, passes>>

\* _flush_and_sweep_duplicates
Sweep ==
    /\ stage = "sweep"
    /\ stage' = "settle"
    /\ UNCHANGED <<kept, held, loaded, sent, batch, tries, arxivOn, stopped, heard, passes>>

PassEnds ==
    /\ stage' = "idle"
    /\ loaded' = <<>> /\ sent' = 0 /\ batch' = {} /\ tries' = 0
    /\ UNCHANGED <<arxivOn, stopped, heard, passes>>

\* background_enrich and inline_enrich_and_finalize commit the session, also
\* after a pass that was cut short.
CommitPass ==
    /\ stage = "settle"
    /\ kept' = held
    /\ PassEnds
    /\ UNCHANGED held

\* An exception leaves the pass, out of the sweep for instance: the session is
\* rolled back, and what was tried will be tried again.
PassRaises ==
    /\ stage # "idle"
    /\ held' = kept
    /\ PassEnds
    /\ UNCHANGED kept

\* cancel_run, in another session.
StopRun ==
    /\ stage # "idle"
    /\ ~stopped
    /\ stopped' = TRUE
    /\ UNCHANGED <<kept, held, stage, loaded, sent, batch, tries, arxivOn, heard, passes>>

\* A week has passed since p was tried.
WeekPasses(p) ==
    /\ stage = "idle"
    /\ kept[p] = "tried"
    /\ kept' = [kept EXCEPT ![p] = "due"]
    /\ UNCHANGED <<held, stage, loaded, sent, batch, tries, arxivOn, stopped, heard,
                    passes>>

EnrichNext ==
    \/ BeginPass \/ NextChunk \/ NoChunkLeft
    \/ WorksRetried \/ WorksArrive \/ BudgetExhausted \/ ChunkRefused \/ ChunkFails
    \/ NextPaper \/ BatchDone \/ CrossrefMisses \/ CrossrefFinds
    \/ ArxivSkipped \/ ArxivAnswers \/ ArxivRefuses \/ FieldsOnly
    \/ \E found \in BOOLEAN : Match(found)
    \/ Sweep \/ CommitPass \/ PassRaises \/ StopRun
    \/ \E p \in Paper : WeekPasses(p)

EnrichSpec == EnrichInit /\ [][EnrichNext]_enrichVars
-----------------------------------------------------------------------------
(* Properties                                                              *)

\* The requests of a chunk, or those of a look-up: Crossref's and arXiv's.
MostOfAUnit == IF Attempts > DateRanges THEN Attempts ELSE DateRanges + 1

\* A pass that was told to stop stops (enrichment.py:131-134, 209-212, 223-225,
\* 255-265, 280-297): after the cancel of its run no further chunk is sent and
\* no further publication looked up, so that only the requests still go out of
\* the one chunk or publication it had begun, retries and all; after a refusal
\* of arXiv no publication of the pass, in this chunk or a later one, is looked
\* up there; and an exhausted budget is the last that OpenAlex hears of it.
AsksNoMore ==
    /\ heard.late <= MostOfAUnit
    /\ ~heard.broken
    /\ heard.openalex => stage \notin {"chunk", "ask"}

\* "Build a mapping from sanitized title to publications for batch
\* association" (enrichment.py:194): a publication is looked up once. It does
\* not hold: publications of one title put it into the chunks once each, and
\* each time it stands for all of them.
LookedUpOnce ==
    [][stage = "paper" /\ stage' = "lookup" => 
        \A e \in batch : AtHand(e) => held[loaded[e[2]]] = "due"]_enrichVars
=============================================================================
