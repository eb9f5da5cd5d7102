---------------------------- MODULE LivePartsProofs ----------------------------
(***************************************************************************)
(* The parts around a run, each for every value of its constants: the      *)
(* enrichment of a run, the start of a manual run, the live events and the *)
(* gated sessions.  They share no state, and each section has the          *)
(* inductive invariant of its part, the lemmas about its steps, and the    *)
(* theorems that follow.                                                   *)
(***************************************************************************)
EXTENDS MCLive, RunPassesProofs, SequenceTheorems, FiniteSetTheorems, TLAPS

(***************************************************************************)
(* EnrichmentPass, for any set of publications, any titles and any size of *)
(* a chunk: a pass that was told to stop, by the cancel of its run or by a *)
(* service that refuses, stops.                                            *)
(*                                                                         *)
(* The argument: a request that goes out after the cancel belongs to a     *)
(* chunk or to a look-up that was begun before it, and no other is begun   *)
(* after it, because the row is read before each chunk and before each     *)
(* publication.  The late requests are then some of those counted for the  *)
(* unit at hand, and what a unit can send is bounded.                      *)
(***************************************************************************)

\* What the unit at hand has sent, with room for the request that ends it.
WithinUnit ==
    /\ tries \in Nat
    /\ stage = "ask" => tries < Attempts
    /\ stage = "lookup" => tries <= DateRanges /\ (tries > 0 => arxivOn)
    /\ stage \notin {"ask", "lookup"} => tries = 0

\* What went out after the cancel went out for one unit.
CancelSeen ==
    /\ heard.late > 0 => stopped
    /\ heard.late <= MostOfAUnit
    /\ stage \in {"ask", "lookup"} => heard.late <= tries

RefusalsSeen ==
    /\ ~heard.broken
    /\ heard.arxiv => ~arxivOn
    /\ heard.openalex => stage \in {"sweep", "settle", "idle"}

PassStops ==
    /\ heard \in [arxiv : BOOLEAN, openalex : BOOLEAN, broken : BOOLEAN, late : Nat]
    /\ WithinUnit
    /\ CancelSeen
    /\ RefusalsSeen

\* A request belongs to its unit, and so does the late one.
LEMMA RequestStep ==
    ASSUME PassStops, stage \in {"ask", "lookup"}, UNCHANGED stopped,
           \/ /\ stage' = stage /\ tries' = tries + 1
              /\ stage = "ask" => tries + 1 < Attempts
              /\ stage = "lookup" => tries < DateRanges /\ arxivOn'
           \/ stage' \notin {"ask", "lookup"} /\ tries' = 0,
           heard'.late = Late.late
    PROVE  WithinUnit' /\ CancelSeen'
<1>1. /\ heard.late \in Nat /\ tries \in Nat /\ heard.late <= tries
      /\ heard.late > 0 => stopped
      /\ stage = "ask" => tries < Attempts
      /\ stage = "lookup" => tries <= DateRanges
  BY DEF PassStops, CancelSeen, WithinUnit
<1>2. /\ heard'.late = IF stopped THEN heard.late + 1 ELSE heard.late
      /\ heard'.late \in Nat
  BY <1>1 DEF Late, PassStops
<1>3. /\ Attempts \in Nat /\ DateRanges \in Nat /\ MostOfAUnit \in Nat
      /\ MostOfAUnit >= Attempts /\ MostOfAUnit >= DateRanges + 1
  BY EnrichConstants DEF MostOfAUnit
<1>4. heard'.late <= tries + 1 /\ tries + 1 <= MostOfAUnit
  BY <1>1, <1>2, <1>3
<1>5. heard'.late <= MostOfAUnit
  BY <1>1, <1>2, <1>3, <1>4
<1>6. heard'.late > 0 => stopped'
  BY <1>1, <1>2
<1>7. WithinUnit'
  BY <1>1, <1>3 DEF WithinUnit
<1>8. stage' \in {"ask", "lookup"} => heard'.late <= tries'
  BY <1>4
<1> QED
  BY <1>5, <1>6, <1>7, <1>8 DEF CancelSeen, MostOfAUnit

LEMMA OpenAlexStep ==
    ASSUME PassStops,
           WorksRetried \/ WorksArrive \/ BudgetExhausted \/ ChunkRefused \/ ChunkFails
    PROVE  PassStops'
<1>1. /\ stage = "ask" /\ UNCHANGED <<arxivOn, stopped>>
      /\ \/ stage' = stage /\ tries' = tries + 1 /\ tries + 1 < Attempts
         \/ stage' \in {"paper", "sweep", "chunk"} /\ tries' = 0
      /\ heard' = Late \/ (heard' = [Late EXCEPT !.openalex = TRUE] /\ stage' = "sweep")
  BY DEF WorksRetried, WorksArrive, BudgetExhausted, ChunkRefused, ChunkFails,
         SendsOneMore, SendsLast
<1>2. /\ Late \in [arxiv : BOOLEAN, openalex : BOOLEAN, broken : BOOLEAN, late : Nat]
      /\ Late.arxiv = heard.arxiv /\ Late.openalex = heard.openalex
      /\ Late.broken = heard.broken
  BY DEF Late, PassStops
<1>3. heard'.late = Late.late
  BY <1>1, <1>2
<1>4. WithinUnit' /\ CancelSeen'
  BY <1>1, <1>3, RequestStep
<1>5. RefusalsSeen'
  BY <1>1, <1>2 DEF PassStops, RefusalsSeen
<1> QED
  BY <1>1, <1>2, <1>4, <1>5 DEF PassStops

LEMMA LookupStep ==
    ASSUME PassStops, CrossrefMisses \/ CrossrefFinds \/ ArxivAnswers \/ ArxivRefuses
    PROVE  PassStops'
<1>1. /\ stage = "lookup" /\ arxivOn /\ UNCHANGED stopped
      /\ \/ stage' = stage /\ tries' = tries + 1 /\ tries < DateRanges /\ arxivOn'
         \/ stage' = "match" /\ tries' = 0
      /\ \/ heard' = Late /\ arxivOn'
         \/ heard' = [Late EXCEPT !.broken = @ \/ heard.arxiv] /\ arxivOn'
         \/ heard' = [Late EXCEPT !.broken = @ \/ heard.arxiv, !.arxiv = TRUE] /\ ~arxivOn'
  BY DEF CrossrefMisses, CrossrefFinds, ArxivAnswers, ArxivRefuses, SendsOneMore, SendsLast
<1>2. /\ Late \in [arxiv : BOOLEAN, openalex : BOOLEAN, broken : BOOLEAN, late : Nat]
      /\ Late.arxiv = heard.arxiv /\ Late.openalex = heard.openalex
      /\ Late.broken = heard.broken
  BY DEF Late, PassStops
<1>3. ~heard.arxiv /\ ~heard.openalex /\ ~heard.broken
  BY <1>1 DEF PassStops, RefusalsSeen
<1>4. /\ heard' \in [arxiv : BOOLEAN, openalex : BOOLEAN, broken : BOOLEAN, late : Nat]
      /\ heard'.late = Late.late /\ ~heard'.broken /\ ~heard'.openalex
      /\ heard'.arxiv => ~arxivOn'
  BY <1>1, <1>2, <1>3
<1>5. WithinUnit' /\ CancelSeen'
  BY <1>1, <1>4, RequestStep
<1> QED
  BY <1>4, <1>5 DEF PassStops, RefusalsSeen

\* A pass begins with nothing heard, and begins no unit after a cancel.
LEMMA QuietStep ==
    ASSUME PassStops,
           \/ BeginPass \/ NextChunk \/ NoChunkLeft \/ NextPaper \/ BatchDone
           \/ ArxivSkipped \/ FieldsOnly
           \/ \E found \in BOOLEAN : Match(found)
           \/ Sweep \/ CommitPass \/ PassRaises \/ StopRun
           \/ \E p \in Paper : WeekPasses(p)
    PROVE  PassStops'
<1>0. /\ Attempts \in Nat \ {0} /\ DateRanges \in Nat \ {0}
      /\ MostOfAUnit \in Nat /\ MostOfAUnit' = MostOfAUnit
      /\ heard.late \in Nat /\ tries \in Nat
  BY EnrichConstants DEF MostOfAUnit, PassStops, WithinUnit
<1>1. CASE BeginPass
  BY <1>0, <1>1 DEF BeginPass, Quiet, PassStops, WithinUnit, CancelSeen, RefusalsSeen
<1>2. CASE NextChunk \/ NoChunkLeft \/ NextPaper \/ BatchDone
  <2>1. /\ stage \in {"chunk", "paper"} /\ UNCHANGED <<heard, tries, arxivOn, stopped>>
        /\ stage' \in {"settle", "ask", "sweep", "lookup", "chunk"}
        /\ stage' \in {"ask", "lookup"} => ~stopped
    BY <1>2 DEF NextChunk, NoChunkLeft, NextPaper, BatchDone, SeesCancel
  <2>2. ~heard.openalex /\ tries = 0
    BY <2>1 DEF PassStops, RefusalsSeen, WithinUnit
  <2>3. WithinUnit'
    BY <1>0, <2>1, <2>2 DEF WithinUnit
  <2>4. ~stopped => heard.late = 0
    BY <1>0 DEF PassStops, CancelSeen
  <2>5. CancelSeen'
    BY <1>0, <2>1, <2>2, <2>4 DEF PassStops, CancelSeen
  <2> QED
    BY <2>1, <2>2, <2>3, <2>5 DEF PassStops, RefusalsSeen
<1>3. CASE \/ ArxivSkipped \/ FieldsOnly \/ Sweep \/ \E found \in BOOLEAN : Match(found)
  <2>1. /\ stage \in {"lookup", "sweep", "match"} /\ stage' \in {"match", "settle", "paper"}
        /\ stage = "match" => stage' = "paper"
        /\ stage = "sweep" => stage' = "settle"
        /\ tries' \in {0, tries} /\ (stage = "lookup" /\ arxivOn => tries' = 0)
        /\ UNCHANGED <<heard, arxivOn, stopped>>
    BY <1>3 DEF ArxivSkipped, FieldsOnly, Sweep, Match
  <2>2. tries' = 0
    BY <1>0, <2>1 DEF PassStops, WithinUnit
  <2>3. WithinUnit' /\ CancelSeen'
    BY <1>0, <2>1, <2>2 DEF PassStops, WithinUnit, CancelSeen
  <2> QED
    BY <2>1, <2>3 DEF PassStops, RefusalsSeen
<1>4. CASE CommitPass \/ PassRaises
  BY <1>0, <1>4
     DEF CommitPass, PassRaises, PassEnds, PassStops, WithinUnit, CancelSeen, RefusalsSeen
<1>5. CASE StopRun \/ \E p \in Paper : WeekPasses(p)
  BY <1>0, <1>5 DEF StopRun, WeekPasses, PassStops, WithinUnit, CancelSeen, RefusalsSeen
<1> QED
  BY <1>1, <1>2, <1>3, <1>4, <1>5

LEMMA PassInductive == PassStops /\ [EnrichNext]_enrichVars => PassStops'
<1> SUFFICES ASSUME PassStops, [EnrichNext]_enrichVars
            PROVE  PassStops'
  OBVIOUS
<1>1. CASE UNCHANGED enrichVars
  BY <1>1 DEF enrichVars, PassStops, WithinUnit, CancelSeen, RefusalsSeen, MostOfAUnit
<1>2. CASE EnrichNext
  BY <1>2, OpenAlexStep, LookupStep, QuietStep DEF EnrichNext
<1> QED
  BY <1>1, <1>2

(***************************************************************************)
(* The places of a batch stay places of what the pass has loaded, because  *)
(* a pass that begins finds no batch of the pass before.                   *)
(***************************************************************************)
EnrichInv == EnrichTypeOK /\ (stage = "idle" => batch = {})

LEMMA EnrichInitEstablishes == EnrichInit => EnrichInv
<1> SUFFICES ASSUME EnrichInit
            PROVE  EnrichInv
  OBVIOUS
<1>1. loaded \in Seq(Paper) /\ Len(loaded) = 0 /\ passes \in 0..MaxPasses
  BY EnrichConstants DEF EnrichInit
<1>2. heard \in [arxiv : BOOLEAN, openalex : BOOLEAN, broken : BOOLEAN, late : Nat]
  BY DEF EnrichInit, Quiet
<1>3. kept \in [Paper -> Known] /\ held \in [Paper -> Known]
  BY DEF EnrichInit, Known
<1>4. sent \in 0..Len(loaded) /\ batch = {} /\ stage = "idle"
  BY <1>1 DEF EnrichInit
<1>5. tries \in Nat /\ arxivOn \in BOOLEAN /\ stopped \in BOOLEAN
  BY DEF EnrichInit
<1> QED
  BY <1>1, <1>2, <1>3, <1>4, <1>5 DEF EnrichInv, EnrichTypeOK

LEMMA LoadedTyped ==
    ASSUME NEW order \in SetToSeqs(Due)
    PROVE  order \in Seq(Paper)
<1>1. Due \in SUBSET Paper
  BY DEF Due
<1>2. IsFiniteSet(Due)
  BY <1>1, FS_Subset, EnrichConstants
<1>3. Cardinality(Due) \in Nat
  BY <1>2, FS_CardinalityType
<1>4. order \in [1..Cardinality(Due) -> Due]
  BY DEF SetToSeqs
<1>5. order \in [1..Cardinality(Due) -> Paper]
  BY <1>1, <1>4
<1> HIDE DEF Due
<1> QED
  BY <1>3, <1>5

LEMMA ChunkTyped ==
    ASSUME EnrichTypeOK
    PROVE  /\ ChunkEnd \in 0..Len(loaded)
           /\ NextBatch \subseteq (1..Len(loaded)) \X (1..Len(loaded))
<1>1. Len(loaded) \in Nat /\ sent \in 0..Len(loaded) /\ ChunkSize \in Nat
  BY EnrichConstants DEF EnrichTypeOK
<1>2. ChunkEnd \in 0..Len(loaded)
  BY <1>1 DEF ChunkEnd
<1>3. (sent + 1)..ChunkEnd \subseteq 1..Len(loaded)
  BY <1>1, <1>2
<1> QED
  BY <1>2, <1>3 DEF NextBatch

LEMMA TriedTyped ==
    ASSUME EnrichTypeOK, NEW papers
    PROVE  Tried(papers) \in [Paper -> Known]
BY DEF EnrichTypeOK, Tried, Known

LEMMA LateTyped ==
    ASSUME EnrichTypeOK
    PROVE  /\ Late \in [arxiv : BOOLEAN, openalex : BOOLEAN, broken : BOOLEAN, late : Nat]
           /\ heard.arxiv \in BOOLEAN
<1>1. heard \in [arxiv : BOOLEAN, openalex : BOOLEAN, broken : BOOLEAN, late : Nat]
  BY DEF EnrichTypeOK
<1>2. heard.late \in Nat /\ heard.late + 1 \in Nat
  BY <1>1
<1> QED
  BY <1>1, <1>2 DEF Late

LEMMA EnrichInductive == EnrichInv /\ [EnrichNext]_enrichVars => EnrichInv'
<1> SUFFICES ASSUME EnrichInv, [EnrichNext]_enrichVars
            PROVE  EnrichInv'
  OBVIOUS
<1>0. EnrichTypeOK /\ (stage = "idle" => batch = {})
  BY DEF EnrichInv
<1>1. CASE UNCHANGED enrichVars
  BY <1>0, <1>1 DEF enrichVars, EnrichInv, EnrichTypeOK
<1>2. CASE BeginPass
  <2>1. loaded' \in Seq(Paper)
    BY <1>2, LoadedTyped DEF BeginPass
  <2>2. sent' \in 0..Len(loaded') /\ batch' = {} /\ stage' \in {"settle", "chunk"}
    BY <1>0, <1>2, <2>1 DEF BeginPass
  <2>3. passes' \in 0..MaxPasses
    BY <1>0, <1>2, EnrichConstants DEF BeginPass, EnrichTypeOK
  <2>4. heard' \in [arxiv : BOOLEAN, openalex : BOOLEAN, broken : BOOLEAN, late : Nat]
    BY <1>2 DEF BeginPass, Quiet
  <2>5. /\ kept' \in [Paper -> Known] /\ held' \in [Paper -> Known]
        /\ tries' \in Nat /\ arxivOn' \in BOOLEAN /\ stopped' \in BOOLEAN
    BY <1>0, <1>2 DEF BeginPass, EnrichTypeOK
  <2> QED
    BY <2>1, <2>2, <2>3, <2>4, <2>5 DEF EnrichInv, EnrichTypeOK
<1>3. CASE NextChunk \/ NoChunkLeft \/ BatchDone \/ FieldsOnly \/ Sweep \/ StopRun
  BY <1>0, <1>3 DEF NextChunk, NoChunkLeft, BatchDone, FieldsOnly, Sweep, StopRun,
                    EnrichInv, EnrichTypeOK
<1>4. CASE WorksArrive \/ BudgetExhausted \/ ChunkRefused \/ ChunkFails
  <2>1. /\ sent' = ChunkEnd /\ batch' \in {batch, NextBatch}
        /\ held' \in {held, Tried(PapersOf(NextBatch))}
        /\ stage' \in {"paper", "sweep", "chunk"} /\ tries' = 0
        /\ UNCHANGED <<kept, loaded, arxivOn, stopped, passes>>
    BY <1>4 DEF WorksArrive, BudgetExhausted, ChunkRefused, ChunkFails, SendsLast
  <2>2. heard' \in [arxiv : BOOLEAN, openalex : BOOLEAN, broken : BOOLEAN, late : Nat]
    BY <1>0, <1>4, LateTyped
       DEF WorksArrive, BudgetExhausted, ChunkRefused, ChunkFails, SendsLast
  <2>3. held' \in [Paper -> Known]
    BY <1>0, <2>1, TriedTyped DEF EnrichTypeOK
  <2>4. sent' \in 0..Len(loaded') /\ batch' \subseteq (1..Len(loaded')) \X (1..Len(loaded'))
    BY <1>0, <2>1, ChunkTyped DEF EnrichTypeOK
  <2> QED
    BY <1>0, <2>1, <2>2, <2>3, <2>4 DEF EnrichInv, EnrichTypeOK
<1>5. CASE NextPaper
  <2>1. /\ held' = held \/ \E papers : held' = Tried(papers)
        /\ stage' \in {"settle", "lookup"}
        /\ UNCHANGED <<kept, loaded, sent, batch, tries, arxivOn, stopped, heard, passes>>
    BY <1>5 DEF NextPaper
  <2>2. held' \in [Paper -> Known]
    BY <1>0, <2>1, TriedTyped DEF EnrichTypeOK
  <2> QED
    BY <1>0, <2>1, <2>2 DEF EnrichInv, EnrichTypeOK
<1>6. CASE \/ WorksRetried \/ CrossrefMisses \/ CrossrefFinds
            \/ ArxivSkipped \/ ArxivAnswers \/ ArxivRefuses
  <2>1. heard' \in [arxiv : BOOLEAN, openalex : BOOLEAN, broken : BOOLEAN, late : Nat]
    BY <1>0, <1>6, LateTyped
       DEF WorksRetried, CrossrefMisses, CrossrefFinds, ArxivSkipped, ArxivAnswers,
           ArxivRefuses, SendsOneMore, SendsLast, EnrichTypeOK
  <2>2. tries \in Nat /\ tries + 1 \in Nat /\ arxivOn \in BOOLEAN
    BY <1>0 DEF EnrichTypeOK
  <2>3. /\ stage' \in {stage, "match"} /\ stage \in {"ask", "lookup"}
        /\ tries' \in {tries + 1, 0}
        /\ UNCHANGED <<kept, held, loaded, sent, batch, stopped, passes>>
    BY <1>6
       DEF WorksRetried, CrossrefMisses, CrossrefFinds, ArxivSkipped, ArxivAnswers,
           ArxivRefuses, SendsOneMore, SendsLast
  <2>4. arxivOn' \in BOOLEAN
    BY <1>6, <2>2
       DEF WorksRetried, CrossrefMisses, CrossrefFinds, ArxivSkipped, ArxivAnswers,
           ArxivRefuses
  <2>5. /\ tries' \in Nat
        /\ stage' \in {"idle", "chunk", "ask", "paper", "lookup", "match", "sweep", "settle"}
        /\ stage' # "idle"
    BY <2>2, <2>3
  <2> QED
    BY <1>0, <2>1, <2>3, <2>4, <2>5 DEF EnrichInv, EnrichTypeOK
<1>7. ASSUME NEW found \in BOOLEAN, Match(found)
      PROVE  EnrichInv'
  <2>1. PICK e \in batch :
            /\ held' = IF found THEN [held EXCEPT ![loaded[e[2]]] = "enriched"] ELSE held
            /\ batch' = batch \ {e}
    BY <1>7 DEF Match
  <2>2. held' \in [Paper -> Known]
    BY <1>0, <2>1 DEF EnrichTypeOK, Known
  <2> QED
    BY <1>0, <1>7, <2>1, <2>2 DEF Match, EnrichInv, EnrichTypeOK
<1>8. CASE CommitPass \/ PassRaises
  <2>1. /\ kept' \in [Paper -> Known] /\ held' \in [Paper -> Known]
        /\ stage' = "idle" /\ loaded' = <<>> /\ sent' = 0 /\ batch' = {} /\ tries' = 0
        /\ UNCHANGED <<arxivOn, stopped, heard, passes>>
    BY <1>0, <1>8 DEF CommitPass, PassRaises, PassEnds, EnrichTypeOK
  <2> QED
    BY <1>0, <2>1 DEF EnrichInv, EnrichTypeOK
<1>9. ASSUME NEW p \in Paper, WeekPasses(p)
      PROVE  EnrichInv'
  <2>1. kept' \in [Paper -> Known]
    BY <1>0, <1>9 DEF WeekPasses, EnrichTypeOK, Known
  <2> QED
    BY <1>0, <1>9, <2>1 DEF WeekPasses, EnrichInv, EnrichTypeOK
<1> QED
  BY <1>1, <1>2, <1>3, <1>4, <1>5, <1>6, <1>7, <1>8, <1>9 DEF EnrichNext

LEMMA EnrichInvariance == EnrichSpec => []EnrichInv
BY EnrichInitEstablishes, EnrichInductive, PTL DEF EnrichSpec

\* A batch holds places of the titles and the publications that its own pass
\* has loaded, whatever cut the pass before it short.
THEOREM EnrichTypeCorrect == EnrichSpec => []EnrichTypeOK
<1>1. EnrichInv => EnrichTypeOK
  BY DEF EnrichInv
<1> QED
  BY <1>1, EnrichInvariance, PTL

\* A pass that was told to stop stops, however many chunks and publications
\* are still before it: what goes out after the cancel are requests of the one
\* chunk or look-up it had begun, however many of these there may be.
THEOREM PassIsTold == EnrichSpec => []AsksNoMore
<1>1. EnrichInit => PassStops
  BY EnrichConstants
     DEF EnrichInit, Quiet, PassStops, WithinUnit, CancelSeen, RefusalsSeen, MostOfAUnit
<1>2. PassStops => AsksNoMore
  BY DEF PassStops, CancelSeen, RefusalsSeen, AsksNoMore
<1> QED
  BY <1>1, <1>2, PassInductive, PTL DEF EnrichSpec

-----------------------------------------------------------------------------
(***************************************************************************)
(* ManualStart, for any number of requests, keys and runs.                 *)
(*                                                                         *)
(* The argument: only the holder of the lock is between the INSERT and the *)
(* commit, so that the key it found free is free when it commits; a key    *)
(* that a request found taken when it was sent stays taken by that one     *)
(* run, and the look-up answers before the gate and the lock are reached.  *)
(***************************************************************************)
RequestState ==
    [place : StartPlaces, key : Key \cup {NoKey}, known : Attempt \cup {0},
     answer : [kind : Answers \cup {"none"}, run : Attempt \cup {0}]]

StartTyped ==
    /\ DOMAIN runs \subseteq Attempt
    /\ runs \in [DOMAIN runs -> [active : BOOLEAN, key : Key \cup {NoKey}]]
    /\ cooling \in BOOLEAN
    /\ starting \in Request \cup {NoHolder, "scheduler"}
    /\ req \in [Request -> RequestState]

\* The lock is held by exactly the request that is at the INSERT.
HolderInserts ==
    \A q \in Request : req[q].place \in {"locked", "inserted"} <=> starting = q

AnswersGiven ==
    \A q \in Request : req[q].place = "answered" <=> req[q].answer.kind # "none"

InsertedKeyIsFree ==
    \A q \in Request : req[q].place = "inserted" => WithKey(req[q].key) = {}

\* A run that had the key when the request was sent has it still, and the
\* request has not come past the look-up.
KnownKeepsKey ==
    \A q \in Request :
        req[q].known # 0 =>
            /\ req[q].known \in WithKey(req[q].key)
            /\ req[q].place \in {"sent", "answered", "dead"}

StartInv ==
    /\ StartTyped /\ HolderInserts /\ AnswersGiven /\ InsertedKeyIsFree
    /\ KnownKeepsKey /\ OneRunPerKey /\ RetryNamesItsRun

LEMMA StartInitEstablishes == StartInit => StartInv
<1> SUFFICES ASSUME StartInit
            PROVE  StartInv
  OBVIOUS
<1>1. DOMAIN runs = {}
  BY DEF StartInit
<1>2. runs \in [DOMAIN runs -> [active : BOOLEAN, key : Key \cup {NoKey}]]
  BY <1>1 DEF StartInit
<1>3. StartTyped
  BY <1>1, <1>2 DEF StartInit, StartTyped, RequestState, Unsent, NoAnswer, StartPlaces
<1>4. HolderInserts /\ AnswersGiven /\ InsertedKeyIsFree /\ KnownKeepsKey /\ RetryNamesItsRun
  BY StartAssumption DEF StartInit, Unsent, NoAnswer, HolderInserts, AnswersGiven,
     InsertedKeyIsFree, KnownKeepsKey, RetryNamesItsRun
<1>5. OneRunPerKey
  BY <1>1 DEF OneRunPerKey
<1> QED
  BY <1>3, <1>4, <1>5 DEF StartInv

\* A run that has a key that a request knows is the run it knew.
LEMMA KnownRun ==
    ASSUME StartInv, NEW q \in Request, req[q].known # 0, NEW r \in WithKey(req[q].key)
    PROVE  r = req[q].known
BY DEF StartInv, KnownKeepsKey, OneRunPerKey, WithKey

\* What a step of one request keeps that neither writes a row nor the key of
\* the request: what it is at afterwards and what it has told the client
\* decide the rest.
LEMMA RequestMoves ==
    ASSUME StartInv, NEW q \in Request, NEW new \in RequestState,
           req' = [req EXCEPT ![q] = new],
           new.key = req[q].key /\ new.known = req[q].known,
           new.place = "answered" <=> new.answer.kind # "none",
           starting' \in Request \cup {NoHolder, "scheduler"},
           new.place \in {"locked", "inserted"} <=> starting' = q,
           \A p \in Request \ {q} : starting' = p <=> starting = p,
           new.place = "inserted" => WithKey(new.key) = {},
           new.known # 0 =>
                /\ new.place \in {"sent", "answered", "dead"}
                /\ new.place = "answered" =>
                        \/ new.answer.run = new.known
                           /\ new.answer.kind \in {"reused", "in_progress"}
                        \/ new.answer.kind = "failed",
           cooling' \in BOOLEAN, UNCHANGED runs
    PROVE  StartInv'
<1> USE DEF StartInv
<1>0. req \in [Request -> RequestState]
  BY DEF StartTyped
<1>1. StartTyped'
  BY <1>0 DEF StartTyped
<1>2. req'[q] = new /\ \A p \in Request \ {q} : req'[p] = req[p]
  BY <1>0
<1>3. \A k : WithKey(k)' = WithKey(k)
  BY DEF WithKey
<1>4. HolderInserts'
  BY <1>2 DEF HolderInserts
<1>5. AnswersGiven'
  <2> SUFFICES ASSUME NEW p \in Request
              PROVE  req'[p].place = "answered" <=> req'[p].answer.kind # "none"
    BY DEF AnswersGiven
  <2>1. CASE p = q
    BY <1>2, <2>1
  <2>2. CASE p # q
    BY <1>2, <2>2 DEF AnswersGiven
  <2> QED
    BY <2>1, <2>2
<1>6. InsertedKeyIsFree'
  BY <1>2, <1>3 DEF InsertedKeyIsFree
<1>7. KnownKeepsKey'
  BY <1>2, <1>3 DEF KnownKeepsKey
<1>8. OneRunPerKey'
  BY DEF OneRunPerKey
<1>9. RetryNamesItsRun'
  BY <1>2 DEF RetryNamesItsRun
<1> QED
  BY <1>1, <1>4, <1>5, <1>6, <1>7, <1>8, <1>9

\* The same for a step that gives an answer, or only moves the request on.
LEMMA AnswerStep ==
    ASSUME StartInv, NEW q \in Request, NEW kind \in Answers, NEW run \in Attempt \cup {0},
           Replied(q, kind, run), starting' = LockFreed(q),
           req[q].known # 0 => \/ run = req[q].known /\ kind \in {"reused", "in_progress"}
                               \/ kind = "failed",
           cooling' \in BOOLEAN, UNCHANGED runs
    PROVE  StartInv'
<1> DEFINE new == [req[q] EXCEPT !.place = "answered", !.answer = [kind |-> kind, run |-> run]]
<1>1. /\ starting \in Request \cup {NoHolder, "scheduler"}
      /\ req \in [Request -> RequestState] /\ req[q] \in RequestState
  BY DEF StartInv, StartTyped
<1>2. \A p \in Request : p # NoHolder /\ p # "scheduler"
  BY StartAssumption
<1>3. req' = [req EXCEPT ![q] = new]
  BY <1>1 DEF Replied, RequestState
<1>4. new \in RequestState
  BY <1>1 DEF RequestState, StartPlaces
<1>5. /\ new.place = "answered" /\ new.answer.kind = kind /\ new.answer.run = run
      /\ new.key = req[q].key /\ new.known = req[q].known /\ kind # "none"
  BY <1>1 DEF RequestState, Answers
<1> HIDE DEF new
<1> QED
  BY <1>1, <1>2, <1>3, <1>4, <1>5, RequestMoves DEF LockFreed

LEMMA MoveStep ==
    ASSUME StartInv, NEW q \in Request, NEW at \in StartPlaces, Goes(q, at),
           at # "answered", req[q].place # "answered", req[q].known = 0,
           starting' \in Request \cup {NoHolder, "scheduler"},
           at \in {"locked", "inserted"} <=> starting' = q,
           \A p \in Request \ {q} : starting' = p <=> starting = p,
           at = "inserted" => WithKey(req[q].key) = {},
           UNCHANGED <<runs, cooling>>
    PROVE  StartInv'
<1> DEFINE new == [req[q] EXCEPT !.place = at]
<1>1. req \in [Request -> RequestState] /\ req[q] \in RequestState /\ cooling \in BOOLEAN
  BY DEF StartInv, StartTyped
<1>2. req[q].answer.kind = "none"
  BY <1>1 DEF StartInv, AnswersGiven
<1>3. req' = [req EXCEPT ![q] = new]
  BY <1>1 DEF Goes, RequestState
<1>4. new \in RequestState
  BY <1>1 DEF RequestState
<1>5. /\ new.place = at /\ new.answer = req[q].answer
      /\ new.key = req[q].key /\ new.known = req[q].known
  BY <1>1 DEF RequestState
<1> HIDE DEF new
<1> QED
  BY <1>1, <1>2, <1>3, <1>4, <1>5, RequestMoves

\* A request that is past the look-up knew of no run.
LEMMA PastLookUp ==
    ASSUME StartInv, NEW q \in Request, req[q].place \notin {"sent", "answered", "dead"}
    PROVE  req[q].known = 0
BY DEF StartInv, KnownKeepsKey

\* An answer for a run of the key is the answer for the run that was known.
LEMMA AnswerKnownStep ==
    ASSUME StartInv, NEW q \in Request, NEW r \in WithKey(req[q].key), AnswerKnown(q, r),
           starting' = LockFreed(q), UNCHANGED <<runs, cooling>>
    PROVE  StartInv'
<1> DEFINE kind == IF runs[r].active THEN "in_progress" ELSE "reused"
<1>1. r \in Attempt /\ cooling \in BOOLEAN
  BY DEF WithKey, StartInv, StartTyped
<1>2. kind \in Answers /\ kind \in {"reused", "in_progress"} /\ Replied(q, kind, r)
  BY DEF Answers, AnswerKnown
<1>3. req[q].known # 0 => r = req[q].known
  BY KnownRun
<1> HIDE DEF kind
<1> QED
  BY <1>1, <1>2, <1>3, AnswerStep

LEMMA SendStep ==
    ASSUME StartInv, NEW q \in Request, NEW k \in Key \cup {NoKey}, SendRequest(q, k)
    PROVE  StartInv'
<1> USE DEF StartInv
<1> DEFINE known == IF WithKey(k) = {} THEN 0 ELSE CHOOSE r \in WithKey(k) : TRUE
           new == [req[q] EXCEPT !.place = "sent", !.key = k, !.known = known]
<1>1. req \in [Request -> RequestState] /\ req[q] \in RequestState /\ req[q].place = "unsent"
  BY DEF StartTyped, SendRequest
<1>2. known = 0 \/ known \in WithKey(k)
  OBVIOUS
<1>3. known \in Attempt \cup {0}
  BY <1>2 DEF WithKey, StartTyped
<1>4. req' = [req EXCEPT ![q] = new]
  BY <1>1 DEF SendRequest, RequestState
<1> HIDE DEF known
<1>5. /\ new \in RequestState /\ new.place = "sent" /\ new.key = k /\ new.known = known
      /\ new.answer = req[q].answer
  BY <1>1, <1>3 DEF RequestState, StartPlaces
<1> HIDE DEF new
<1>6. req'[q] = new /\ \A p \in Request \ {q} : req'[p] = req[p]
  BY <1>1, <1>4
<1>7. UNCHANGED <<runs, cooling, starting>>
  BY DEF SendRequest
<1>8. \A j : WithKey(j)' = WithKey(j)
  BY <1>7 DEF WithKey
<1>9. StartTyped'
  BY <1>1, <1>4, <1>5, <1>7 DEF StartTyped
<1>10. HolderInserts'
  BY <1>1, <1>5, <1>6, <1>7 DEF HolderInserts
<1>11. AnswersGiven'
  <2> SUFFICES ASSUME NEW p \in Request
              PROVE  req'[p].place = "answered" <=> req'[p].answer.kind # "none"
    BY DEF AnswersGiven
  <2>1. CASE p = q
    BY <1>1, <1>5, <1>6, <2>1 DEF AnswersGiven
  <2>2. CASE p # q
    BY <1>6, <2>2 DEF AnswersGiven
  <2> QED
    BY <2>1, <2>2
<1>12. InsertedKeyIsFree'
  BY <1>5, <1>6, <1>8 DEF InsertedKeyIsFree
<1>13. KnownKeepsKey'
  BY <1>2, <1>5, <1>6, <1>8 DEF KnownKeepsKey
<1>14. OneRunPerKey'
  BY <1>7 DEF OneRunPerKey
<1>15. RetryNamesItsRun'
  BY <1>5, <1>6 DEF RetryNamesItsRun
<1> QED
  BY <1>9, <1>10, <1>11, <1>12, <1>13, <1>14, <1>15

LEMMA LookUpStep ==
    ASSUME StartInv, NEW q \in Request, LookUpKey(q) \/ RecoverKey(q) \/ PassGate(q)
    PROVE  StartInv'
<1>1. /\ cooling \in BOOLEAN /\ starting \in Request \cup {NoHolder, "scheduler"}
      /\ "failed" \in Answers /\ "blocked" \in Answers
      /\ "looked" \in StartPlaces /\ "gated" \in StartPlaces
  BY DEF StartInv, StartTyped, Answers, StartPlaces
<1>2. req[q].place \notin {"locked", "inserted"} => starting # q /\ LockFreed(q) = starting
  BY DEF StartInv, HolderInserts, LockFreed
<1>3. CASE LookUpKey(q)
  <2>1. CASE WithKey(req[q].key) = {} /\ Goes(q, "looked")
    <3>1. req[q].known = 0
      BY <2>1 DEF StartInv, KnownKeepsKey
    <3> QED
      BY <1>1, <1>2, <1>3, <2>1, <3>1, MoveStep DEF LookUpKey
  <2>2. CASE \E r \in WithKey(req[q].key) : AnswerKnown(q, r)
    BY <1>2, <1>3, <2>2, AnswerKnownStep DEF LookUpKey
  <2> QED
    BY <1>3, <2>1, <2>2 DEF LookUpKey
<1>4. CASE RecoverKey(q)
  <2>1. CASE Replied(q, "failed", 0)
    BY <1>1, <1>2, <1>4, <2>1, AnswerStep DEF RecoverKey
  <2>2. CASE \E r \in WithKey(req[q].key) : AnswerKnown(q, r)
    BY <1>2, <1>4, <2>2, AnswerKnownStep DEF RecoverKey
  <2> QED
    BY <1>4, <2>1, <2>2 DEF RecoverKey
<1>5. CASE PassGate(q)
  <2>1. req[q].known = 0
    BY <1>5, PastLookUp DEF PassGate
  <2>2. CASE Replied(q, "blocked", 0)
    BY <1>1, <1>2, <1>5, <2>1, <2>2, AnswerStep DEF PassGate
  <2>3. CASE Goes(q, "gated")
    BY <1>1, <1>2, <1>5, <2>1, <2>3, MoveStep DEF PassGate
  <2> QED
    BY <1>5, <2>2, <2>3 DEF PassGate
<1> QED
  BY <1>3, <1>4, <1>5

LEMMA LockStep ==
    ASSUME StartInv, NEW q \in Request,
           TryLock(q) \/ PreflightBlocks(q) \/ InsertRun(q) \/ StartFails(q)
    PROVE  StartInv'
<1>1. /\ cooling \in BOOLEAN /\ starting \in Request \cup {NoHolder, "scheduler"}
      /\ {"failed", "blocked", "busy"} \subseteq Answers
      /\ {"locked", "inserted", "refused"} \subseteq StartPlaces
  BY DEF StartInv, StartTyped, Answers, StartPlaces
<1>2. /\ req[q].place \notin {"locked", "inserted"} => starting # q /\ LockFreed(q) = starting
      /\ req[q].place \in {"locked", "inserted"} => starting = q /\ LockFreed(q) = NoHolder
  BY DEF StartInv, HolderInserts, LockFreed
<1>3. \A p \in Request : p # NoHolder /\ p # "scheduler"
  BY StartAssumption
<1>4. CASE TryLock(q)
  <2>1. req[q].known = 0
    BY <1>4, PastLookUp DEF TryLock
  <2>2. CASE starting = NoHolder
    BY <1>1, <1>3, <1>4, <2>1, <2>2, MoveStep DEF TryLock
  <2>3. CASE starting # NoHolder
    BY <1>1, <1>2, <1>4, <2>1, <2>3, AnswerStep DEF TryLock
  <2> QED
    BY <2>2, <2>3
<1>5. CASE PreflightBlocks(q)
  <2>1. req[q].known = 0
    BY <1>5, PastLookUp DEF PreflightBlocks
  <2> QED
    BY <1>1, <1>5, <2>1, AnswerStep DEF PreflightBlocks
<1>6. CASE InsertRun(q)
  <2>1. req[q].known = 0 /\ req[q].place = "locked" /\ UNCHANGED <<runs, cooling>>
    BY <1>6, PastLookUp DEF InsertRun
  <2>2. CASE KeyTakenBy(req[q].key) = {} /\ Goes(q, "inserted") /\ UNCHANGED starting
    BY <1>1, <1>2, <2>1, <2>2, MoveStep DEF KeyTakenBy
  <2>3. CASE Replied(q, "busy", 0) /\ starting' = LockFreed(q)
    BY <1>1, <2>1, <2>3, AnswerStep
  <2>4. CASE Goes(q, "refused") /\ starting' = LockFreed(q)
    BY <1>1, <1>2, <1>3, <2>1, <2>4, MoveStep
  <2> QED
    BY <1>6, <2>2, <2>3, <2>4 DEF InsertRun
<1>7. CASE StartFails(q)
  BY <1>1, <1>7, AnswerStep DEF StartFails
<1> QED
  BY <1>4, <1>5, <1>6, <1>7

\* A row that is committed has a key that no other row has, or none.
LEMMA RowCommitted ==
    ASSUME StartInv, NEW r \in Attempt \ DOMAIN runs, NEW k \in Key \cup {NoKey},
           WithKey(k) = {}, runs' = Extended(r, k)
    PROVE  /\ DOMAIN runs' \subseteq Attempt
           /\ runs' \in [DOMAIN runs' -> [active : BOOLEAN, key : Key \cup {NoKey}]]
           /\ OneRunPerKey'
           /\ \A j : WithKey(j) \subseteq WithKey(j)'
           /\ \A j : j # k => WithKey(j)' = WithKey(j)
           /\ k = NoKey => \A j : WithKey(j)' = WithKey(j)
<1>1. DOMAIN runs \subseteq Attempt
      /\ runs \in [DOMAIN runs -> [active : BOOLEAN, key : Key \cup {NoKey}]]
  BY DEF StartInv, StartTyped
<1>2. DOMAIN runs' = DOMAIN runs \cup {r}
  BY DEF Extended
<1>3. /\ runs'[r] = [active |-> TRUE, key |-> k]
      /\ \A x \in DOMAIN runs : runs'[x] = runs[x]
  BY DEF Extended
<1>4. runs' \in [DOMAIN runs' -> [active : BOOLEAN, key : Key \cup {NoKey}]]
  BY <1>1 DEF Extended
<1>5. runs'[r].key = k
  BY <1>3
<1>6. OneRunPerKey'
  BY <1>2, <1>3, <1>5 DEF StartInv, OneRunPerKey, WithKey
<1>7. \A j : WithKey(j) \subseteq WithKey(j)' /\ (j # k => WithKey(j)' = WithKey(j))
  BY <1>2, <1>3, <1>5 DEF WithKey
<1>8. k = NoKey => \A j : WithKey(j)' = WithKey(j)
  BY <1>7 DEF WithKey
<1> QED
  BY <1>1, <1>2, <1>4, <1>6, <1>7, <1>8

LEMMA CommitStep ==
    ASSUME StartInv, NEW q \in Request, NEW r \in Attempt, CommitRun(q, r)
    PROVE  StartInv'
<1> USE DEF StartInv
<1> DEFINE k == req[q].key
<1>1. /\ req \in [Request -> RequestState] /\ k \in Key \cup {NoKey}
      /\ r \in Attempt \ DOMAIN runs /\ runs' = Extended(r, k) /\ UNCHANGED cooling
      /\ req[q].place = "inserted" /\ starting = q /\ starting' = NoHolder
  BY DEF StartTyped, RequestState, CommitRun, HolderInserts, LockFreed
<1>2. req[q].known = 0 /\ WithKey(k) = {}
  BY <1>1, PastLookUp DEF InsertedKeyIsFree
<1>3. PICK kind \in {"started", "failed"}, run \in {r, 0} : Replied(q, kind, run)
  BY DEF CommitRun
<1> DEFINE new == [req[q] EXCEPT !.place = "answered", !.answer = [kind |-> kind, run |-> run]]
<1>4. req' = [req EXCEPT ![q] = new]
  BY <1>1, <1>3 DEF Replied, RequestState
<1>5. /\ new \in RequestState /\ new.place = "answered" /\ new.answer.kind # "none"
      /\ new.known = 0
  BY <1>1, <1>2, <1>3 DEF RequestState, StartPlaces, Answers
<1> HIDE DEF new
<1>6. req'[q] = new /\ \A p \in Request \ {q} : req'[p] = req[p]
  BY <1>1, <1>4
<1> HIDE DEF k
<1>7. /\ DOMAIN runs' \subseteq Attempt
      /\ runs' \in [DOMAIN runs' -> [active : BOOLEAN, key : Key \cup {NoKey}]]
      /\ OneRunPerKey'
      /\ \A j : WithKey(j) \subseteq WithKey(j)'
  BY <1>1, <1>2, RowCommitted
<1>8. StartTyped'
  BY <1>1, <1>4, <1>5, <1>7 DEF StartTyped
<1>9. \A p \in Request \ {q} : req[p].place \notin {"locked", "inserted"}
  BY <1>1 DEF HolderInserts
<1>10. HolderInserts' /\ InsertedKeyIsFree'
  BY <1>1, <1>5, <1>6, <1>9, StartAssumption DEF HolderInserts, InsertedKeyIsFree
<1>11. AnswersGiven'
  <2> SUFFICES ASSUME NEW p \in Request
              PROVE  req'[p].place = "answered" <=> req'[p].answer.kind # "none"
    BY DEF AnswersGiven
  <2>1. CASE p = q
    BY <1>5, <1>6, <2>1
  <2>2. CASE p # q
    BY <1>6, <2>2 DEF AnswersGiven
  <2> QED
    BY <2>1, <2>2
<1>12. KnownKeepsKey'
  BY <1>5, <1>6, <1>7 DEF KnownKeepsKey
<1>13. RetryNamesItsRun'
  BY <1>5, <1>6 DEF RetryNamesItsRun
<1> QED
  BY <1>7, <1>8, <1>10, <1>11, <1>12, <1>13

\* A step that leaves the requests and their keys alone.
LEMMA RestStep ==
    ASSUME StartInv, UNCHANGED req,
           DOMAIN runs' \subseteq Attempt,
           runs' \in [DOMAIN runs' -> [active : BOOLEAN, key : Key \cup {NoKey}]],
           OneRunPerKey', \A j : WithKey(j)' = WithKey(j),
           cooling' \in BOOLEAN, starting' \in Request \cup {NoHolder, "scheduler"},
           \A q \in Request : starting' = q <=> starting = q
    PROVE  StartInv'
BY DEF StartInv, StartTyped, HolderInserts, AnswersGiven, InsertedKeyIsFree, KnownKeepsKey,
       RetryNamesItsRun

\* The end of runs leaves their keys.
LEMMA KeysStay ==
    ASSUME StartInv, NEW f, runs' = f, DOMAIN f = DOMAIN runs,
           \A x \in DOMAIN runs : f[x] \in [active : BOOLEAN, key : {runs[x].key}]
    PROVE  /\ DOMAIN runs' \subseteq Attempt
           /\ OneRunPerKey' /\ \A j : WithKey(j)' = WithKey(j)
           /\ \A x \in DOMAIN runs' : runs'[x] \in [active : BOOLEAN, key : Key \cup {NoKey}]
<1>1. \A x \in DOMAIN runs : f[x].key = runs[x].key
  OBVIOUS
<1>2. OneRunPerKey' /\ \A j : WithKey(j)' = WithKey(j)
  BY <1>1 DEF StartInv, OneRunPerKey, WithKey
<1>3. \A x \in DOMAIN runs : runs[x].key \in Key \cup {NoKey}
  BY DEF StartInv, StartTyped
<1> QED
  BY <1>2, <1>3 DEF StartInv, StartTyped

LEMMA AccountStep ==
    ASSUME StartInv,
           \/ SchedulerLocks \/ CooldownOver
           \/ \E r \in Attempt : SchedulerReleases(r)
           \/ \E r \in Attempt, trips \in BOOLEAN : RunEnds(r, trips)
    PROVE  StartInv'
<1>1. /\ DOMAIN runs \subseteq Attempt /\ cooling \in BOOLEAN
      /\ runs \in [DOMAIN runs -> [active : BOOLEAN, key : Key \cup {NoKey}]]
      /\ starting \in Request \cup {NoHolder, "scheduler"}
  BY DEF StartInv, StartTyped
<1>2. \A q \in Request : q # NoHolder /\ q # "scheduler"
  BY StartAssumption
<1>3. ASSUME UNCHANGED runs
      PROVE  OneRunPerKey' /\ \A j : WithKey(j)' = WithKey(j)
  BY <1>3 DEF StartInv, OneRunPerKey, WithKey
<1>4. CASE SchedulerLocks \/ CooldownOver
  BY <1>1, <1>2, <1>3, <1>4, RestStep DEF SchedulerLocks, CooldownOver
<1>5. ASSUME NEW r \in Attempt, SchedulerReleases(r)
      PROVE  StartInv'
  <2>1. /\ cooling' \in BOOLEAN /\ UNCHANGED req
        /\ starting' \in Request \cup {NoHolder, "scheduler"}
        /\ \A q \in Request : starting' = q <=> starting = q
    BY <1>1, <1>2, <1>5 DEF SchedulerReleases
  <2>2. CASE UNCHANGED runs
    BY <1>1, <1>3, <2>1, <2>2, RestStep
  <2>3. CASE r \in Attempt \ DOMAIN runs /\ runs' = Extended(r, NoKey)
    <3>1. WithKey(NoKey) = {}
      BY DEF WithKey
    <3> QED
      BY <2>1, <2>3, <3>1, RowCommitted, RestStep
  <2> QED
    BY <1>5, <2>2, <2>3 DEF SchedulerReleases
<1>6. ASSUME NEW r \in Attempt, NEW trips \in BOOLEAN, RunEnds(r, trips)
      PROVE  StartInv'
  <2> DEFINE f == [runs EXCEPT ![r].active = FALSE]
  <2>1. /\ runs' = f /\ DOMAIN f = DOMAIN runs /\ UNCHANGED <<req, starting>>
        /\ cooling' \in BOOLEAN
        /\ \A x \in DOMAIN runs : f[x] \in [active : BOOLEAN, key : {runs[x].key}]
    BY <1>1, <1>6 DEF RunEnds
  <2>2. runs' \in [DOMAIN runs' -> [active : BOOLEAN, key : Key \cup {NoKey}]]
    BY <1>1, <1>6 DEF RunEnds
  <2> HIDE DEF f
  <2> QED
    BY <1>1, <2>1, <2>2, KeysStay, RestStep
<1> QED
  BY <1>4, <1>5, <1>6

LEMMA RestartStep ==
    ASSUME StartInv, RestartService
    PROVE  StartInv'
<1> USE DEF StartInv
<1> DEFINE f == [r \in DOMAIN runs |-> [runs[r] EXCEPT !.active = FALSE]]
           Stays(q) == req[q].place \in {"unsent", "answered"}
<1>1. /\ DOMAIN runs \subseteq Attempt /\ cooling' \in BOOLEAN
      /\ runs \in [DOMAIN runs -> [active : BOOLEAN, key : Key \cup {NoKey}]]
      /\ req \in [Request -> RequestState] /\ starting' = NoHolder
  BY DEF StartTyped, RestartService
<1>2. /\ runs' = f /\ DOMAIN f = DOMAIN runs
      /\ \A x \in DOMAIN runs : f[x] \in [active : BOOLEAN, key : {runs[x].key}]
  BY <1>1 DEF RestartService
<1>3. runs' \in [DOMAIN runs' -> [active : BOOLEAN, key : Key \cup {NoKey}]]
  BY <1>1 DEF RestartService
<1> HIDE DEF f
<1>4. /\ DOMAIN runs' \subseteq Attempt
      /\ OneRunPerKey' /\ \A j : WithKey(j)' = WithKey(j)
  BY <1>2, KeysStay
<1>5. \A q \in Request :
        /\ req'[q] \in RequestState
        /\ Stays(q) => req'[q] = req[q]
        /\ ~Stays(q) => /\ req'[q].place = "dead" /\ req'[q].key = req[q].key
                       /\ req'[q].known = req[q].known /\ req'[q].answer = req[q].answer
  <2> SUFFICES ASSUME NEW q \in Request
              PROVE  /\ req'[q] \in RequestState
                     /\ Stays(q) => req'[q] = req[q]
                     /\ ~Stays(q) => /\ req'[q].place = "dead" /\ req'[q].key = req[q].key
                                    /\ req'[q].known = req[q].known
                                    /\ req'[q].answer = req[q].answer
    OBVIOUS
  <2>1. req'[q] = IF Stays(q) THEN req[q] ELSE [req[q] EXCEPT !.place = "dead"]
    BY DEF RestartService
  <2>2. req[q] \in RequestState /\ "dead" \in StartPlaces
    BY <1>1 DEF StartPlaces
  <2> HIDE DEF Stays
  <2> QED
    BY <2>1, <2>2 DEF RequestState
<1>6. req' \in [Request -> RequestState]
  BY <1>5 DEF RestartService
<1>7. StartTyped'
  BY <1>1, <1>3, <1>4, <1>6 DEF StartTyped
<1>8. HolderInserts' /\ InsertedKeyIsFree'
  BY <1>1, <1>5, StartAssumption DEF HolderInserts, InsertedKeyIsFree
<1>9. AnswersGiven'
  <2> SUFFICES ASSUME NEW q \in Request
              PROVE  req'[q].place = "answered" <=> req'[q].answer.kind # "none"
    BY DEF AnswersGiven
  <2> QED
    BY <1>5 DEF AnswersGiven
<1>10. KnownKeepsKey'
  BY <1>4, <1>5 DEF KnownKeepsKey
<1>11. RetryNamesItsRun'
  BY <1>5 DEF RetryNamesItsRun
<1> QED
  BY <1>4, <1>7, <1>8, <1>9, <1>10, <1>11

LEMMA StartInductive == StartInv /\ [StartNext]_startVars => StartInv'
<1> SUFFICES ASSUME StartInv, [StartNext]_startVars
            PROVE  StartInv'
  OBVIOUS
<1>1. CASE UNCHANGED startVars
  BY <1>1 DEF startVars, StartInv, StartTyped, HolderInserts, AnswersGiven, InsertedKeyIsFree,
              KnownKeepsKey, OneRunPerKey, RetryNamesItsRun, WithKey
<1>2. CASE StartNext
  BY <1>2, SendStep, LookUpStep, LockStep, CommitStep, AccountStep, RestartStep DEF StartNext
<1> QED
  BY <1>1, <1>2

LEMMA StartInvariance == StartSpec => []StartInv
BY StartInitEstablishes, StartInductive, PTL DEF StartSpec

\* Rows, lock and requests have the values that the handlers give them, and
\* who holds the lock is at the INSERT.
THEOREM StartTypeCorrect == StartSpec => []StartTypeOK
<1>1. StartInv => StartTypeOK
  BY DEF StartInv, StartTyped, RequestState, HolderInserts, AnswersGiven, StartTypeOK
<1> QED
  BY <1>1, StartInvariance, PTL

\* However many requests with one key race, with each other, with scheduled
\* runs and with the end of their runs, the key starts one run.
THEOREM KeyStartsOneRun == StartSpec => []OneRunPerKey
<1>1. StartInv => OneRunPerKey
  BY DEF StartInv
<1> QED
  BY <1>1, StartInvariance, PTL

\* A retry is answered with the run that the key has started.
THEOREM RetryIsTold == StartSpec => []RetryNamesItsRun
<1>1. StartInv => RetryNamesItsRun
  BY DEF StartInv
<1> QED
  BY <1>1, StartInvariance, PTL

-----------------------------------------------------------------------------
(***************************************************************************)
(* RunEvents, for any number of streams, runs and events and any size of   *)
(* the queues.                                                             *)
(*                                                                         *)
(* The argument: the queue of an open stream holds the numbers after the   *)
(* last one it showed, one by one, and as long as the stream is subscribed *)
(* they go on to the last event that was published; what is appended next  *)
(* continues them.                                                         *)
(***************************************************************************)
View ==
    [run : Watched \cup {NoRun}, state : {"none", "found", "open"},
     queue : Seq(1..MaxEvents), last : 0..MaxEvents]

EventsTyped ==
    /\ events \in [Watched -> 0..MaxEvents]
    /\ entry \subseteq Watched
    /\ subs \in [Watched -> SUBSET Stream]
    /\ view \in [Stream -> View]
    /\ \A s \in Stream :
        /\ Len(view[s].queue) <= QueueSize
        /\ view[s].state # "none" => view[s].run \in Watched
        /\ view[s].state = "found" => view[s].queue = <<>>

Consecutive(v) == \A i \in 1..Len(v.queue) : v.queue[i] = v.last + i

QueueContinues ==
    \A s \in Stream :
        view[s].state = "open" =>
            /\ Consecutive(view[s])
            /\ s \in subs[view[s].run] =>
                    view[s].last + Len(view[s].queue) = events[view[s].run]

EventsInv == EventsTyped /\ QueueContinues /\ RegistryHoldsOpenStreams

LEMMA EventsInitEstablishes == EventsInit => EventsInv
<1> SUFFICES ASSUME EventsInit
            PROVE  EventsInv
  OBVIOUS
<1>1. NoView \in View /\ Len(NoView.queue) = 0 /\ NoView.state = "none"
  BY EventsAssumption DEF NoView, View
<1>2. EventsTyped
  BY <1>1, EventsAssumption DEF EventsInit, EventsTyped
<1>3. QueueContinues /\ RegistryHoldsOpenStreams
  BY <1>1 DEF EventsInit, QueueContinues, RegistryHoldsOpenStreams
<1> QED
  BY <1>2, <1>3 DEF EventsInv

\* What a step keeps that writes the view of one stream and publishes nothing.
LEMMA ViewWritten ==
    ASSUME EventsInv, NEW s \in Stream, NEW new \in View, view' = [view EXCEPT ![s] = new],
           Len(new.queue) <= QueueSize,
           new.state # "none" => new.run \in Watched,
           new.state = "found" => new.queue = <<>>,
           new.state = "open" => Consecutive(new),
           subs' \in [Watched -> SUBSET Stream], entry' \subseteq Watched,
           \A r \in Watched, p \in Stream \ {s} : p \in subs'[r] => p \in subs[r],
           new.state = "open" /\ s \in subs'[new.run] =>
                new.last + Len(new.queue) = events[new.run],
           UNCHANGED events
    PROVE  EventsTyped' /\ QueueContinues'
<1>1. view \in [Stream -> View] /\ events \in [Watched -> 0..MaxEvents]
  BY DEF EventsInv, EventsTyped
<1>2. view'[s] = new /\ \A p \in Stream \ {s} : view'[p] = view[p]
  BY <1>1
<1>3. EventsTyped'
  BY <1>1, <1>2 DEF EventsInv, EventsTyped
<1>4. ASSUME NEW p \in Stream, view'[p].state = "open"
      PROVE  /\ Consecutive(view'[p])
             /\ p \in subs'[view'[p].run] =>
                    view'[p].last + Len(view'[p].queue) = events'[view'[p].run]
  <2>1. CASE p = s
    BY <1>2, <1>4, <2>1
  <2>2. CASE p # s
    <3>1. view'[p] = view[p] /\ view[p].run \in Watched
      BY <1>2, <1>4, <2>2 DEF EventsInv, EventsTyped
    <3> QED
      BY <1>4, <2>2, <3>1 DEF EventsInv, QueueContinues
  <2> QED
    BY <2>1, <2>2
<1>5. QueueContinues'
  BY <1>4 DEF QueueContinues, Consecutive
<1> QED
  BY <1>3, <1>5

LEMMA OpenStep ==
    ASSUME EventsInv, NEW s \in Stream, NEW r \in Watched, OpenStream(s, r)
    PROVE  EventsInv'
<1> DEFINE new == [NoView EXCEPT !.run = r, !.state = "found"]
<1>1. view' = [view EXCEPT ![s] = new] /\ UNCHANGED <<events, entry, subs>>
      /\ view[s].state = "none"
  BY DEF OpenStream
<1>2. /\ new \in View /\ new.run = r /\ new.state = "found" /\ new.queue = <<>>
      /\ Len(new.queue) = 0
  <2>1. NoView \in View /\ NoView.queue = <<>>
    BY EventsAssumption DEF NoView, View
  <2>2. new \in View /\ new.run = r /\ new.state = "found" /\ new.queue = NoView.queue
    BY <2>1 DEF View
  <2> QED
    BY <2>1, <2>2
<1> HIDE DEF new
<1>3. /\ view \in [Stream -> View] /\ entry \subseteq Watched
      /\ subs \in [Watched -> SUBSET Stream] /\ 0 <= QueueSize
  BY EventsAssumption DEF EventsInv, EventsTyped
<1>4. EventsTyped' /\ QueueContinues'
  BY <1>1, <1>2, <1>3, ViewWritten
<1>5. view'[s] = new /\ \A p \in Stream \ {s} : view'[p] = view[p]
  BY <1>1, <1>3
<1>6. RegistryHoldsOpenStreams'
  BY <1>1, <1>3, <1>5 DEF EventsInv, RegistryHoldsOpenStreams
<1> QED
  BY <1>4, <1>6 DEF EventsInv

LEMMA SubscribeStep ==
    ASSUME EventsInv, NEW s \in Stream, Subscribe(s)
    PROVE  EventsInv'
<1> DEFINE r == view[s].run
           new == [view[s] EXCEPT !.state = "open", !.last = events[r]]
<1>1. /\ view \in [Stream -> View] /\ entry \subseteq Watched /\ r \in Watched
      /\ subs \in [Watched -> SUBSET Stream] /\ events \in [Watched -> 0..MaxEvents]
      /\ view[s].queue = <<>> /\ view[s].state = "found" /\ view[s] \in View
  BY DEF EventsInv, EventsTyped, Subscribe
<1>2. /\ view' = [view EXCEPT ![s] = new] /\ UNCHANGED events
      /\ subs' = [subs EXCEPT ![r] = @ \cup {s}] /\ entry' = entry \cup {r}
  BY <1>1 DEF Subscribe, View
<1>3. /\ new \in View /\ new.run = r /\ new.state = "open" /\ new.queue = <<>>
      /\ new.last = events[r]
  BY <1>1 DEF View
<1> HIDE DEF new, r
<1>4. Len(new.queue) = 0 /\ 0 <= QueueSize /\ Consecutive(new) /\ events[r] \in Nat
  BY <1>1, <1>3, EventsAssumption DEF Consecutive
<1>5. /\ subs' \in [Watched -> SUBSET Stream] /\ entry' \subseteq Watched
      /\ \A q \in Watched, p \in Stream \ {s} : p \in subs'[q] => p \in subs[q]
  BY <1>1, <1>2
<1>6. new.last + Len(new.queue) = events[new.run]
  BY <1>3, <1>4
<1>7. EventsTyped' /\ QueueContinues'
  BY <1>2, <1>3, <1>4, <1>5, <1>6, <1>1, ViewWritten
<1>8. view'[s] = new /\ \A p \in Stream \ {s} : view'[p] = view[p]
  BY <1>1, <1>2
<1>9. /\ subs'[r] = subs[r] \cup {s} /\ \A q \in Watched \ {r} : subs'[q] = subs[q]
  BY <1>1, <1>2
<1>10. RegistryHoldsOpenStreams'
  BY <1>1, <1>2, <1>3, <1>8, <1>9 DEF EventsInv, RegistryHoldsOpenStreams
<1> QED
  BY <1>7, <1>10 DEF EventsInv

LEMMA ShowStep ==
    ASSUME EventsInv, NEW s \in Stream, Show(s)
    PROVE  EventsInv' /\ view'[s].last = view[s].last + 1
           /\ \A p \in Stream \ {s} : view'[p] = view[p]
<1> DEFINE q == view[s].queue
           new == [view[s] EXCEPT !.queue = Tail(q), !.last = Head(q)]
<1>1. /\ view \in [Stream -> View] /\ entry \subseteq Watched
      /\ subs \in [Watched -> SUBSET Stream] /\ events \in [Watched -> 0..MaxEvents]
      /\ q # <<>> /\ view[s].state = "open" /\ view[s] \in View /\ q \in Seq(1..MaxEvents)
      /\ Len(q) <= QueueSize /\ view[s].run \in Watched /\ view[s].last \in Nat
      /\ UNCHANGED <<events, entry, subs>>
  BY EventsAssumption DEF EventsInv, EventsTyped, Show, View
<1>2. view' = [view EXCEPT ![s] = new]
  BY <1>1 DEF Show, View
<1>3. /\ Consecutive(view[s])
      /\ s \in subs[view[s].run] => view[s].last + Len(q) = events[view[s].run]
  BY <1>1 DEF EventsInv, QueueContinues
<1>4. /\ new.run = view[s].run /\ new.state = "open" /\ new.queue = Tail(q)
      /\ new.last = Head(q)
  BY <1>1 DEF View
<1>5. /\ Tail(q) \in Seq(1..MaxEvents) /\ Len(Tail(q)) = Len(q) - 1 /\ Len(q) \in Nat \ {0}
      /\ Head(q) = q[1] /\ Head(q) \in 1..MaxEvents
      /\ \A i \in 1..Len(Tail(q)) : Tail(q)[i] = q[i + 1]
  <2> DEFINE S == 1..MaxEvents
  <2>1. q \in Seq(S) /\ q # <<>>
    BY <1>1
  <2> HIDE DEF q, S
  <2>2. /\ Tail(q) \in Seq(S) /\ Len(Tail(q)) = Len(q) - 1 /\ Head(q) \in S
        /\ \A i \in 1..Len(Tail(q)) : Tail(q)[i] = q[i + 1]
    BY <2>1, HeadTailProperties
  <2>3. Len(q) \in Nat \ {0}
    BY <2>1, EmptySeq
  <2>4. Head(q) = q[1]
    BY <2>1
  <2> QED
    BY <2>2, <2>3, <2>4 DEF S
<1>5a. Head(q) \in 0..MaxEvents
  BY <1>5, EventsAssumption
<1>6. new \in View
  <2>1. Tail(q) \in Seq(1..MaxEvents) /\ Head(q) \in 0..MaxEvents
    BY <1>5, <1>5a
  <2> HIDE DEF q
  <2> QED
    BY <1>1, <2>1 DEF View
<1> HIDE DEF new
<1>7. Head(q) = view[s].last + 1
  BY <1>1, <1>3, <1>5 DEF Consecutive
<1>8. Consecutive(new)
  <2>0. new.last = view[s].last + 1
    BY <1>4, <1>7
  <2> SUFFICES ASSUME NEW i \in 1..Len(Tail(q))
              PROVE  Tail(q)[i] = (view[s].last + 1) + i
    BY <1>4, <2>0 DEF Consecutive
  <2>1. i + 1 \in 1..Len(q) /\ Tail(q)[i] = q[i + 1]
    BY <1>5
  <2>2. q[i + 1] = view[s].last + (i + 1)
    BY <1>3, <2>1 DEF Consecutive
  <2>3. i \in Nat /\ view[s].last \in Nat
    BY <1>1, <1>5
  <2>4. view[s].last + (i + 1) = (view[s].last + 1) + i
    BY <2>3
  <2> HIDE DEF q
  <2> QED
    BY <2>1, <2>2, <2>4
<1>9. s \in subs[new.run] => new.last + Len(new.queue) = events[new.run]
  BY <1>1, <1>3, <1>4, <1>5, <1>7
<1> HIDE DEF q
<1>9a. Len(new.queue) <= QueueSize
  BY <1>1, <1>4, <1>5, EventsAssumption
<1>10. EventsTyped' /\ QueueContinues'
  BY <1>1, <1>2, <1>4, <1>5, <1>6, <1>8, <1>9, <1>9a, ViewWritten
<1>11. view'[s] = new /\ \A p \in Stream \ {s} : view'[p] = view[p]
  BY <1>1, <1>2
<1>12. \A p \in Stream : view'[p].state = view[p].state /\ view'[p].run = view[p].run
  BY <1>1, <1>4, <1>11
<1>13. RegistryHoldsOpenStreams'
  BY <1>1, <1>12 DEF EventsInv, RegistryHoldsOpenStreams
<1> QED
  BY <1>4, <1>7, <1>10, <1>11, <1>13 DEF EventsInv

LEMMA LeaveStep ==
    ASSUME EventsInv, NEW s \in Stream, Disconnect(s) \/ Abandon(s)
    PROVE  EventsInv' /\ view'[s].state = "none"
           /\ \A p \in Stream \ {s} : view'[p] = view[p]
<1> DEFINE r == view[s].run
<1>1. /\ view \in [Stream -> View] /\ entry \subseteq Watched /\ r \in Watched
      /\ subs \in [Watched -> SUBSET Stream] /\ events \in [Watched -> 0..MaxEvents]
      /\ view' = [view EXCEPT ![s] = NoView] /\ UNCHANGED events
  BY DEF EventsInv, EventsTyped, Disconnect, Abandon
<1>2. NoView \in View /\ NoView.state = "none" /\ Len(NoView.queue) = 0 /\ 0 <= QueueSize
  BY EventsAssumption DEF NoView, View
<1>3. view'[s] = NoView /\ \A p \in Stream \ {s} : view'[p] = view[p]
  BY <1>1
<1> HIDE DEF r
<1>4. CASE Disconnect(s)
  <2>1. /\ subs' = [subs EXCEPT ![r] = @ \ {s}]
        /\ entry' = IF Forgotten(s, r) THEN entry \ {r} ELSE entry
    BY <1>4 DEF Disconnect, r
  <2>2. /\ subs'[r] = subs[r] \ {s} /\ \A q \in Watched \ {r} : subs'[q] = subs[q]
        /\ subs' \in [Watched -> SUBSET Stream] /\ entry' \subseteq Watched
    BY <1>1, <2>1
  <2>3. EventsTyped' /\ QueueContinues'
    BY <1>1, <1>2, <2>2, ViewWritten
  <2>4. \A q \in Watched : subs'[q] # {} => q \in entry'
    BY <1>1, <2>1, <2>2 DEF EventsInv, RegistryHoldsOpenStreams, Forgotten
  <2>5. \A q \in Watched : \A p \in subs'[q] : view'[p].state = "open" /\ view'[p].run = q
    <3> SUFFICES ASSUME NEW q \in Watched, NEW p \in subs'[q]
                PROVE  view'[p].state = "open" /\ view'[p].run = q
      OBVIOUS
    <3>1. p \in subs[q] /\ p \in Stream
      BY <1>1, <2>2
    <3>2. view[p].state = "open" /\ view[p].run = q
      BY <3>1 DEF EventsInv, RegistryHoldsOpenStreams
    <3>3. p # s
      BY <2>2, <3>2 DEF r
    <3> QED
      BY <1>3, <3>1, <3>2, <3>3
  <2>6. ASSUME NEW q \in entry'
        PROVE  \E p \in Stream : view'[p].state = "open" /\ view'[p].run = q
    <3>1. CASE q = r
      <4>1. PICK p \in subs[r] : p # s
        BY <2>1, <2>6, <3>1 DEF Forgotten
      <4>2. p \in Stream /\ view[p].state = "open" /\ view[p].run = r
        BY <1>1, <4>1 DEF EventsInv, RegistryHoldsOpenStreams
      <4> QED
        BY <1>3, <3>1, <4>1, <4>2
    <3>2. CASE q # r
      <4>1. PICK p \in Stream : view[p].state = "open" /\ view[p].run = q
        BY <2>1, <2>6 DEF EventsInv, RegistryHoldsOpenStreams
      <4> QED
        BY <1>3, <3>2, <4>1 DEF r
    <3> QED
      BY <3>1, <3>2
  <2> QED
    BY <1>2, <1>3, <2>3, <2>4, <2>5, <2>6 DEF EventsInv, RegistryHoldsOpenStreams
<1>5. CASE Abandon(s)
  <2>1. UNCHANGED <<entry, subs>> /\ view[s].state # "open"
    BY <1>5 DEF Abandon
  <2>2. EventsTyped' /\ QueueContinues'
    BY <1>1, <1>2, <2>1, ViewWritten
  <2>3. RegistryHoldsOpenStreams'
    BY <1>1, <1>3, <2>1 DEF EventsInv, RegistryHoldsOpenStreams
  <2> QED
    BY <1>2, <1>3, <2>2, <2>3 DEF EventsInv
<1> QED
  BY <1>4, <1>5

LEMMA PublishStep ==
    ASSUME EventsInv, NEW r \in Watched, Publish(r)
    PROVE  EventsInv' /\ \A s \in Stream : view'[s].last = view[s].last
<1> DEFINE Gets(s) == s \in subs[r] /\ ~Full(s)
           number == events[r] + 1
           Told(s) == [view[s] EXCEPT !.queue = Append(view[s].queue, number)]
<1>1. /\ view \in [Stream -> View] /\ entry \subseteq Watched
      /\ subs \in [Watched -> SUBSET Stream] /\ events \in [Watched -> 0..MaxEvents]
      /\ number \in 1..MaxEvents /\ events[r] \in Nat
      /\ events' = [events EXCEPT ![r] = number] /\ subs' = [subs EXCEPT ![r] = Kept(r)]
      /\ UNCHANGED entry
  BY EventsAssumption DEF EventsInv, EventsTyped, Publish
<1>2. view' = [s \in Stream |-> IF Gets(s) THEN Told(s) ELSE view[s]]
  BY <1>1 DEF Publish, View
<1>3. /\ events'[r] = number /\ \A q \in Watched \ {r} : events'[q] = events[q]
      /\ subs'[r] = Kept(r) /\ \A q \in Watched \ {r} : subs'[q] = subs[q]
      /\ events' \in [Watched -> 0..MaxEvents] /\ subs' \in [Watched -> SUBSET Stream]
  <2>1. Kept(r) \in SUBSET Stream /\ number \in 0..MaxEvents
    BY <1>1, EventsAssumption DEF Kept
  <2> HIDE DEF number
  <2> QED
    BY <1>1, <2>1
<1>4. ASSUME NEW s \in Stream
      PROVE  LET q == view[s].queue IN
             /\ view[s] \in View /\ q \in Seq(1..MaxEvents) /\ Len(q) \in Nat
             /\ Told(s) \in View /\ Told(s).run = view[s].run /\ Told(s).state = view[s].state
             /\ Told(s).last = view[s].last /\ Told(s).queue = Append(q, number)
             /\ Len(Append(q, number)) = Len(q) + 1
             /\ \A i \in 1..Len(q) : Append(q, number)[i] = q[i]
             /\ Append(q, number)[Len(q) + 1] = number
  <2> DEFINE q == view[s].queue
             S == 1..MaxEvents
  <2>1. view[s] \in View /\ q \in Seq(S) /\ number \in S
    BY <1>1 DEF View
  <2> HIDE DEF number, S
  <2>2. /\ Append(q, number) \in Seq(S) /\ Len(q) \in Nat
        /\ Len(Append(q, number)) = Len(q) + 1
        /\ \A i \in 1..Len(q) : Append(q, number)[i] = q[i]
        /\ Append(q, number)[Len(q) + 1] = number
    BY <2>1, AppendProperties, LenProperties
  <2>3. /\ Told(s) \in View /\ Told(s).run = view[s].run /\ Told(s).state = view[s].state
        /\ Told(s).last = view[s].last /\ Told(s).queue = Append(q, number)
    BY <2>1, <2>2 DEF View, S
  <2> QED
    BY <2>1, <2>2, <2>3 DEF S
<1> HIDE DEF Gets, Told
<1>5. ASSUME NEW s \in Stream
      PROVE  /\ view'[s] = IF Gets(s) THEN Told(s) ELSE view[s]
             /\ view'[s] \in View /\ view'[s].run = view[s].run
             /\ view'[s].state = view[s].state /\ view'[s].last = view[s].last
             /\ view[s].state # "open" => view'[s] = view[s]
  <2>1. view'[s] = IF Gets(s) THEN Told(s) ELSE view[s]
    BY <1>2
  <2>2. Gets(s) => view[s].state = "open"
    BY DEF Gets, EventsInv, RegistryHoldsOpenStreams
  <2> QED
    BY <2>1, <2>2, <1>4
<1>6. EventsTyped'
  <2>1. view' \in [Stream -> View]
    BY <1>2, <1>5
  <2>2. ASSUME NEW s \in Stream
        PROVE  Len(view'[s].queue) <= QueueSize
    <3>1. CASE Gets(s)
      <4>1. Len(view[s].queue) < QueueSize /\ Len(view[s].queue) \in Nat
        BY <3>1, <1>4, EventsAssumption DEF Gets, Full
      <4>2. Len(view'[s].queue) = Len(view[s].queue) + 1
        BY <1>4, <1>5, <3>1
      <4> QED
        BY <4>1, <4>2, EventsAssumption
    <3>2. CASE ~Gets(s)
      BY <1>5, <3>2 DEF EventsInv, EventsTyped
    <3> QED
      BY <3>1, <3>2
  <2> QED
    BY <1>1, <1>3, <1>5, <2>1, <2>2 DEF EventsInv, EventsTyped
<1>7. ASSUME NEW s \in Stream, view'[s].state = "open"
      PROVE  /\ Consecutive(view'[s])
             /\ s \in subs'[view'[s].run] =>
                    view'[s].last + Len(view'[s].queue) = events'[view'[s].run]
  <2> DEFINE q == view[s].queue
  <2>1. /\ Consecutive(view[s]) /\ view[s].run \in Watched /\ view[s].last \in Nat
        /\ Len(q) \in Nat
        /\ s \in subs[view[s].run] => view[s].last + Len(q) = events[view[s].run]
    BY <1>4, <1>5, <1>7, EventsAssumption DEF EventsInv, QueueContinues, EventsTyped, View
  <2>2. CASE Gets(s)
    <3>1. view[s].run = r /\ view[s].last + Len(q) + 1 = number
      BY <2>1, <2>2, <1>1 DEF Gets, EventsInv, RegistryHoldsOpenStreams
    <3>2. /\ view'[s].queue = Append(q, number) /\ view'[s].last = view[s].last
          /\ view'[s].run = r /\ Len(view'[s].queue) = Len(q) + 1
      BY <1>4, <1>5, <2>2, <3>1
    <3>3. ASSUME NEW i \in 1..(Len(q) + 1)
          PROVE  Append(q, number)[i] = view[s].last + i
      <4>1. CASE i \in 1..Len(q)
        BY <1>4, <2>1, <4>1 DEF Consecutive
      <4>2. CASE i = Len(q) + 1
        <5>1. Append(q, number)[Len(q) + 1] = number
          BY <1>4
        <5> HIDE DEF q, number
        <5> QED
          BY <2>1, <3>1, <4>2, <5>1
      <4> QED
        BY <2>1, <4>1, <4>2
    <3>4. Consecutive(view'[s])
      BY <3>2, <3>3 DEF Consecutive
    <3>5. view'[s].last + Len(view'[s].queue) = events'[view'[s].run]
      BY <1>3, <2>1, <3>1, <3>2
    <3> QED
      BY <3>4, <3>5
  <2>3. CASE ~Gets(s)
    <3>1. view'[s] = view[s]
      BY <1>5, <2>3
    <3>2. s \in subs'[view[s].run] => view[s].run # r /\ s \in subs[view[s].run]
      BY <1>3, <2>1, <2>3 DEF Gets, Kept
    <3> QED
      BY <1>3, <2>1, <3>1, <3>2
  <2> QED
    BY <2>2, <2>3
<1>8. QueueContinues'
  BY <1>7 DEF QueueContinues, Consecutive
<1>9. RegistryHoldsOpenStreams'
  <2>1. \A q \in Watched : subs'[q] \subseteq subs[q]
    BY <1>3 DEF Kept
  <2> QED
    BY <1>1, <1>5, <2>1 DEF EventsInv, RegistryHoldsOpenStreams
<1> QED
  BY <1>5, <1>6, <1>8, <1>9 DEF EventsInv

LEMMA EventsInductive == EventsInv /\ [EventsNext]_eventVars => EventsInv'
<1> SUFFICES ASSUME EventsInv, [EventsNext]_eventVars
            PROVE  EventsInv'
  OBVIOUS
<1>1. CASE UNCHANGED eventVars
  BY <1>1 DEF eventVars, EventsInv, EventsTyped, QueueContinues, Consecutive,
              RegistryHoldsOpenStreams
<1>2. CASE EventsNext
  BY <1>2, OpenStep, SubscribeStep, ShowStep, LeaveStep, PublishStep DEF EventsNext
<1> QED
  BY <1>1, <1>2

LEMMA EventsInvariance == EventsSpec => []EventsInv
BY EventsInitEstablishes, EventsInductive, PTL DEF EventsSpec

\* The queues stay within their size and hold numbers of events.
THEOREM EventsTypeCorrect == EventsSpec => []EventsTypeOK
<1>1. EventsInv => EventsTypeOK
  BY DEF EventsInv, EventsTyped, View, EventsTypeOK
<1> QED
  BY <1>1, EventsInvariance, PTL

\* In whatever order streams overflow and leave, the registry holds open
\* streams only, and forgets a run with the last of them.
THEOREM RegistryIsCurrent == EventsSpec => []RegistryHoldsOpenStreams
<1>1. EventsInv => RegistryHoldsOpenStreams
  BY DEF EventsInv
<1> QED
  BY <1>1, EventsInvariance, PTL

\* What a step shows of a stream that stays open is the next event, or nothing.
LEMMA NextIsShown ==
    ASSUME EventsInv, [EventsNext]_eventVars, NEW s \in Stream,
           view[s].state = "open", view'[s].state = "open"
    PROVE  view'[s].last \in {view[s].last, view[s].last + 1}
<1>1. CASE UNCHANGED eventVars
  BY <1>1 DEF eventVars
<1>2. ASSUME NEW p \in Stream, (\E r \in Watched : OpenStream(p, r)) \/ Subscribe(p)
      PROVE  view'[s] = view[s]
  <2>1. view[p].state # "open"
    BY <1>2 DEF OpenStream, Subscribe
  <2> QED
    BY <1>2, <2>1 DEF OpenStream, Subscribe, EventsInv, EventsTyped
<1>3. ASSUME NEW p \in Stream, Show(p) \/ Disconnect(p) \/ Abandon(p)
      PROVE  view'[s].last \in {view[s].last, view[s].last + 1}
  BY <1>3, ShowStep, LeaveStep
<1>4. ASSUME NEW r \in Watched, Publish(r)
      PROVE  view'[s].last = view[s].last
  BY <1>4, PublishStep
<1> QED
  BY <1>1, <1>2, <1>3, <1>4 DEF EventsNext

\* A stream shows the events of its run one by one, without a hole, until its
\* queue overflows.
THEOREM StreamHasNoGaps == EventsSpec => ShownWithoutGaps
<1>1. EventsInv /\ [EventsNext]_eventVars =>
        [\A s \in Stream :
            view[s].state = "open" /\ view'[s].state = "open" =>
                view'[s].last \in {view[s].last, view[s].last + 1}]_view
  BY NextIsShown
<1> QED
  BY <1>1, EventsInvariance, PTL DEF EventsSpec, ShownWithoutGaps

(***************************************************************************)
(* The streams implement the feed: opening a stream and abandoning it       *)
(* before its body starts are nothing to the feed, and each other step is  *)
(* one of its steps.                                                       *)
(***************************************************************************)
LEMMA FeedInitially == EventsInit => Feed!FeedInit
BY DEF EventsInit, NoView, WatchedBy, ToldTo, Feed!FeedInit

\* A step that leaves every open stream as it is, and opens none.
LEMMA FeedRests ==
    ASSUME \A s \in Stream : WatchedBy(s)' = WatchedBy(s) /\ ToldTo(s)' = ToldTo(s)
    PROVE  /\ [s \in Stream |-> WatchedBy(s)]' = [s \in Stream |-> WatchedBy(s)]
           /\ [s \in Stream |-> ToldTo(s)]' = [s \in Stream |-> ToldTo(s)]
OBVIOUS

\* A step that writes the view of one stream.
LEMMA FeedOfOne ==
    ASSUME NEW s \in Stream, \A p \in Stream \ {s} : view'[p] = view[p]
    PROVE  /\ [p \in Stream |-> WatchedBy(p)]' =
                [[p \in Stream |-> WatchedBy(p)] EXCEPT ![s] = WatchedBy(s)']
           /\ [p \in Stream |-> ToldTo(p)]' =
                [[p \in Stream |-> ToldTo(p)] EXCEPT ![s] = ToldTo(s)']
<1>1. \A p \in Stream \ {s} : WatchedBy(p)' = WatchedBy(p) /\ ToldTo(p)' = ToldTo(p)
  BY DEF WatchedBy, ToldTo
<1> QED
  BY <1>1

\* What the queue of a subscribed stream holds goes on to the last event.
LEMMA PublishedIsLevel ==
    ASSUME EventsInv', NEW s \in Stream, view'[s].state = "open", s \in subs'[view'[s].run]
    PROVE  view'[s].last + Len(view'[s].queue) <= events'[view'[s].run]
<1>1. view'[s].last + Len(view'[s].queue) = events'[view'[s].run]
  BY DEF EventsInv, QueueContinues
<1>2. events'[view'[s].run] \in Nat
  BY DEF EventsInv, EventsTyped
<1> QED
  BY <1>1, <1>2

LEMMA TailIsShorter ==
    ASSUME NEW S, NEW q \in Seq(S), q # <<>>
    PROVE  Len(Tail(q)) = Len(q) - 1
BY HeadTailProperties

\* A stream that is opened, abandoned or disconnected is not watched after it.
LEMMA Unwatched ==
    ASSUME view \in [Stream -> View], NEW s \in Stream,
           (\E r \in Watched : OpenStream(s, r)) \/ Abandon(s) \/ Disconnect(s)
    PROVE  /\ view'[s].state # "open" /\ UNCHANGED events
           /\ \A p \in Stream \ {s} : view'[p] = view[p]
<1>1. NoView.state = "none" /\ NoView \in View
  BY EventsAssumption DEF NoView, View
<1>2. ASSUME NEW r \in Watched, OpenStream(s, r)
      PROVE  view'[s].state = "found"
  <2>1. view'[s] = [NoView EXCEPT !.run = r, !.state = "found"]
    BY <1>2 DEF OpenStream
  <2> QED
    BY <1>1, <2>1 DEF View
<1> QED
  BY <1>1, <1>2 DEF OpenStream, Abandon, Disconnect

\* No queue is ahead of what was published, not even one that is cut off.
NothingAhead ==
    \A s \in Stream :
        view[s].state = "open" => view[s].last + Len(view[s].queue) <= events[view[s].run]

LEMMA NothingAheadInductive ==
    ASSUME EventsInv, NothingAhead, [EventsNext]_eventVars
    PROVE  NothingAhead'
<1>1. /\ view \in [Stream -> View] /\ events \in [Watched -> 0..MaxEvents]
      /\ \A s \in Stream : view[s] \in View /\ Len(view[s].queue) \in Nat
  BY DEF EventsInv, EventsTyped, View
<1>2. ASSUME NEW s \in Stream, NEW p \in Stream, view'[p].state = "open",
             UNCHANGED events, view'[p] = view[p]
      PROVE  view'[p].last + Len(view'[p].queue) <= events'[view'[p].run]
  BY <1>2 DEF NothingAhead
<1>3. CASE UNCHANGED eventVars
  BY <1>3 DEF eventVars, NothingAhead
<1>4. ASSUME NEW s \in Stream, (\E r \in Watched : OpenStream(s, r)) \/ Abandon(s)
                                \/ Disconnect(s)
      PROVE  NothingAhead'
  <2>1. /\ view'[s].state # "open" /\ UNCHANGED events
        /\ \A p \in Stream \ {s} : view'[p] = view[p]
    BY <1>1, <1>4, Unwatched
  <2> QED
    BY <1>2, <2>1 DEF NothingAhead
<1>5. ASSUME NEW s \in Stream, Subscribe(s)
      PROVE  NothingAhead'
  <2>1. /\ view'[s].last = events[view[s].run] /\ view'[s].run = view[s].run
        /\ view'[s].queue = <<>> /\ events[view[s].run] \in Nat /\ UNCHANGED events
        /\ \A p \in Stream \ {s} : view'[p] = view[p]
    BY <1>1, <1>5 DEF Subscribe, EventsInv, EventsTyped, View
  <2>2. view'[s].last + Len(view'[s].queue) <= events'[view'[s].run]
    BY <2>1
  <2> QED
    BY <1>2, <2>1, <2>2 DEF NothingAhead
<1>6. ASSUME NEW s \in Stream, Show(s)
      PROVE  NothingAhead'
  <2>1. /\ view'[s].last = view[s].last + 1 /\ view'[s].run = view[s].run
        /\ view'[s].queue = Tail(view[s].queue) /\ UNCHANGED events
        /\ \A p \in Stream \ {s} : view'[p] = view[p]
    BY <1>1, <1>6, ShowStep DEF Show, View
  <2>2. Len(view'[s].queue) = Len(view[s].queue) - 1
    BY <1>1, <1>6, <2>1, TailIsShorter DEF Show, View
  <2>3. view[s].last \in Nat /\ view[s].run \in Watched /\ events[view[s].run] \in Nat
        /\ view[s].last + Len(view[s].queue) <= events[view[s].run]
    BY <1>1, <1>6, EventsAssumption DEF Show, NothingAhead, EventsInv, EventsTyped, View
  <2>4. view'[s].last + Len(view'[s].queue) <= events'[view'[s].run]
    BY <1>1, <2>1, <2>2, <2>3
  <2> QED
    BY <1>2, <2>1, <2>4 DEF NothingAhead
<1>7. ASSUME NEW r \in Watched, Publish(r)
      PROVE  NothingAhead'
  <2> SUFFICES ASSUME NEW s \in Stream, view'[s].state = "open"
              PROVE  view'[s].last + Len(view'[s].queue) <= events'[view'[s].run]
    BY DEF NothingAhead
  <2>1. /\ events' = [events EXCEPT ![r] = @ + 1] /\ events[r] \in Nat
        /\ \A q \in Watched : events[q] \in Nat /\ events[q] <= events'[q]
    BY <1>1, <1>7, EventsAssumption DEF Publish
  <2>2. CASE s \in subs'[view'[s].run]
    BY <1>7, <2>2, PublishStep, PublishedIsLevel
  <2>3. CASE view'[s] = view[s]
    <3>1. view[s].run \in Watched /\ view[s].last + Len(view[s].queue) <= events[view[s].run]
      BY <2>3 DEF NothingAhead, EventsInv, EventsTyped
    <3>2. view[s].last \in Nat
      BY <1>1, EventsAssumption DEF View
    <3>3. events[view[s].run] <= events'[view[s].run] /\ events[view[s].run] \in Nat
          /\ events'[view[s].run] \in Nat
      BY <1>1, <2>1, <3>1
    <3> QED
      BY <1>1, <2>3, <3>1, <3>2, <3>3
  <2>4. view'[s] = view[s] \/ s \in subs'[view'[s].run]
    BY <1>1, <1>7 DEF Publish, Kept, View, EventsInv, RegistryHoldsOpenStreams, EventsTyped
  <2> QED
    BY <2>2, <2>3, <2>4
<1> QED
  BY <1>3, <1>4, <1>5, <1>6, <1>7 DEF EventsNext

FeedInv == EventsInv /\ NothingAhead

LEMMA FeedInvariance == EventsSpec => []FeedInv
<1>1. EventsInit => NothingAhead
  BY DEF EventsInit, NoView, NothingAhead
<1>2. FeedInv /\ [EventsNext]_eventVars => FeedInv'
  BY EventsInductive, NothingAheadInductive DEF FeedInv
<1> QED
  BY <1>1, <1>2, EventsInitEstablishes, PTL DEF EventsSpec, FeedInv

LEMMA JoinIsFed ==
    ASSUME EventsInv, NEW s \in Stream, Subscribe(s)
    PROVE  Feed!Join(s, view[s].run)
<1> DEFINE r == view[s].run
<1>1. /\ view \in [Stream -> View] /\ view[s].state = "found" /\ view[s] \in View
      /\ view' = [view EXCEPT ![s].state = "open", ![s].last = events[r]]
      /\ UNCHANGED events
  BY DEF EventsInv, EventsTyped, Subscribe
<1>2. /\ view'[s].state = "open" /\ view'[s].run = r /\ view'[s].last = events[r]
      /\ \A p \in Stream \ {s} : view'[p] = view[p]
  BY <1>1 DEF View
<1>3. WatchedBy(s) = NoRun /\ WatchedBy(s)' = r /\ ToldTo(s)' = events[r]
  BY <1>1, <1>2 DEF WatchedBy, ToldTo
<1> QED
  BY <1>1, <1>2, <1>3, FeedOfOne DEF Feed!Join

LEMMA ShowIsFed ==
    ASSUME FeedInv, NEW s \in Stream, Show(s)
    PROVE  Feed!Tell(s)
<1> DEFINE r == view[s].run
<1>1. /\ view[s].state = "open" /\ view[s] \in View /\ r \in Watched
      /\ view \in [Stream -> View] /\ UNCHANGED events
      /\ view' = [view EXCEPT ![s].queue = Tail(@), ![s].last = Head(view[s].queue)]
  BY DEF FeedInv, EventsInv, EventsTyped, Show
<1>2. /\ view'[s].state = "open" /\ view'[s].run = r
      /\ view'[s].last = view[s].last + 1
      /\ \A p \in Stream \ {s} : view'[p] = view[p]
  BY <1>1, ShowStep DEF FeedInv, View
<1>3. WatchedBy(s) = r /\ WatchedBy(s)' = r /\ r # NoRun
  BY <1>1, <1>2, EventsAssumption DEF WatchedBy
<1>4. ToldTo(s) = view[s].last /\ ToldTo(s)' = view[s].last + 1
  BY <1>1, <1>2 DEF ToldTo
<1>5. view[s].last < events[r]
  <2>1. /\ view[s].last \in Nat /\ events[r] \in Nat /\ Len(view[s].queue) \in Nat \ {0}
        /\ view[s].last + Len(view[s].queue) <= events[r]
    BY <1>1, EventsAssumption, EmptySeq
       DEF Show, FeedInv, NothingAhead, EventsInv, EventsTyped, View
  <2> QED
    BY <2>1
<1>6. [p \in Stream |-> WatchedBy(p)]' = [p \in Stream |-> WatchedBy(p)]
  BY <1>2, <1>3, FeedOfOne
<1> QED
  BY <1>1, <1>2, <1>3, <1>4, <1>5, <1>6, FeedOfOne DEF Feed!Tell

LEMMA DisconnectIsFed ==
    ASSUME EventsInv, NEW s \in Stream, Disconnect(s)
    PROVE  Feed!Leave(s)
<1>1. /\ view[s].state = "open" /\ view[s].run \in Watched /\ UNCHANGED events
      /\ view'[s].state = "none" /\ \A p \in Stream \ {s} : view'[p] = view[p]
  BY LeaveStep DEF EventsInv, EventsTyped, Disconnect
<1>2. WatchedBy(s) # NoRun /\ WatchedBy(s)' = NoRun /\ ToldTo(s)' = 0
  BY <1>1, EventsAssumption DEF WatchedBy, ToldTo
<1> QED
  BY <1>1, <1>2, FeedOfOne DEF Feed!Leave

LEMMA PublishIsFed ==
    ASSUME EventsInv, NEW r \in Watched, Publish(r)
    PROVE  Feed!Happen(r)
<1>1. \A s \in Stream : /\ view'[s].state = view[s].state /\ view'[s].run = view[s].run
                        /\ view'[s].last = view[s].last
  BY DEF Publish, EventsInv, EventsTyped, View
<1>2. \A s \in Stream : WatchedBy(s)' = WatchedBy(s) /\ ToldTo(s)' = ToldTo(s)
  BY <1>1 DEF WatchedBy, ToldTo
<1>3. events' = [events EXCEPT ![r] = @ + 1]
  BY DEF Publish
<1> QED
  BY <1>2, <1>3, FeedRests DEF Feed!Happen

LEMMA FeedStep ==
    ASSUME FeedInv, [EventsNext]_eventVars
    PROVE  [Feed!FeedNext]_(Feed!feedVars)
<1>0. EventsInv
  BY DEF FeedInv
<1>1. CASE UNCHANGED eventVars
  BY <1>1 DEF eventVars, Feed!feedVars, WatchedBy, ToldTo
<1>2. ASSUME NEW s \in Stream, (\E r \in Watched : OpenStream(s, r)) \/ Abandon(s)
      PROVE  UNCHANGED Feed!feedVars
  <2>1. /\ view[s].state # "open" /\ view'[s].state # "open" /\ UNCHANGED events
        /\ \A p \in Stream \ {s} : view'[p] = view[p]
    <3>1. view[s].state # "open" /\ view \in [Stream -> View]
      BY <1>0, <1>2 DEF OpenStream, Abandon, EventsInv, EventsTyped
    <3> QED
      BY <1>2, <3>1, Unwatched
  <2>2. \A p \in Stream : WatchedBy(p)' = WatchedBy(p) /\ ToldTo(p)' = ToldTo(p)
    BY <2>1 DEF WatchedBy, ToldTo
  <2> QED
    BY <2>1, <2>2, FeedRests DEF Feed!feedVars
<1>3. ASSUME NEW s \in Stream, Subscribe(s) \/ Show(s) \/ Disconnect(s)
      PROVE  Feed!FeedNext
  <2>1. Subscribe(s) => view[s].run \in Watched
    BY <1>0 DEF Subscribe, EventsInv, EventsTyped
  <2> QED
    BY <1>0, <1>3, <2>1, JoinIsFed, ShowIsFed, DisconnectIsFed DEF Feed!FeedNext
<1>4. ASSUME NEW r \in Watched, Publish(r)
      PROVE  Feed!FeedNext
  BY <1>0, <1>4, PublishIsFed DEF Feed!FeedNext
<1> QED
  BY <1>1, <1>2, <1>3, <1>4 DEF EventsNext

\* With queues of any size, and however its streams overflow and leave, the
\* registry keeps what a watcher of a run is promised.
THEOREM StreamsImplementFeed == EventsSpec => KeepsFeed
BY FeedInitially, FeedStep, FeedInvariance, PTL DEF EventsSpec, KeepsFeed, Feed!FeedSpec

-----------------------------------------------------------------------------
(***************************************************************************)
(* BackgroundSessions, for any number of tasks, whichever of them nest,    *)
(* and any configured pool and reserve.                                    *)
(*                                                                         *)
(* The argument: a step changes the place of one task, and Weight says how *)
(* many permits a task has at a place; only the admission adds to them,    *)
(* and it adds one.  The waiters are in the line, each once.               *)
(***************************************************************************)
Weight(p) == IF p \in {"working", "nested"} THEN 1 ELSE IF p = "cleanup" THEN 2 ELSE 0

WaitersInLine ==
    /\ \A i \in 1..Len(line) : place[line[i]] \in {"waiting", "nested"}
    /\ \A i, j \in 1..Len(line) : line[i] = line[j] => i = j
    /\ \A t \in Task : place[t] \in {"waiting", "nested"} => \E i \in 1..Len(line) : line[i] = t

SessionsInv == SessionsTypeOK /\ WaitersInLine

\* There is at least one permit and one connection.
LEMMA LimitsType == Limit \in Nat \ {0} /\ Capacity \in Nat \ {0}
BY SessionsAssumption DEF Limit, Capacity, AtLeast

\* Two sets of tasks that differ in one task at most differ by one at most.
LEMMA TaskMoves ==
    ASSUME NEW S \in SUBSET Task, NEW T \in SUBSET Task, NEW t \in Task,
           \A u \in Task \ {t} : u \in T <=> u \in S
    PROVE  /\ Cardinality(S) \in Nat /\ Cardinality(T) \in Nat
           /\ t \in S /\ t \notin T => Cardinality(T) = Cardinality(S) - 1
           /\ t \notin S /\ t \in T => Cardinality(T) = Cardinality(S) + 1
           /\ (t \in S <=> t \in T) => Cardinality(T) = Cardinality(S)
<1>1. IsFiniteSet(S) /\ IsFiniteSet(T)
  BY SessionsAssumption, FS_Subset
<1>2. Cardinality(S) \in Nat /\ Cardinality(T) \in Nat
  BY <1>1, FS_CardinalityType
<1>3. ASSUME t \in S, t \notin T
      PROVE  Cardinality(T) = Cardinality(S) - 1
  <2>1. T = S \ {t}
    BY <1>3
  <2> QED
    BY <1>1, <1>3, <2>1, FS_RemoveElement
<1>4. ASSUME t \notin S, t \in T
      PROVE  Cardinality(T) = Cardinality(S) + 1
  <2>1. T = S \cup {t}
    BY <1>4
  <2> QED
    BY <1>1, <1>4, <2>1, FS_AddElement
<1>5. ASSUME t \in S <=> t \in T
      PROVE  T = S
  BY <1>5
<1> QED
  BY <1>2, <1>3, <1>4, <1>5

\* When one task moves, the permits change by the weights of its places.
LEMMA PermitsMove ==
    ASSUME place \in [Task -> Places], NEW t \in Task, NEW p \in Places,
           place' = [place EXCEPT ![t] = p]
    PROVE  /\ Permits \in Nat
           /\ Permits' = Permits - Weight(place[t]) + Weight(p)
<1> DEFINE Held == In("working") \cup In("nested")
           Clean == In("cleanup")
<1>1. Held \in SUBSET Task /\ Clean \in SUBSET Task
  BY DEF In
<1>2. /\ t \in Held <=> place[t] \in {"working", "nested"}
      /\ t \in Clean <=> place[t] = "cleanup"
  BY DEF In
<1>3. /\ \A u \in Task \ {t} : (u \in Held' <=> u \in Held) /\ (u \in Clean' <=> u \in Clean)
      /\ t \in Held' <=> p \in {"working", "nested"}
      /\ t \in Clean' <=> p = "cleanup"
      /\ Held' \in SUBSET Task /\ Clean' \in SUBSET Task
  BY DEF In, Places
<1>4. Permits = Cardinality(Held) + 2 * Cardinality(Clean)
  BY DEF Permits
<1>5. Permits' = Cardinality(Held') + 2 * Cardinality(Clean')
  BY DEF Permits
<1> HIDE DEF Held, Clean
<1>6. /\ Cardinality(Held) \in Nat /\ Cardinality(Held') \in Nat
      /\ t \in Held /\ t \notin Held' => Cardinality(Held') = Cardinality(Held) - 1
      /\ t \notin Held /\ t \in Held' => Cardinality(Held') = Cardinality(Held) + 1
      /\ (t \in Held <=> t \in Held') => Cardinality(Held') = Cardinality(Held)
  BY <1>1, <1>3, TaskMoves
<1>7. /\ Cardinality(Clean) \in Nat /\ Cardinality(Clean') \in Nat
      /\ t \in Clean /\ t \notin Clean' => Cardinality(Clean') = Cardinality(Clean) - 1
      /\ t \notin Clean /\ t \in Clean' => Cardinality(Clean') = Cardinality(Clean) + 1
      /\ (t \in Clean <=> t \in Clean') => Cardinality(Clean') = Cardinality(Clean)
  BY <1>1, <1>3, TaskMoves
<1> QED
  BY <1>2, <1>3, <1>4, <1>5, <1>6, <1>7 DEF Weight

LEMMA SessionsInitEstablishes == SessionsInit => SessionsInv
<1> SUFFICES ASSUME SessionsInit
            PROVE  SessionsInv
  OBVIOUS
<1>1. place \in [Task -> Places] /\ line \in Seq(Task) /\ Len(line) = 0
  BY DEF SessionsInit, Places
<1>2. In("working") = {} /\ In("nested") = {} /\ In("cleanup") = {}
  BY DEF SessionsInit, In
<1>3. Cardinality({}) = 0
  BY FS_EmptySet
<1>4. Permits <= Limit
  <2>1. In("working") \cup In("nested") = {}
    BY <1>2
  <2>2. Permits = 0
    BY <1>2, <1>3, <2>1 DEF Permits
  <2> QED
    BY <2>2, LimitsType
<1>5. Connections <= Capacity
  BY <1>3, LimitsType DEF SessionsInit, Connections
<1>6. WaitersInLine
  BY <1>1 DEF SessionsInit, WaitersInLine
<1> QED
  BY <1>1, <1>4, <1>5, <1>6 DEF SessionsInit, SessionsInv, SessionsTypeOK

\* A task that joins the line was not in it.
LEMMA Joins ==
    ASSUME SessionsInv, NEW t \in Task, NEW p \in {"waiting", "nested"},
           place[t] \notin {"waiting", "nested"},
           line' = Append(line, t), place' = [place EXCEPT ![t] = p]
    PROVE  line' \in Seq(Task) /\ WaitersInLine'
<1>1. line \in Seq(Task) /\ place \in [Task -> Places] /\ Len(line) \in Nat
  BY LenProperties DEF SessionsInv, SessionsTypeOK
<1>2. /\ line' \in Seq(Task) /\ Len(line') = Len(line) + 1
      /\ \A i \in 1..Len(line) : line'[i] = line[i]
      /\ line'[Len(line) + 1] = t
  BY <1>1, AppendProperties
<1>3. place'[t] = p /\ \A u \in Task \ {t} : place'[u] = place[u]
  BY <1>1
<1>4. \A i \in 1..Len(line) : line[i] \in Task /\ line[i] # t
  BY <1>1, ElementOfSeq DEF SessionsInv, WaitersInLine
<1>5. \A i \in 1..Len(line') : i \in 1..Len(line) \/ i = Len(line) + 1
  BY <1>1, <1>2
<1>6. \A i \in 1..Len(line') : place'[line'[i]] \in {"waiting", "nested"}
  BY <1>2, <1>3, <1>4, <1>5 DEF SessionsInv, WaitersInLine
<1>7. \A i, j \in 1..Len(line') : line'[i] = line'[j] => i = j
  BY <1>2, <1>4, <1>5 DEF SessionsInv, WaitersInLine
<1>8. ASSUME NEW u \in Task, place'[u] \in {"waiting", "nested"}
      PROVE  \E i \in 1..Len(line') : line'[i] = u
  <2>1. CASE u = t
    <3>1. Len(line) + 1 \in 1..Len(line')
      BY <1>1, <1>2
    <3> QED
      BY <1>2, <2>1, <3>1
  <2>2. CASE u # t
    <3>1. PICK i \in 1..Len(line) : line[i] = u
      BY <1>3, <1>8, <2>2 DEF SessionsInv, WaitersInLine
    <3>2. i \in 1..Len(line') /\ line'[i] = u
      BY <1>1, <1>2, <3>1
    <3> QED
      BY <3>2
  <2> QED
    BY <2>1, <2>2
<1> QED
  BY <1>2, <1>6, <1>7, <1>8 DEF WaitersInLine

LEMMA AdmitStep ==
    ASSUME SessionsInv, NEW t \in Task, Admit(t)
    PROVE  SessionsInv'
<1> USE DEF SessionsInv
<1> DEFINE p == IF place[t] = "nested" THEN "cleanup" ELSE "working"
<1>1. /\ line \in Seq(Task) /\ line # <<>> /\ line' = Tail(line) /\ t = Head(line)
      /\ place \in [Task -> Places] /\ UNCHANGED <<busy, ungated>>
      /\ place' = [place EXCEPT ![t] = p] /\ Permits < Limit /\ p \in Places
  BY DEF SessionsTypeOK, Admit, Places
<1>2. /\ Len(line) \in Nat \ {0} /\ line' \in Seq(Task) /\ Len(line') = Len(line) - 1
      /\ \A i \in 1..Len(line') : line'[i] = line[i + 1]
      /\ t = line[1]
  BY <1>1, EmptySeq, HeadTailProperties
<1>3. place'[t] = p /\ \A u \in Task \ {t} : place'[u] = place[u]
  BY <1>1
<1>4. place[t] \in {"waiting", "nested"}
  BY <1>2 DEF WaitersInLine
<1>5. Permits \in Nat /\ Permits' = Permits - Weight(place[t]) + Weight(p)
  BY <1>1, PermitsMove
<1>6. Weight(p) = Weight(place[t]) + 1 /\ Weight(place[t]) \in Nat
  BY <1>4 DEF Weight
<1>7. Permits' <= Limit'
  BY <1>1, <1>5, <1>6, LimitsType DEF Limit, Capacity
<1>8. /\ busy' \subseteq In("working")' \cup In("cleanup")'
      /\ ungated' \subseteq In("working")' \cup In("idle")'
  BY <1>1, <1>3, <1>4 DEF SessionsTypeOK, In
<1> HIDE DEF p
<1>9. \A i \in 1..Len(line') : i + 1 \in 1..Len(line) /\ i + 1 # 1 /\ line[i + 1] # t
  <2>1. \A i \in 1..Len(line') : i + 1 \in 1..Len(line) /\ i + 1 # 1 /\ 1 \in 1..Len(line)
    BY <1>2
  <2> QED
    BY <1>2, <2>1 DEF WaitersInLine
<1>10. \A i \in 1..Len(line') : place'[line'[i]] \in {"waiting", "nested"}
  <2> SUFFICES ASSUME NEW i \in 1..Len(line')
              PROVE  place'[line'[i]] \in {"waiting", "nested"}
    OBVIOUS
  <2>1. line'[i] = line[i + 1] /\ line[i + 1] \in Task \ {t} /\ i + 1 \in 1..Len(line)
    BY <1>1, <1>2, <1>9, ElementOfSeq
  <2> QED
    BY <1>3, <2>1 DEF WaitersInLine
<1>11. ASSUME NEW i \in 1..Len(line'), NEW j \in 1..Len(line'), line'[i] = line'[j]
       PROVE  i = j
  <2>1. i + 1 = j + 1
    BY <1>2, <1>9, <1>11 DEF WaitersInLine
  <2>2. i \in Nat /\ j \in Nat
    BY <1>2
  <2> QED
    BY <2>1, <2>2
<1>12. ASSUME NEW u \in Task, place'[u] \in {"waiting", "nested"}
       PROVE  \E i \in 1..Len(line') : line'[i] = u
  <2>1. u # t
    BY <1>3, <1>12 DEF p
  <2>2. PICK j \in 1..Len(line) : line[j] = u
    BY <1>3, <1>12, <2>1 DEF WaitersInLine
  <2>3. j - 1 \in 1..Len(line') /\ (j - 1) + 1 = j
    BY <1>2, <2>1, <2>2
  <2> QED
    BY <1>2, <2>2, <2>3
<1>13. WaitersInLine'
  BY <1>10, <1>11, <1>12 DEF WaitersInLine
<1>14. place' \in [Task -> Places] /\ Connections' <= Capacity'
  BY <1>1 DEF SessionsTypeOK, Connections, Capacity
<1> QED
  BY <1>2, <1>7, <1>8, <1>13, <1>14 DEF SessionsTypeOK

\* The line stays right when a task moves that neither waited nor waits.
LEMMA OthersWait ==
    ASSUME SessionsInv, NEW t \in Task, place[t] \notin {"waiting", "nested"},
           NEW p \in Places \ {"waiting", "nested"}, place' = [place EXCEPT ![t] = p],
           UNCHANGED line
    PROVE  WaitersInLine'
<1>1. line \in Seq(Task) /\ place \in [Task -> Places]
  BY DEF SessionsInv, SessionsTypeOK
<1>2. \A i \in 1..Len(line) : line[i] \in Task
  BY <1>1, ElementOfSeq
<1>3. place'[t] = p /\ \A u \in Task \ {t} : place'[u] = place[u]
  BY <1>1
<1> QED
  BY <1>2, <1>3 DEF SessionsInv, WaitersInLine

\* A set of connections that is a part of another is not larger.
LEMMA Connected ==
    ASSUME NEW S \in SUBSET Task, NEW T \in SUBSET S
    PROVE  Cardinality(T) <= Cardinality(S) /\ Cardinality(T) \in Nat /\ Cardinality(S) \in Nat
<1>1. IsFiniteSet(S)
  BY SessionsAssumption, FS_Subset
<1> QED
  BY <1>1, FS_Subset, FS_CardinalityType

LEMMA EnterStep ==
    ASSUME SessionsInv, NEW t \in Task, Enter(t)
    PROVE  SessionsInv'
<1> USE DEF SessionsInv
<1>1. /\ place \in [Task -> Places] /\ place[t] = "idle" /\ t \notin ungated /\ t \notin busy
      /\ line' = Append(line, t) /\ place' = [place EXCEPT ![t] = "waiting"]
      /\ UNCHANGED <<busy, ungated>> /\ "waiting" \in Places
  BY DEF SessionsTypeOK, Enter, Places, In
<1>2. line' \in Seq(Task) /\ WaitersInLine'
  BY <1>1, Joins
<1>3. Permits' = Permits - Weight(place[t]) + Weight("waiting") /\ Permits \in Nat
  BY <1>1, PermitsMove
<1>4. Permits' <= Limit'
  BY <1>1, <1>3, LimitsType DEF SessionsTypeOK, Weight, Limit, Capacity
<1>5. /\ busy' \subseteq In("working")' \cup In("cleanup")'
      /\ ungated' \subseteq In("working")' \cup In("idle")'
  BY <1>1 DEF SessionsTypeOK, In
<1>6. place' \in [Task -> Places] /\ Connections' <= Capacity'
  BY <1>1 DEF SessionsTypeOK, Connections, Capacity
<1> QED
  BY <1>2, <1>4, <1>5, <1>6 DEF SessionsTypeOK

LEMMA EndStep ==
    ASSUME SessionsInv, NEW t \in Task, SessionEnds(t)
    PROVE  SessionsInv'
<1> USE DEF SessionsInv
<1>1. /\ place \in [Task -> Places] /\ place[t] \in {"working", "cleanup"} /\ t \notin ungated
      /\ busy' = busy \ {t} /\ UNCHANGED ungated
  BY DEF SessionsTypeOK, SessionEnds, Close, Fails
<1>2. PICK p \in {"idle", "nested"} :
        /\ place' = [place EXCEPT ![t] = p]
        /\ p = "idle" => UNCHANGED line
        /\ p = "nested" => line' = Append(line, t) /\ place[t] = "working"
  BY DEF SessionEnds, Close, Fails
<1>3. p \in Places
  BY DEF Places
<1>4. line' \in Seq(Task) /\ WaitersInLine'
  <2>1. CASE p = "idle"
    BY <1>1, <1>2, <1>3, <2>1, OthersWait DEF SessionsTypeOK
  <2>2. CASE p = "nested"
    BY <1>1, <1>2, <2>2, Joins
  <2> QED
    BY <2>1, <2>2
<1>5. Permits' = Permits - Weight(place[t]) + Weight(p) /\ Permits \in Nat
  BY <1>1, <1>2, <1>3, PermitsMove
<1>6. Weight(p) <= Weight(place[t]) /\ Weight(p) \in Nat /\ Weight(place[t]) \in Nat
  BY <1>1, <1>2 DEF Weight
<1>7. Permits' <= Limit'
  BY <1>1, <1>5, <1>6, LimitsType DEF SessionsTypeOK, Limit, Capacity
<1>8. place'[t] = p /\ \A u \in Task \ {t} : place'[u] = place[u]
  BY <1>1, <1>2
<1>9. /\ busy' \subseteq In("working")' \cup In("cleanup")'
      /\ ungated' \subseteq In("working")' \cup In("idle")'
  BY <1>1, <1>8 DEF SessionsTypeOK, In
<1>10. Connections' <= Capacity'
  <2>1. busy \in SUBSET Task /\ busy' \in SUBSET busy /\ ungated \in SUBSET Task
    BY <1>1 DEF SessionsTypeOK, In
  <2>2. /\ Cardinality(busy') <= Cardinality(busy)
        /\ Cardinality(busy) \in Nat /\ Cardinality(busy') \in Nat
        /\ Cardinality(ungated) \in Nat
    BY <2>1, Connected
  <2> QED
    BY <1>1, <2>2, LimitsType DEF SessionsTypeOK, Connections, Capacity
<1> QED
  BY <1>2, <1>3, <1>1, <1>4, <1>7, <1>9, <1>10 DEF SessionsTypeOK

LEMMA ConnectionStep ==
    ASSUME SessionsInv, NEW t \in Task,
           CheckOut(t) \/ Return(t) \/ LookUpArxiv(t) \/ ArxivDone(t)
    PROVE  SessionsInv'
<1> USE DEF SessionsInv
<1>1. UNCHANGED <<line, place>>
  BY DEF CheckOut, Return, LookUpArxiv, ArxivDone
<1>2. busy \in SUBSET Task /\ ungated \in SUBSET Task
  BY DEF SessionsTypeOK, In
<1>3. /\ busy' \in SUBSET Task /\ ungated' \in SUBSET Task
      /\ busy' \subseteq In("working") \cup In("cleanup")
      /\ ungated' \subseteq In("working") \cup In("idle")
  BY <1>2 DEF CheckOut, Return, LookUpArxiv, ArxivDone, SessionsTypeOK, In
<1>4. /\ \A u \in Task \ {t} : (u \in busy' <=> u \in busy) /\ (u \in ungated' <=> u \in ungated)
      /\ \/ Connections < Capacity /\ t \notin busy /\ UNCHANGED ungated
         \/ Connections < Capacity /\ t \notin ungated /\ UNCHANGED busy
         \/ t \notin busy' /\ UNCHANGED ungated
         \/ t \notin ungated' /\ UNCHANGED busy
  BY DEF CheckOut, Return, LookUpArxiv, ArxivDone
<1>5. /\ Cardinality(busy) \in Nat /\ Cardinality(busy') \in Nat
      /\ t \in busy /\ t \notin busy' => Cardinality(busy') = Cardinality(busy) - 1
      /\ t \notin busy /\ t \in busy' => Cardinality(busy') = Cardinality(busy) + 1
      /\ (t \in busy <=> t \in busy') => Cardinality(busy') = Cardinality(busy)
  BY <1>2, <1>3, <1>4, TaskMoves
<1>6. /\ Cardinality(ungated) \in Nat /\ Cardinality(ungated') \in Nat
      /\ t \in ungated /\ t \notin ungated' => Cardinality(ungated') = Cardinality(ungated) - 1
      /\ t \notin ungated /\ t \in ungated' => Cardinality(ungated') = Cardinality(ungated) + 1
      /\ (t \in ungated <=> t \in ungated') => Cardinality(ungated') = Cardinality(ungated)
  BY <1>2, <1>3, <1>4, TaskMoves
<1>7. Connections' <= Capacity'
  <2>1. /\ Connections = Cardinality(busy) + Cardinality(ungated)
        /\ Connections' = Cardinality(busy') + Cardinality(ungated')
        /\ Capacity' = Capacity /\ Capacity \in Nat /\ Connections <= Capacity
    BY LimitsType DEF SessionsTypeOK, Connections, Capacity
  <2> QED
    BY <1>4, <1>5, <1>6, <2>1
<1>8. WaitersInLine' /\ Permits' <= Limit'
  BY <1>1 DEF WaitersInLine, SessionsTypeOK, Permits, In, Limit, Capacity
<1> QED
  BY <1>1, <1>3, <1>7, <1>8 DEF SessionsTypeOK, In

LEMMA SessionsInductive == SessionsInv /\ [SessionsNext]_sessionVars => SessionsInv'
<1> SUFFICES ASSUME SessionsInv, [SessionsNext]_sessionVars
            PROVE  SessionsInv'
  OBVIOUS
<1>1. CASE UNCHANGED sessionVars
  BY <1>1 DEF sessionVars, SessionsInv, SessionsTypeOK, WaitersInLine, Permits, Connections, In,
              Limit, Capacity
<1>2. CASE SessionsNext
  BY <1>2, EnterStep, AdmitStep, EndStep, ConnectionStep DEF SessionsNext
<1> QED
  BY <1>1, <1>2

LEMMA SessionsInvariance == SessionsSpec => []SessionsInv
BY SessionsInitEstablishes, SessionsInductive, PTL DEF SessionsSpec

\* No more permits are out than the semaphore has, a task that cleans up
\* included, which has two, and no more connections than the pool has.
THEOREM SessionsTypeCorrect == SessionsSpec => []SessionsTypeOK
<1>1. SessionsInv => SessionsTypeOK
  BY DEF SessionsInv
<1> QED
  BY <1>1, SessionsInvariance, PTL

\* No waiter is forgotten and none waits twice: the line of the semaphore is
\* exactly the tasks that wait, those with a permit in hand included.
THEOREM LineHoldsWaiters == SessionsSpec => []WaitersInLine
<1>1. SessionsInv => WaitersInLine
  BY DEF SessionsInv
<1> QED
  BY <1>1, SessionsInvariance, PTL
\* Only a task that nests waits with a permit in hand.
NestedNest == In("nested") \subseteq Nesting

LEMMA NestedNestInductive ==
    ASSUME SessionsInv, NestedNest, [SessionsNext]_sessionVars
    PROVE  NestedNest'
<1>1. place \in [Task -> Places]
  BY DEF SessionsInv, SessionsTypeOK
<1>2. CASE UNCHANGED sessionVars
  BY <1>2 DEF sessionVars, NestedNest, In
<1>3. ASSUME NEW t \in Task, UNCHANGED place \/ \E p : p # "nested" /\ place' = [place EXCEPT ![t] = p]
      PROVE  NestedNest'
  BY <1>1, <1>3 DEF NestedNest, In
<1>4. ASSUME NEW t \in Task, Fails(t)
      PROVE  NestedNest'
  BY <1>1, <1>4 DEF Fails, Nests, NestedNest, In
<1>5. ASSUME NEW t \in Task,
             Enter(t) \/ Admit(t) \/ CheckOut(t) \/ Return(t) \/ Close(t)
             \/ LookUpArxiv(t) \/ ArxivDone(t)
      PROVE  NestedNest'
  BY <1>3, <1>5 DEF Enter, Admit, CheckOut, Return, Close, LookUpArxiv, ArxivDone
<1> QED
  BY <1>2, <1>4, <1>5 DEF SessionsNext, SessionEnds

LEMMA NestedInvariance == SessionsSpec => [](SessionsInv /\ NestedNest)
<1>1. SessionsInit => NestedNest
  BY DEF SessionsInit, NestedNest, In
<1> QED
  BY <1>1, NestedNestInductive, SessionsInvariance, PTL DEF SessionsSpec

\* With nobody at work, the permits that are out are those of nesting tasks.
LEMMA IdlePermits ==
    ASSUME In("working") \cup In("cleanup") = {}
    PROVE  /\ Permits = Cardinality(In("nested"))
           /\ Permits \in Nat /\ Limit \in Nat
<1>1. In("working") \cup In("nested") = In("nested") /\ In("cleanup") = {}
  OBVIOUS
<1>2. IsFiniteSet(In("nested"))
  BY SessionsAssumption, FS_Subset DEF In
<1>3. Cardinality(In("nested")) \in Nat /\ Cardinality({}) = 0
  BY <1>2, FS_CardinalityType, FS_EmptySet
<1>4. Permits = Cardinality(In("nested")) + 2 * Cardinality({})
  BY <1>1 DEF Permits
<1> QED
  BY <1>3, <1>4, LimitsType

\* Nothing stops the background work but the self-wait, however many tasks and
\* permits there are, one permit included, and whichever tasks nest and fail.
THEOREM WaitersAreNotStuck == SessionsSpec => []SomebodyGoesOn
<1>1. SessionsInv /\ NestedNest => SomebodyGoesOn
  <2> SUFFICES ASSUME SessionsInv, NestedNest, ~(Permits < Limit),
                      In("working") \cup In("cleanup") = {}
              PROVE  SelfWait
    BY DEF SomebodyGoesOn
  <2>1. Permits <= Limit
    BY DEF SessionsInv, SessionsTypeOK
  <2>2. Cardinality(In("nested")) = Limit
    BY <2>1, IdlePermits
  <2> QED
    BY <2>2 DEF SelfWait, NestedNest
<1> QED
  BY <1>1, NestedInvariance, PTL

\* The self-wait is for good: once every permit is in the hands of a task that
\* waits for another, no task gets on until the process ends.
THEOREM SelfWaitIsForGood == SessionsSpec => [][SelfWait => SelfWait']_sessionVars
<1>1. SessionsInv /\ [SessionsNext]_sessionVars => [SelfWait => SelfWait']_sessionVars
  <2> SUFFICES ASSUME SessionsInv, SelfWait, SessionsNext
               PROVE  SelfWait'
    BY DEF sessionVars, SelfWait, In
  <2>1. place \in [Task -> Places] /\ busy = {}
    BY DEF SessionsInv, SessionsTypeOK, SelfWait
  <2>2. ~(Permits < Limit)
    BY IdlePermits DEF SelfWait
  <2>3. PICK t \in Task : Enter(t) \/ LookUpArxiv(t) \/ ArxivDone(t)
    BY <2>1, <2>2 DEF SessionsNext, SessionEnds, Admit, CheckOut, Return, Close, Fails,
        SelfWait, In
  <2>4. \/ place' = place
        \/ place[t] = "idle" /\ place' = [place EXCEPT ![t] = "waiting"]
    BY <2>3 DEF Enter, LookUpArxiv, ArxivDone
  <2>5. /\ In("working")' = In("working") /\ In("cleanup")' = In("cleanup")
        /\ In("nested")' = In("nested")
    BY <2>1, <2>4 DEF In
  <2> QED
    BY <2>5 DEF SelfWait
<1> QED
  BY <1>1, SessionsInvariance, PTL DEF SessionsSpec

\* Fewer nesting tasks than permits are too few for it.
THEOREM FewNestersNeverSelfWait ==
    ASSUME Cardinality(Nesting) < Limit
    PROVE  SessionsSpec => []~SelfWait
<1>1. ~SelfWait
  <2> SUFFICES ASSUME SelfWait
               PROVE  FALSE
    OBVIOUS
  <2>1. IsFiniteSet(Nesting)
    BY SessionsAssumption, FS_Subset
  <2>2. Cardinality(In("nested")) <= Cardinality(Nesting) /\ Cardinality(Nesting) \in Nat
    BY <2>1, FS_Subset, FS_CardinalityType DEF SelfWait
  <2>3. Limit \in Nat /\ Cardinality(In("nested")) = Limit
    BY LimitsType DEF SelfWait
  <2> QED
    BY <2>2, <2>3
<1> QED
  BY <1>1, PTL

-----------------------------------------------------------------------------
(***************************************************************************)
(* The parts of a run side by side, as the run LiveParts has them: a step  *)
(* of one leaves the others alone, so that the invariant of each is kept.  *)
(***************************************************************************)
PartsInv == PassInv /\ EnrichInv /\ StartInv /\ EventsInv /\ SessionsInv

LEMMA PartsInitially == MCInit => PartsInv
BY InitEstablishes, EnrichInitEstablishes, StartInitEstablishes, EventsInitEstablishes,
   SessionsInitEstablishes
   DEF MCInit, PartsInv

LEMMA PartsStep == PartsInv /\ [MCNext]_allVars => PartsInv'
<1> SUFFICES ASSUME PartsInv, [MCNext]_allVars
            PROVE  PartsInv'
  OBVIOUS
<1>1. [PassNext]_passVars
  BY DEF MCNext, allVars
<1>2. [EnrichNext]_enrichVars
  BY DEF MCNext, allVars
<1>3. [StartNext]_startVars
  BY DEF MCNext, allVars
<1>4. [EventsNext]_eventVars
  BY DEF MCNext, allVars
<1>5. [SessionsNext]_sessionVars
  BY DEF MCNext, allVars
<1> QED
  BY <1>1, <1>2, <1>3, <1>4, <1>5, Inductive, EnrichInductive, StartInductive,
     EventsInductive, SessionsInductive
     DEF PartsInv

\* Every part keeps its type beside the others, for any scholars, publications,
\* requests, streams and tasks.
THEOREM PartsTypeCorrect == MCSpec => []PartsTypeOK
<1>1. PartsInv => PartsTypeOK
  BY DEF PartsInv, PassInv, EnrichInv, StartInv, StartTyped, RequestState, HolderInserts,
         AnswersGiven, StartTypeOK, EventsInv, EventsTyped, View, EventsTypeOK, SessionsInv,
         PartsTypeOK
<1> QED
  BY <1>1, PartsInitially, PartsStep, PTL DEF MCSpec
=============================================================================
