--------------------------- MODULE RunPassesProofs ---------------------------
(***************************************************************************)
(* PassInv is an inductive invariant of RunPasses, for any number of       *)
(* scholars, pages, retries and any thresholds.  From it follow that the   *)
(* counters, on which the status of a run is decided, are the numbers of   *)
(* entries by outcome, and that what the progress has told adds up.        *)
(*                                                                         *)
(* The argument: a run that nothing has cut short has an entry of every    *)
(* scholar behind its turn, and one that something has cut short has read  *)
(* its cancel or has the entry of a challenge, which no later visit        *)
(* replaces, because a challenged scholar is not resumable.                *)
(*                                                                         *)
(* The last section is about the cooldown that a run may end with.         *)
(***************************************************************************)
EXTENDS RunPasses, SafetyCooldown, FiniteSetTheorems, TLAPS

\* The scholars whose entry has an outcome of O.
With(O) == {s \in Visited : result[s].outcome \in O}

Tallied ==
    /\ count.succeeded = Cardinality(With({"success", "partial"}))
    /\ count.failed = Cardinality(With({"failed"}))
    /\ count.partial = Cardinality(With({"partial"}))

\* What has ended a pass before its end.
Cut == halted.read \/ Challenged

\* No exception has left the passes.
Regular == phase = "over" => verdict.status # "raised"

\* The scholars the depth pass has still to visit.
Left == {s \in ahead : s >= turn}

VisitInPlace ==
    /\ phase = "depth" => PassPages > 1
    /\ asked.at # "none" =>
          /\ phase \in {"first", "depth"}
          /\ turn \in Visited
          /\ HasTurn
          /\ asked.pages <= PagesOfPass
          /\ asked.at = "request" => asked.pages < PagesOfPass

EntriesInOrder ==
    /\ halted.read => halted.row
    /\ phase = "first" =>
          /\ \A s \in ahead : s < turn
          /\ \A s \in Visited : s >= turn => result[s] = NoResult
    /\ \A s \in Visited : HardChallenge(result[s]) =>
          /\ result[s].outcome \in {"failed", "partial"}
          /\ s \notin ahead \/ (phase # "first" /\ s < turn)

AllVisited ==
    Regular /\ ~Cut =>
        \A s \in Visited : phase # "first" \/ s < turn => result[s] # NoResult

ShownAddsUp ==
    /\ phase = "first" => shown.finished = 0
    /\ shown.finished + Cardinality(Left) <= ScholarCount
    /\ Regular /\ ~Cut =>
          /\ shown.visited = IF phase = "first" THEN turn - 1 ELSE ScholarCount
          /\ phase # "first" => shown.finished + Cardinality(Left) = ScholarCount
    /\ Regular /\ phase \in {"completing", "over"} /\ PassPages > 1 =>
          turn = ScholarCount + 1

VerdictGiven == Judged => ~halted.read /\ verdict.status = StatusOf

PassInv ==
    /\ PassTypeOK
    /\ Tallied
    /\ VisitInPlace
    /\ EntriesInOrder
    /\ AllVisited
    /\ ShownAddsUp
    /\ VerdictGiven
-----------------------------------------------------------------------------
(* Numbers of scholars                                                     *)

LEMMA VisitedIsFinite ==
    /\ IsFiniteSet(Visited) /\ Cardinality(Visited) = ScholarCount
    /\ Visited \subseteq Nat
    /\ \A S \in SUBSET Visited :
          /\ IsFiniteSet(S) /\ Cardinality(S) \in Nat /\ Cardinality(S) <= ScholarCount
          /\ Cardinality(S) = ScholarCount <=> S = Visited
          /\ Cardinality(S) = 0 <=> S = {}
<1>1. IsFiniteSet(Visited) /\ Cardinality(Visited) = ScholarCount
  BY PassConstants, FS_Interval DEF Visited
<1>2. ASSUME NEW S \in SUBSET Visited
      PROVE  /\ IsFiniteSet(S) /\ Cardinality(S) <= ScholarCount
             /\ Cardinality(S) = ScholarCount <=> S = Visited
  BY <1>1, FS_Subset
<1>3. ASSUME NEW S \in SUBSET Visited
      PROVE  Cardinality(S) \in Nat /\ (Cardinality(S) = 0 <=> S = {})
  BY <1>2, FS_CardinalityType, FS_EmptySet
<1> QED
  BY <1>1, <1>2, <1>3, PassConstants DEF Visited

\* The entry of one scholar changes one of the numbers by one.
LEMMA OneEntryCounts ==
    ASSUME PassTypeOK, turn \in Visited, NEW e \in Result, NEW O,
           result' = [result EXCEPT ![turn] = e]
    PROVE  /\ Cardinality(With(O)) \in Nat /\ Cardinality(With(O)') \in Nat
           /\ Cardinality(With(O)') =
                Cardinality(With(O)) + (IF e.outcome \in O THEN 1 ELSE 0)
                                     - (IF result[turn].outcome \in O THEN 1 ELSE 0)
<1> DEFINE Rest == With(O) \ {turn}
<1>1. IsFiniteSet(With(O)) /\ Cardinality(With(O)) \in Nat
  BY VisitedIsFinite DEF With
<1>2. /\ IsFiniteSet(Rest) /\ Cardinality(Rest) \in Nat
      /\ Cardinality(Rest) = Cardinality(With(O)) - (IF result[turn].outcome \in O THEN 1 ELSE 0)
  <2>1. turn \in With(O) <=> result[turn].outcome \in O
    BY DEF With
  <2>2. Rest \in SUBSET Visited
    BY DEF With
  <2>3. IsFiniteSet(Rest) /\ Cardinality(Rest) \in Nat
    BY <2>2, VisitedIsFinite
  <2>4. Cardinality(Rest) =
          IF turn \in With(O) THEN Cardinality(With(O)) - 1 ELSE Cardinality(With(O))
    BY <1>1, FS_RemoveElement
  <2> QED
    BY <1>1, <2>1, <2>3, <2>4
<1>3. result' \in [Visited -> Result \cup {NoResult}] /\ result'[turn] = e
      /\ \A s \in Visited \ {turn} : result'[s] = result[s]
  BY DEF PassTypeOK
<1>4. With(O)' = IF e.outcome \in O THEN Rest \cup {turn} ELSE Rest
  BY <1>3 DEF With
<1>5. Cardinality(With(O)') = Cardinality(Rest) + (IF e.outcome \in O THEN 1 ELSE 0)
  <2>1. Cardinality(Rest \cup {turn}) = Cardinality(Rest) + 1
    BY <1>2, FS_AddElement
  <2> QED
    BY <1>2, <1>4, <2>1
<1> QED
  BY <1>1, <1>2, <1>5

LEMMA TallyStep ==
    ASSUME PassTypeOK, Tallied, turn \in Visited, NEW e \in Result,
           result' = [result EXCEPT ![turn] = e], count' = Recounted(result[turn], e)
    PROVE  Tallied' /\ count' \in [succeeded : Nat, failed : Nat, partial : Nat]
<1> DEFINE old == result[turn]
           c(O) == Cardinality(With(O))
           one(r, O) == IF r.outcome \in O THEN 1 ELSE 0
<1>1. count' = [succeeded |-> count.succeeded + one(e, {"success", "partial"})
                                              - one(old, {"success", "partial"}),
                failed |-> count.failed + one(e, {"failed"}) - one(old, {"failed"}),
                partial |-> count.partial + one(e, {"partial"}) - one(old, {"partial"})]
  <2>1. DOMAIN count = {"succeeded", "failed", "partial"}
    BY DEF PassTypeOK
  <2> QED
    BY <2>1 DEF Recounted, Counters
<1>2. \A O : /\ Cardinality(With(O)) \in Nat /\ Cardinality(With(O)') \in Nat
             /\ Cardinality(With(O)') = Cardinality(With(O)) + one(e, O) - one(old, O)
  BY OneEntryCounts
<1>3. /\ count'.succeeded = Cardinality(With({"success", "partial"})')
      /\ count'.failed = Cardinality(With({"failed"})')
      /\ count'.partial = Cardinality(With({"partial"})')
  <2> HIDE DEF one, old
  <2> QED
    BY <1>1, <1>2 DEF Tallied
<1>4. count' \in [succeeded : Nat, failed : Nat, partial : Nat]
  <2>1. count'.succeeded \in Nat /\ count'.failed \in Nat /\ count'.partial \in Nat
    BY <1>2, <1>3
  <2> HIDE DEF one, old
  <2> QED
    BY <1>1, <2>1
<1> QED
  BY <1>3, <1>4 DEF Tallied
-----------------------------------------------------------------------------
(* The steps of a visit                                                    *)

VisitRecord == [at : {"none", "request", "boundary"}, pages : 0..PassPages,
                more : BOOLEAN, net : 0..(NetworkRetries + 1),
                rate : 0..(RateLimitRetries + 1)]

HaltedRecord == [row : BOOLEAN, read : BOOLEAN]

\* The cancel may be read, and what was read is not forgotten.
ReadsOn ==
    /\ halted' \in HaltedRecord
    /\ halted'.read => halted'.row
    /\ halted.read => halted'.read

LEMMA NoVisitTyped == NoVisit \in VisitRecord /\ NoVisit.at = "none"
  BY PassConstants DEF NoVisit, VisitRecord

LEMMA VisitTyped ==
    ASSUME NEW at \in {"none", "request", "boundary"}, NEW more \in BOOLEAN,
           NEW pages \in Nat, pages <= PassPages,
           NEW net \in Nat, net <= NetworkRetries + 1,
           NEW rate \in Nat, rate <= RateLimitRetries + 1
    PROVE  [at |-> at, pages |-> pages, more |-> more, net |-> net, rate |-> rate] \in VisitRecord
<1>1. pages \in 0..PassPages /\ net \in 0..(NetworkRetries + 1) /\ rate \in 0..(RateLimitRetries + 1)
  BY PassConstants
<1> QED
  BY <1>1 DEF VisitRecord

LEMMA VisitFields ==
    ASSUME NEW v \in VisitRecord
    PROVE  /\ v.at \in {"none", "request", "boundary"} /\ v.more \in BOOLEAN
           /\ v.pages \in Nat /\ v.pages <= PassPages
           /\ v.net \in Nat /\ v.net <= NetworkRetries + 1
           /\ v.rate \in Nat /\ v.rate <= RateLimitRetries + 1
           /\ v = [at |-> v.at, pages |-> v.pages, more |-> v.more, net |-> v.net,
                   rate |-> v.rate]
<1>1. v.pages \in 0..PassPages /\ v.net \in 0..(NetworkRetries + 1)
      /\ v.rate \in 0..(RateLimitRetries + 1)
  BY DEF VisitRecord
<1> QED
  BY <1>1, PassConstants DEF VisitRecord

\* A challenged scholar is behind the turn, and is not ahead.
LEMMA ChallengeBehind ==
    ASSUME PassInv, turn \in Visited, HasTurn, NEW s \in Visited, HardChallenge(result[s])
    PROVE  s # turn
<1>1. CASE phase = "first"
  BY <1>1, PassConstants DEF PassInv, EntriesInOrder, HardChallenge, NoResult, Visited
<1>2. CASE phase # "first"
  BY <1>2, PassConstants DEF PassInv, EntriesInOrder, HasTurn, Visited
<1> QED
  BY <1>1, <1>2

\* Nothing but the visit under way changes.
LEMMA VisitGoesOn ==
    ASSUME PassInv, phase # "over", ReadsOn, asked' \in VisitRecord, VisitInPlace',
           UNCHANGED <<phase, turn, ahead, result, count, shown, verdict>>
    PROVE  PassInv'
<1>1. PassTypeOK' /\ Tallied'
  BY DEF PassInv, PassTypeOK, Tallied, With, ReadsOn, HaltedRecord, VisitRecord
<1>2. EntriesInOrder'
  BY DEF PassInv, EntriesInOrder, ReadsOn
<1>3. Cut => Cut'
  BY DEF Cut, Challenged, ReadsOn
<1>4. AllVisited' /\ ShownAddsUp'
  BY <1>3 DEF PassInv, AllVisited, ShownAddsUp, Regular, Left
<1> QED
  BY <1>1, <1>2, <1>4 DEF PassInv, VerdictGiven, Judged

LEMMA EndVisitStep ==
    ASSUME PassInv, NEW e \in Result, NEW resumable \in BOOLEAN, EndVisit(e, resumable),
           asked.at # "none", ReadsOn,
           HardChallenge(e) => e.outcome \in {"failed", "partial"}
    PROVE  PassInv'
<1>1. /\ turn \in Visited /\ HasTurn /\ phase \in {"first", "depth"}
      /\ turn \in Nat /\ ScholarCount \in Nat /\ turn <= ScholarCount
  BY PassConstants DEF PassInv, VisitInPlace, Visited
<1>2. /\ result' \in [Visited -> Result \cup {NoResult}] /\ result'[turn] = e
      /\ \A s \in Visited \ {turn} : result'[s] = result[s]
  BY <1>1 DEF EndVisit, PassInv, PassTypeOK
<1>3. Tallied' /\ count' \in [succeeded : Nat, failed : Nat, partial : Nat]
  BY <1>1, TallyStep DEF EndVisit, PassInv
<1>4. /\ turn' \in 1..(ScholarCount + 1) /\ turn' > turn
      /\ ahead' \subseteq ahead \cup {turn}
      /\ ahead \subseteq ahead'
  BY <1>1 DEF EndVisit
<1>5. shown' \in [visited : Nat, finished : Nat]
  BY DEF EndVisit, PassInv, PassTypeOK
<1>6. PassTypeOK'
  BY <1>1, <1>2, <1>3, <1>4, <1>5, NoVisitTyped
     DEF EndVisit, PassInv, PassTypeOK, ReadsOn, HaltedRecord, VisitRecord
<1>7. VisitInPlace'
  BY NoVisitTyped DEF EndVisit, PassInv, VisitInPlace
<1>8. Cut => Cut'
  BY <1>1, <1>2, ChallengeBehind DEF Cut, Challenged, ReadsOn
<1>9. HardChallenge(e) => Cut'
  BY <1>1, <1>2 DEF Cut, Challenged
<1>10. EntriesInOrder'
  <2>1. CASE phase = "first"
    <3>1. \A s \in ahead' : s < turn'
      BY <1>1, <1>4, <2>1 DEF PassInv, PassTypeOK, EntriesInOrder, Visited
    <3>2. \A s \in Visited : s >= turn' => result'[s] = NoResult
      BY <1>1, <1>2, <1>4, <2>1 DEF PassInv, EntriesInOrder, Visited
    <3>3. ASSUME NEW s \in Visited, HardChallenge(result'[s])
          PROVE  result'[s].outcome \in {"failed", "partial"} /\ s \notin ahead'
      <4>1. CASE s = turn
        <5>1. s \notin ahead
          BY <1>1, <2>1, <4>1 DEF PassInv, EntriesInOrder
        <5> QED
          BY <1>2, <3>3, <4>1, <5>1 DEF EndVisit
      <4>2. CASE s # turn
        BY <1>2, <1>4, <2>1, <3>3, <4>2 DEF PassInv, EntriesInOrder
      <4> QED
        BY <4>1, <4>2
    <3> QED
      BY <2>1, <3>1, <3>2, <3>3 DEF EntriesInOrder, EndVisit, ReadsOn
  <2>2. CASE phase = "depth"
    <3>1. ahead' = ahead
      BY <2>2 DEF EndVisit
    <3>2. ASSUME NEW s \in Visited, HardChallenge(result'[s])
          PROVE  /\ result'[s].outcome \in {"failed", "partial"}
                 /\ s \notin ahead' \/ s < turn'
      <4>1. CASE s = turn
        BY <1>1, <1>2, <1>4, <3>2, <4>1
      <4>2. CASE s # turn
        BY <1>1, <1>2, <1>4, <3>1, <3>2, <4>2 DEF PassInv, EntriesInOrder, Visited
      <4> QED
        BY <4>1, <4>2
    <3> QED
      BY <2>2, <3>2 DEF EntriesInOrder, EndVisit, ReadsOn
  <2> QED
    BY <1>1, <2>1, <2>2
<1>11. AllVisited'
  <2> SUFFICES ASSUME ~Cut', NEW s \in Visited, phase' # "first" \/ s < turn'
               PROVE  result'[s] # NoResult
    BY DEF AllVisited
  <2>1. CASE s = turn
    BY <1>2, <2>1 DEF Result, NoResult
  <2>2. CASE s # turn
    <3>1. ~Cut /\ turn' = turn + 1 /\ phase' = phase
      BY <1>8, <1>9 DEF EndVisit
    <3>2. phase # "first" \/ s < turn
      BY <1>1, <2>2, <3>1 DEF Visited
    <3> QED
      BY <1>1, <1>2, <2>2, <3>1, <3>2 DEF PassInv, AllVisited, Regular
  <2> QED
    BY <2>1, <2>2
<1>12. ShownAddsUp'
  <2>1. /\ Left \in SUBSET Visited /\ Left' \in SUBSET Visited
        /\ Cardinality(Left) \in Nat /\ Cardinality(Left') \in Nat
    BY <1>6, VisitedIsFinite DEF PassInv, PassTypeOK, Left
  <2>2. shown.visited \in Nat /\ shown.finished \in Nat
    BY DEF PassInv, PassTypeOK
  <2>3. shown.finished + Cardinality(Left) <= ScholarCount
    BY DEF PassInv, ShownAddsUp
  <2>4. CASE HardChallenge(e)
    <3>1. Left' = {}
      BY <1>1, <1>6, <2>4 DEF EndVisit, Left, PassTypeOK, Visited
    <3>2. UNCHANGED <<phase, shown>> /\ Cardinality(Left') = 0
      BY <2>4, <3>1, FS_EmptySet DEF EndVisit
    <3> QED
      BY <1>1, <1>9, <2>1, <2>2, <2>3, <2>4, <3>2 DEF PassInv, ShownAddsUp
  <2>5. CASE ~HardChallenge(e) /\ phase = "first"
    <3>1. Left' = {}
      BY <1>10, <1>6, <2>5 DEF EndVisit, EntriesInOrder, Left, PassTypeOK, Visited
    <3>2. /\ phase' = "first" /\ turn' = turn + 1 /\ Cardinality(Left') = 0
          /\ shown' = [shown EXCEPT !.visited = @ + 1]
      BY <2>5, <3>1, FS_EmptySet DEF EndVisit
    <3>3. shown'.finished = shown.finished /\ shown'.visited = shown.visited + 1
      BY <3>2 DEF PassInv, PassTypeOK
    <3>4. shown.finished = 0 /\ (~Cut => shown.visited = turn - 1)
      BY <2>5 DEF PassInv, ShownAddsUp, Regular
    <3> QED
      BY <1>1, <1>8, <2>2, <3>2, <3>3, <3>4 DEF ShownAddsUp
  <2>6. CASE ~HardChallenge(e) /\ phase = "depth"
    <3>1. turn \in Left /\ Left' = Left \ {turn}
      <4>1. ahead' = ahead /\ turn' = turn + 1 /\ ahead \subseteq Nat
        BY <2>6, VisitedIsFinite DEF EndVisit, PassInv, PassTypeOK
      <4>2. \A s \in Nat : s >= turn + 1 <=> s >= turn /\ s # turn
        BY <1>1
      <4>3. turn \in Left
        BY <1>1, <2>6 DEF Left, HasTurn
      <4>4. Left' = {s \in ahead : s >= turn + 1}
        BY <4>1 DEF Left
      <4> QED
        BY <4>1, <4>2, <4>3, <4>4 DEF Left
    <3>2. Cardinality(Left') = Cardinality(Left) - 1
      BY <2>1, <3>1, VisitedIsFinite, FS_RemoveElement
    <3>3. /\ phase' = "depth" /\ verdict' = verdict
          /\ shown' = [shown EXCEPT !.finished = @ + 1]
      BY <2>6 DEF EndVisit
    <3>4. shown'.finished = shown.finished + 1 /\ shown'.visited = shown.visited
      BY <3>3 DEF PassInv, PassTypeOK
    <3>5. ~Cut => shown.visited = ScholarCount
                  /\ shown.finished + Cardinality(Left) = ScholarCount
      BY <2>6 DEF PassInv, ShownAddsUp, Regular
    <3> QED
      BY <1>1, <1>8, <2>1, <2>2, <2>3, <3>2, <3>3, <3>4, <3>5 DEF ShownAddsUp
  <2> QED
    BY <1>1, <2>4, <2>5, <2>6
<1>13. VerdictGiven'
  BY <1>1 DEF EndVisit, VerdictGiven, Judged
<1> QED
  BY <1>3, <1>6, <1>7, <1>10, <1>11, <1>12, <1>13 DEF PassInv
\* Whatever is done while a page is asked for or at hand.
LEMMA AskedSteps ==
    ASSUME PassInv,
           \/ \E a \in PageFailure : RetryPage(a) \/ FailPage(a)
           \/ \E b \in BOOLEAN : ReadPage(b) \/ AtPageBoundary(b)
           \/ SkipScholar \/ WholeProfile \/ VisitRaises
    PROVE  PassInv'
<1>1. /\ asked \in VisitRecord /\ halted \in HaltedRecord /\ (halted.read => halted.row)
      /\ asked.at # "none" => phase # "over" /\ phase \in {"first", "depth"}
      /\ asked.at = "request" => asked.pages < PagesOfPass
      /\ PagesOfPass \in Nat /\ PagesOfPass <= PassPages
  BY PassConstants DEF PassInv, PassTypeOK, VisitInPlace, EntriesInOrder, PagesOfPass,
                       VisitRecord, HaltedRecord
<1>2. UNCHANGED halted => ReadsOn
  BY <1>1 DEF ReadsOn
<1>3. halted' = [halted EXCEPT !.read = halted.row] => ReadsOn
  BY <1>1 DEF ReadsOn, HaltedRecord
<1>4. ASSUME NEW a \in PageFailure, RetryPage(a)
      PROVE  PassInv'
  <2>1. asked' \in VisitRecord /\ asked'.at = "request" /\ asked'.pages = asked.pages
    <3> DEFINE net == IF a = Unreached THEN asked.net + 1 ELSE asked.net
               rate == IF a = "rate_limited" THEN asked.rate + 1 ELSE asked.rate
    <3>1. asked' = [at |-> "request", pages |-> asked.pages, more |-> asked.more,
                    net |-> net, rate |-> rate]
      BY <1>1, <1>4 DEF RetryPage, Classified, VisitRecord
    <3>2. net <= NetworkRetries + 1 /\ rate <= RateLimitRetries + 1
      BY <1>1, <1>4, <3>1, VisitFields, PassConstants DEF RetryPage, ShouldRetry, Unreached
    <3> QED
      BY <1>1, <3>1, <3>2, VisitFields, VisitTyped
  <2>2. VisitInPlace'
    BY <1>1, <1>4, <2>1 DEF RetryPage, PassInv, VisitInPlace, HasTurn, PagesOfPass
  <2> QED
    BY <1>1, <1>2, <1>4, <2>1, <2>2, VisitGoesOn DEF RetryPage
<1>5. ASSUME NEW a \in PageFailure, FailPage(a)
      PROVE  PassInv'
  <2> DEFINE e == [outcome |-> OutcomeOfFailure, state |-> a]
  <2>1. e \in Result /\ e.outcome \in {"failed", "partial"}
    BY DEF Result, OutcomeOfFailure
  <2> QED
    BY <1>2, <1>5, <2>1, EndVisitStep DEF FailPage
<1>6. ASSUME NEW b \in BOOLEAN, ReadPage(b)
      PROVE  PassInv'
  <2>1. asked' \in VisitRecord /\ asked'.at = "boundary" /\ asked'.pages = asked.pages + 1
    <3>1. asked' = [at |-> "boundary", pages |-> asked.pages + 1, more |-> b,
                    net |-> asked.net, rate |-> asked.rate]
      BY <1>1, <1>6 DEF ReadPage, VisitRecord
    <3>2. asked.pages + 1 \in Nat /\ asked.pages + 1 <= PassPages
      <4>1. asked.pages \in Nat /\ asked.pages < PagesOfPass
        BY <1>1, <1>6, VisitFields DEF ReadPage
      <4> QED
        BY <1>1, <4>1, PassConstants
    <3> QED
      BY <1>1, <3>1, <3>2, VisitFields, VisitTyped
  <2>2. asked.pages \in Nat /\ asked.at = "request"
    BY <1>1, <1>6, VisitFields DEF ReadPage
  <2>3. VisitInPlace'
    <3>1. /\ UNCHANGED <<phase, turn, ahead>>
          /\ asked.pages < PagesOfPass /\ PagesOfPass' = PagesOfPass /\ HasTurn' = HasTurn
      BY <1>1, <1>6, <2>2 DEF ReadPage, PagesOfPass, HasTurn
    <3>2. asked'.pages <= PagesOfPass'
      BY <1>1, <2>1, <2>2, <3>1
    <3> QED
      BY <2>1, <2>2, <3>1, <3>2 DEF PassInv, VisitInPlace
  <2> QED
    BY <1>1, <1>2, <1>6, <2>1, <2>3, VisitGoesOn DEF ReadPage
<1>7. ASSUME NEW b \in BOOLEAN, AtPageBoundary(b)
      PROVE  PassInv'
  <2>1. ReadsOn /\ asked.at = "boundary"
    BY <1>3, <1>7 DEF AtPageBoundary
  <2>2. CASE halted.row \/ b \/ asked.pages >= PagesOfPass
    <3> DEFINE e == [outcome |-> "partial", state |-> "ok"]
    <3>1. e \in Result /\ e.outcome \in {"failed", "partial"}
      BY DEF Result
    <3>2. (~halted.row /\ ~b) \in BOOLEAN /\ EndVisit(e, ~halted.row /\ ~b)
      BY <1>7, <2>2 DEF AtPageBoundary
    <3> QED
      BY <2>1, <3>1, <3>2, EndVisitStep
  <2>3. CASE ~(halted.row \/ b \/ asked.pages >= PagesOfPass)
    <3>1. /\ asked' = [asked EXCEPT !.at = "request", !.net = 0, !.rate = 0]
          /\ UNCHANGED <<phase, turn, ahead, result, count, shown, verdict>>
      BY <1>7, <2>3 DEF AtPageBoundary
    <3>2. asked' \in VisitRecord /\ asked'.at = "request" /\ asked'.pages = asked.pages
      <4>1. asked' = [at |-> "request", pages |-> asked.pages, more |-> asked.more,
                      net |-> 0, rate |-> 0]
        BY <1>1, <3>1 DEF VisitRecord
      <4> QED
        BY <1>1, <4>1, VisitFields, VisitTyped, PassConstants
    <3>3. asked.pages \in Nat
      BY <1>1, VisitFields
    <3>4. VisitInPlace'
      BY <1>1, <2>1, <2>3, <3>1, <3>2, <3>3 DEF PassInv, VisitInPlace, HasTurn, PagesOfPass
    <3> QED
      BY <1>1, <2>1, <3>1, <3>2, <3>4, VisitGoesOn
  <2> QED
    BY <2>2, <2>3
<1>8. ASSUME SkipScholar \/ WholeProfile
      PROVE  PassInv'
  <2> DEFINE e == [outcome |-> "success", state |-> "ok"]
  <2>1. e \in Result /\ ~HardChallenge(e)
    BY DEF Result, HardChallenge
  <2> QED
    BY <1>2, <1>8, <2>1, EndVisitStep DEF SkipScholar, WholeProfile
<1>9. ASSUME VisitRaises
      PROVE  PassInv'
  <2> DEFINE e == [outcome |-> "failed", state |-> "ingestion_error"]
  <2>1. e \in Result /\ ~HardChallenge(e)
    BY DEF Result, HardChallenge
  <2> QED
    BY <1>2, <1>9, <2>1, EndVisitStep DEF VisitRaises
<1> QED
  BY <1>4, <1>5, <1>6, <1>7, <1>8, <1>9

-----------------------------------------------------------------------------
(* The steps of the passes                                                 *)

LEMMA TakeTurnStep ==
    ASSUME PassInv, TakeTurn
    PROVE  PassInv'
<1>1. /\ asked \in VisitRecord /\ halted \in HaltedRecord
      /\ phase # "over" /\ phase \in {"first", "depth"}
  BY DEF TakeTurn, PassInv, PassTypeOK, VisitRecord, HaltedRecord
<1>2. ReadsOn
  BY <1>1 DEF TakeTurn, ReadsOn, HaltedRecord, PassInv, EntriesInOrder
<1>3. CASE ~halted.row
  <2>1. /\ asked' = [NoVisit EXCEPT !.at = "request"]
        /\ UNCHANGED <<phase, turn, ahead, result, count, shown, verdict>>
    BY <1>3 DEF TakeTurn
  <2>2. asked' \in VisitRecord /\ asked'.at = "request" /\ asked'.pages = 0
    <3>1. asked' = [at |-> "request", pages |-> 0, more |-> FALSE, net |-> 0, rate |-> 0]
      BY <2>1 DEF NoVisit
    <3>2. 0 <= PassPages /\ 0 <= NetworkRetries + 1 /\ 0 <= RateLimitRetries + 1
      BY PassConstants
    <3>3. [at |-> "request", pages |-> 0, more |-> FALSE, net |-> 0, rate |-> 0] \in VisitRecord
      BY <3>2, VisitTyped
    <3> QED
      BY <3>1, <3>3
  <2>3. VisitInPlace'
    BY <1>1, <2>1, <2>2, PassConstants
       DEF TakeTurn, PassInv, VisitInPlace, HasTurn, PagesOfPass
  <2> QED
    BY <1>1, <1>2, <2>1, <2>2, <2>3, VisitGoesOn
<1>4. CASE halted.row
  <2>1. /\ turn' = ScholarCount + 1 /\ halted'.read = TRUE
        /\ UNCHANGED <<phase, ahead, result, count, asked, shown, verdict>>
    BY <1>1, <1>4 DEF TakeTurn, HaltedRecord
  <2>2. PassTypeOK' /\ Tallied'
    BY <1>2, <2>1, PassConstants
       DEF PassInv, PassTypeOK, Tallied, With, ReadsOn, HaltedRecord
  <2>3. VisitInPlace' /\ VerdictGiven'
    BY <1>1, <2>1 DEF TakeTurn, PassInv, VisitInPlace, VerdictGiven, Judged
  <2>4. /\ ScholarCount \in Nat /\ turn \in Visited
        /\ \A s \in Visited : s < ScholarCount + 1 /\ s \in Nat
        /\ ahead \subseteq Visited
    <3>1. ScholarCount \in Nat /\ turn \in Visited /\ ahead \subseteq Visited
      BY PassConstants DEF TakeTurn, PassInv, PassTypeOK
    <3>2. \A s \in Visited : s < ScholarCount + 1 /\ s \in Nat
      BY <3>1 DEF Visited
    <3> QED
      BY <3>1, <3>2
  <2>5. EntriesInOrder'
    BY <1>2, <2>1, <2>4 DEF PassInv, EntriesInOrder, ReadsOn, Visited
  <2>6. AllVisited'
    BY <2>1 DEF AllVisited, Cut
  <2>7. ShownAddsUp'
    <3>1. Left' = {} /\ Cardinality(Left') = 0
      BY <2>1, <2>4, FS_EmptySet DEF Left
    <3>2. shown.finished \in Nat /\ Cardinality(Left) \in Nat
      BY VisitedIsFinite DEF PassInv, PassTypeOK, Left
    <3> QED
      BY <1>1, <2>1, <2>4, <3>1, <3>2 DEF PassInv, ShownAddsUp, Cut
  <2> QED
    BY <2>2, <2>3, <2>5, <2>6, <2>7 DEF PassInv
<1> QED
  BY <1>3, <1>4

LEMMA PassOverStep ==
    ASSUME PassInv, PassOver
    PROVE  PassInv'
<1>1. /\ ScholarCount \in Nat /\ turn \in Nat /\ turn \in Visited
      /\ turn <= ScholarCount /\ turn' = turn + 1 /\ turn \notin ahead
      /\ phase = "depth" /\ ahead \subseteq Nat
      /\ UNCHANGED <<phase, ahead, result, count, asked, halted, shown, verdict>>
  BY PassConstants DEF PassOver, HasTurn, Visited, PassInv, PassTypeOK
<1>2. PassTypeOK' /\ Tallied'
  BY <1>1 DEF PassInv, PassTypeOK, Tallied, With
<1>3. VisitInPlace' /\ VerdictGiven'
  BY <1>1 DEF PassInv, VisitInPlace, VerdictGiven, Judged, HasTurn
<1>4. EntriesInOrder'
  BY <1>1, VisitedIsFinite DEF PassInv, EntriesInOrder
<1>5. Cut' = Cut /\ Regular' = Regular
  BY <1>1 DEF Cut, Challenged, Regular
<1>6. AllVisited'
  BY <1>1, <1>5 DEF PassInv, AllVisited
<1>7. Left' = Left
  <2>1. \A s \in Nat : s # turn => (s >= turn + 1 <=> s >= turn)
    BY <1>1
  <2>2. Left' = {s \in ahead : s >= turn + 1}
    BY <1>1 DEF Left
  <2> QED
    BY <1>1, <2>1, <2>2 DEF Left
<1>8. ShownAddsUp'
  BY <1>1, <1>5, <1>7 DEF PassInv, ShownAddsUp
<1> QED
  BY <1>2, <1>3, <1>4, <1>6, <1>8 DEF PassInv

LEMMA LeavePassStep ==
    ASSUME PassInv, LeavePass
    PROVE  PassInv'
<1>1. /\ ScholarCount \in Nat /\ turn = ScholarCount + 1
      /\ phase \in {"first", "depth"} /\ ahead \in SUBSET Visited
      /\ \A s \in Visited : s \in Nat /\ s >= 1 /\ s < turn
      /\ UNCHANGED <<ahead, result, count, asked, halted, verdict>>
  <2>1. /\ turn = ScholarCount + 1 /\ phase \in {"first", "depth"}
        /\ UNCHANGED <<ahead, result, count, asked, halted, verdict>>
    BY DEF LeavePass
  <2>2. ScholarCount \in Nat /\ ahead \in SUBSET Visited
    BY PassConstants DEF PassInv, PassTypeOK
  <2>3. \A s \in Visited : s \in Nat /\ s >= 1 /\ s < turn
    BY <2>1, <2>2 DEF Visited
  <2> QED
    BY <2>1, <2>2, <2>3
<1>2. asked.at = "none"
  BY <1>1 DEF PassInv, PassTypeOK, VisitInPlace
<1>3. /\ shown.finished \in Nat /\ shown.visited \in Nat
      /\ Cardinality(ahead) \in Nat /\ Cardinality(ahead) <= ScholarCount
      /\ Cardinality(Left) = 0
  <2>1. Left = {}
    BY <1>1 DEF Left
  <2> QED
    BY <1>1, <2>1, VisitedIsFinite, FS_EmptySet DEF PassInv, PassTypeOK
<1>4. Cut' = Cut /\ phase' \in {"depth", "completing"} /\ Regular /\ Regular'
  BY <1>1 DEF LeavePass, Cut, Challenged, Regular
<1>5. EntriesInOrder' /\ AllVisited' /\ VerdictGiven'
  <2>1. EntriesInOrder'
    BY <1>1, <1>4 DEF LeavePass, PassInv, EntriesInOrder
  <2>2. AllVisited'
    BY <1>1, <1>4 DEF PassInv, AllVisited
  <2> QED
    BY <1>4, <2>1, <2>2 DEF VerdictGiven, Judged
<1>6. Tallied'
  BY <1>1 DEF PassInv, Tallied, With
<1>7. CASE phase = "first"
  <2>1. /\ phase' = IF PassPages > 1 THEN "depth" ELSE "completing"
        /\ turn' = 1
        /\ shown' = [shown EXCEPT !.finished = @ + (ScholarCount - Cardinality(ahead))]
    BY <1>7 DEF LeavePass, FinishedAtOnce
  <2>2. Left' = ahead
    BY <1>1, <2>1 DEF Left
  <2>3. shown'.finished = ScholarCount - Cardinality(ahead) /\ shown'.visited = shown.visited
    BY <1>1, <1>3, <1>7, <2>1 DEF PassInv, PassTypeOK, ShownAddsUp
  <2>4. PassTypeOK'
    <3>1. shown' \in [visited : Nat, finished : Nat]
      BY <1>1, <1>3, <1>7, <2>1 DEF PassInv, PassTypeOK, ShownAddsUp
    <3> QED
      BY <1>1, <2>1, <3>1 DEF PassInv, PassTypeOK
  <2>5. VisitInPlace'
    BY <1>1, <1>2, <2>1 DEF VisitInPlace
  <2>6. ShownAddsUp'
    BY <1>1, <1>3, <1>4, <1>7, <2>1, <2>2, <2>3 DEF PassInv, ShownAddsUp
  <2> QED
    BY <1>5, <1>6, <2>4, <2>5, <2>6 DEF PassInv
<1>8. CASE phase = "depth"
  <2>1. phase' = "completing" /\ UNCHANGED <<turn, shown>>
    BY <1>8 DEF LeavePass
  <2>2. PassTypeOK' /\ VisitInPlace'
    BY <1>1, <1>2, <2>1 DEF PassInv, PassTypeOK, VisitInPlace
  <2>3. ShownAddsUp'
    BY <1>1, <1>4, <1>8, <2>1 DEF PassInv, ShownAddsUp, Left
  <2> QED
    BY <1>5, <1>6, <2>2, <2>3 DEF PassInv
<1> QED
  BY <1>1, <1>7, <1>8

LEMMA CompletePassesStep ==
    ASSUME PassInv, CompletePasses
    PROVE  PassInv'
<1>1. /\ phase = "completing" /\ phase' = "over"
      /\ verdict' = [status |-> IF halted.read THEN "canceled" ELSE StatusOf,
                     cooldown |-> CooldownEntered]
      /\ UNCHANGED <<turn, ahead, result, count, asked, halted, shown>>
  BY DEF CompletePasses
<1>2. /\ StatusOf \in {"success", "partial_failure", "failed"}
      /\ CooldownEntered \in {"none", "blocked", "network"}
  BY DEF StatusOf, CooldownEntered
<1>3. PassTypeOK' /\ Tallied'
  BY <1>1, <1>2 DEF PassInv, PassTypeOK, Tallied, With
<1>4. VisitInPlace' /\ EntriesInOrder'
  BY <1>1 DEF PassInv, VisitInPlace, EntriesInOrder
<1>5. Cut' = Cut /\ Regular
  BY <1>1 DEF Cut, Challenged, Regular
<1>6. AllVisited' /\ ShownAddsUp'
  BY <1>1, <1>5 DEF PassInv, AllVisited, ShownAddsUp, Left
<1>7. VerdictGiven'
  BY <1>1, <1>2 DEF VerdictGiven, Judged, StatusOf
<1> QED
  BY <1>3, <1>4, <1>6, <1>7 DEF PassInv

LEMMA PassesRaiseStep ==
    ASSUME PassInv, PassesRaise
    PROVE  PassInv'
<1>1. /\ phase' = "over" /\ asked' = NoVisit /\ verdict'.status = "raised"
      /\ verdict' = [verdict EXCEPT !.status = "raised"]
      /\ UNCHANGED <<turn, ahead, result, count, halted, shown>>
  BY DEF PassesRaise, PassInv, PassTypeOK
<1>2. PassTypeOK' /\ Tallied'
  BY <1>1, NoVisitTyped DEF PassInv, PassTypeOK, Tallied, With, VisitRecord
<1>3. VisitInPlace' /\ EntriesInOrder'
  BY <1>1, NoVisitTyped DEF PassInv, VisitInPlace, EntriesInOrder
<1>4. AllVisited' /\ ShownAddsUp' /\ VerdictGiven'
  BY <1>1 DEF PassInv, AllVisited, ShownAddsUp, VerdictGiven, Judged, Regular, Left
<1> QED
  BY <1>2, <1>3, <1>4 DEF PassInv

LEMMA HaltStep ==
    ASSUME PassInv, Halt
    PROVE  PassInv'
<1>1. ReadsOn
  BY DEF Halt, ReadsOn, HaltedRecord, PassInv, PassTypeOK
<1>2. asked' \in VisitRecord /\ VisitInPlace'
  BY DEF Halt, VisitRecord, PassInv, PassTypeOK, VisitInPlace, HasTurn, PagesOfPass
<1> QED
  BY <1>1, <1>2, VisitGoesOn DEF Halt

-----------------------------------------------------------------------------
(* Theorems                                                                *)

LEMMA InitEstablishes == PassInit => PassInv
<1> SUFFICES ASSUME PassInit
             PROVE  PassInv
  OBVIOUS
<1>1. \A s \in Visited : result[s] = NoResult
  BY DEF PassInit
<1>2. PassTypeOK
  BY <1>1, PassConstants, NoVisitTyped DEF PassInit, PassTypeOK, VisitRecord
<1>3. Tallied
  <2>1. /\ With({"success", "partial"}) = {} /\ With({"failed"}) = {}
        /\ With({"partial"}) = {}
    BY <1>1 DEF With, NoResult
  <2> QED
    BY <2>1, FS_EmptySet DEF PassInit, Tallied
<1>4. VisitInPlace /\ EntriesInOrder /\ VerdictGiven
  BY <1>1, NoVisitTyped DEF PassInit, VisitInPlace, EntriesInOrder, HardChallenge, NoResult,
                            VerdictGiven, Judged
<1>5. AllVisited
  BY PassConstants DEF PassInit, AllVisited, Visited
<1>6. ShownAddsUp
  <2>1. Left = {}
    BY DEF PassInit, Left
  <2> QED
    BY <2>1, FS_EmptySet, PassConstants DEF PassInit, ShownAddsUp
<1> QED
  BY <1>2, <1>3, <1>4, <1>5, <1>6 DEF PassInv

LEMMA Inductive == PassInv /\ [PassNext]_passVars => PassInv'
<1> SUFFICES ASSUME PassInv, [PassNext]_passVars
             PROVE  PassInv'
  OBVIOUS
<1>1. CASE UNCHANGED passVars
  BY <1>1 DEF passVars, PassInv, PassTypeOK, Tallied, With, VisitInPlace, EntriesInOrder,
              AllVisited, ShownAddsUp, VerdictGiven, HasTurn, PagesOfPass, Regular, Cut,
              Challenged, Left, Judged, StatusOf
<1>2. CASE PassNext
  BY <1>2, AskedSteps, TakeTurnStep, PassOverStep, LeavePassStep, CompletePassesStep,
     PassesRaiseStep, HaltStep DEF PassNext
<1> QED
  BY <1>1, <1>2

\* PassInv holds in every state of every run.
THEOREM Invariance == PassSpec => []PassInv
  BY InitEstablishes, Inductive, PTL DEF PassSpec

\* The variables keep their types: the retries of a page and the pages of a
\* visit stay within their budgets.
THEOREM TypeCorrect == PassSpec => []PassTypeOK
<1>1. PassInv => PassTypeOK
  BY DEF PassInv
<1> QED
  BY <1>1, Invariance, PTL

\* The status of a run says how its visits went: SUCCESS if and only if all of
\* them succeeded, FAILED if and only if all of them failed.
THEOREM VerdictIsRight == PassSpec => []VerdictMatchesEntries
<1>1. PassInv => VerdictMatchesEntries
  <2> SUFFICES ASSUME PassInv, Judged
               PROVE  /\ StatusOf = "success"
                            <=> \A s \in Visited : result[s].outcome = "success"
                      /\ StatusOf = "failed"
                            <=> ScholarCount > 0
                                /\ \A s \in Visited : result[s].outcome = "failed"
    BY DEF VerdictMatchesEntries, PassInv, VerdictGiven
  <2> DEFINE F == With({"failed"})
             P == With({"partial"})
             S == With({"success", "partial"})
  <2>1. /\ ScholarCount \in Nat
        /\ F \in SUBSET Visited /\ P \in SUBSET Visited /\ S \in SUBSET Visited
        /\ count.failed = Cardinality(F) /\ count.partial = Cardinality(P)
        /\ count.succeeded = Cardinality(S)
    BY PassConstants DEF With, PassInv, Tallied
  <2>2. CASE ScholarCount = 0
    BY <2>2 DEF Visited, StatusOf
  <2>3. CASE ScholarCount > 0
    <3>1. PICK one \in Visited : TRUE
      BY <2>1, <2>3 DEF Visited
    <3>2. CASE count.failed = ScholarCount
      <4>1. \A s \in Visited : result[s].outcome = "failed"
        BY <2>1, <3>2, VisitedIsFinite DEF With
      <4> QED
        BY <2>3, <3>1, <3>2, <4>1 DEF StatusOf
    <3>3. CASE count.failed # ScholarCount /\ (count.failed > 0 \/ count.partial > 0)
      <4>1. F # Visited /\ (F # {} \/ P # {})
        BY <2>1, <3>3, VisitedIsFinite
      <4>2. ~\A s \in Visited : result[s].outcome = "failed"
        BY <4>1 DEF With
      <4>3. ~\A s \in Visited : result[s].outcome = "success"
        BY <4>1 DEF With
      <4> QED
        BY <2>3, <3>3, <4>2, <4>3 DEF StatusOf
    <3>4. CASE ~(count.failed > 0) /\ ~(count.partial > 0)
      <4>0. Cardinality(F) = 0 /\ Cardinality(P) = 0
        <5>1. Cardinality(F) \in Nat /\ Cardinality(P) \in Nat
          BY <2>1, VisitedIsFinite
        <5> QED
          BY <2>1, <3>4, <5>1
      <4>1. F = {} /\ P = {}
        BY <2>1, <4>0, VisitedIsFinite
      <4>2. ~Cut
        BY <4>1 DEF Cut, Challenged, With, PassInv, EntriesInOrder, VerdictGiven
      <4>3. \A s \in Visited : result[s] # NoResult
        BY <4>2 DEF PassInv, AllVisited, Regular, Judged
      <4>4. \A s \in Visited : result[s].outcome = "success"
        BY <4>1, <4>3 DEF With, Result, PassInv, PassTypeOK
      <4>5. S = Visited
        BY <4>4 DEF With
      <4>6. count.succeeded = ScholarCount /\ count.failed = 0 /\ count.partial = 0
        BY <2>1, <4>1, <4>5, VisitedIsFinite
      <4> QED
        BY <2>3, <3>1, <4>4, <4>6 DEF StatusOf
    <3> QED
      BY <3>2, <3>3, <3>4
  <2> QED
    BY <2>1, <2>2, <2>3
<1> QED
  BY <1>1, Invariance, PTL

\* The progress never tells of more scholars than there are, and of all of
\* them when nothing has cut the run short.
THEOREM ProgressIsRight == PassSpec => []ProgressAddsUp
<1>1. PassInv => ProgressAddsUp
  <2> SUFFICES ASSUME PassInv
               PROVE  ProgressAddsUp
    OBVIOUS
  <2>1. /\ ScholarCount \in Nat /\ Left \in SUBSET Visited
        /\ shown \in [visited : Nat, finished : Nat]
        /\ shown.finished + Cardinality(Left) <= ScholarCount
    BY PassConstants DEF PassInv, PassTypeOK, ShownAddsUp, Left
  <2>2. shown.finished \in Nat /\ Cardinality(Left) \in Nat
    BY <2>1, VisitedIsFinite
  <2>3. ASSUME Judged, ~Challenged, PassPages > 1
        PROVE  shown = [visited |-> ScholarCount, finished |-> ScholarCount]
    <3>1. phase = "over" /\ Regular /\ ~Cut /\ turn = ScholarCount + 1
      BY <2>3 DEF Judged, Regular, Cut, PassInv, VerdictGiven, ShownAddsUp
    <3>2. Left = {}
      BY <2>1, <3>1 DEF Left, Visited
    <3>3. Cardinality(Left) = 0
      BY <3>2, FS_EmptySet
    <3>4. shown.visited = ScholarCount /\ shown.finished = ScholarCount
      BY <2>1, <2>2, <3>1, <3>3 DEF PassInv, ShownAddsUp
    <3> QED
      BY <2>1, <3>4
  <2> QED
    BY <2>1, <2>2, <2>3 DEF ProgressAddsUp
<1> QED
  BY <1>1, Invariance, PTL

-----------------------------------------------------------------------------
(***************************************************************************)
(* SafetyCooldown, for any number of sessions and any length of the two    *)
(* cooldowns.                                                              *)
(*                                                                         *)
(* The argument: whoever is at the preflight took the advisory lock and    *)
(* has not committed since; the completion writes columns that it decides  *)
(* on its copy, which is as well typed as the row it was read from.        *)
(***************************************************************************)
LockKept == \A s \in Session : pc[s] = "preflight" => lock = s

SafetyInv == TypeOK /\ LockKept

LEMMA CooldownTyped ==
    /\ Longest \in Nat /\ Passed + BlockedTime \in Null..Longest
    /\ Passed + NetworkTime \in Null..Longest
    /\ Null \in Null..Longest /\ NoCooldown \in Cooldown
BY SafetyConstants DEF Longest, Null, Passed, NoCooldown, Cooldown, Reason

\* What a session writes is a pair of columns.
LEMMA WrittenTyped ==
    ASSUME TypeOK, NEW s \in Session
    PROVE  /\ ClearedBy(s) \in Cooldown
           /\ \A reason \in Reason : EnteredBy(s, reason) \in Cooldown
           /\ \A reason \in Reason \cup {"none"} : AfterRun(s, reason) \in Cooldown
<1>1. cooldown \in Cooldown /\ cooldown.reason \in Reason \cup {"none"}
  BY DEF TypeOK, Cooldown
<1>2. ClearedBy(s) \in Cooldown
  BY <1>1, CooldownTyped DEF ClearedBy, Cooldown
<1>3. ASSUME NEW reason \in Reason
      PROVE  EnteredBy(s, reason) \in Cooldown
  <2>1. Passed + Duration(reason) \in Null..Longest
    BY CooldownTyped DEF Duration
  <2> QED
    BY <1>1, <2>1 DEF EnteredBy, Cooldown
<1> QED
  BY <1>1, <1>2, <1>3 DEF AfterRun

LEMMA TickTyped ==
    ASSUME NEW c \in Cooldown
    PROVE  OneTickLess(c) \in Cooldown
<1>1. c.until \in Null..Longest /\ Longest \in Nat
  BY CooldownTyped DEF Cooldown
<1>2. (IF c.until > Passed THEN c.until - 1 ELSE c.until) \in Null..Longest
  BY <1>1 DEF Null, Passed
<1> QED
  BY <1>2 DEF OneTickLess, Cooldown

\* A session that goes on with the lock it has, or takes the one that is free.
LEMMA SessionMoves ==
    ASSUME SafetyInv, NEW s \in Session, NEW place \in SessionPC, Moves(s, place),
           lock' \in {lock, Released(s)} \/ (lock = NoSession /\ lock' = s),
           place = "preflight" => lock' = s
    PROVE  /\ pc' \in [Session -> SessionPC] /\ lock' \in Session \cup {NoSession}
           /\ LockKept'
<1>1. pc \in [Session -> SessionPC] /\ lock \in Session \cup {NoSession}
  BY DEF SafetyInv, TypeOK
<1>2. pc' = [pc EXCEPT ![s] = place]
  BY DEF Moves
<1>3. ASSUME NEW u \in Session, pc'[u] = "preflight"
      PROVE  lock' = u
  <2>1. CASE u = s
    BY <1>1, <1>2, <1>3, <2>1
  <2>2. CASE u # s
    <3>1. lock = u
      BY <1>1, <1>2, <1>3, <2>2 DEF SafetyInv, LockKept
    <3> QED
      BY <2>2, <3>1, SafetyConstants DEF Released
  <2> QED
    BY <2>1, <2>2
<1> QED
  BY <1>1, <1>2, <1>3 DEF Released, LockKept

\* A session that ends.
LEMMA CloseStep ==
    ASSUME SafetyInv, NEW s \in Session, Closes(s), cooldown' \in Cooldown, active' \subseteq Session
    PROVE  SafetyInv'
<1>1. seen' \in [Session -> Cooldown] /\ scheduled' \in [Session -> BOOLEAN]
  BY CooldownTyped DEF SafetyInv, TypeOK, Closes
<1>2. Moves(s, "idle") /\ lock' = Released(s) /\ "idle" \in SessionPC
  BY DEF Closes, SessionPC
<1>3. pc' \in [Session -> SessionPC] /\ lock' \in Session \cup {NoSession} /\ LockKept'
  BY <1>2, SessionMoves
<1> QED
  BY <1>1, <1>3 DEF SafetyInv, TypeOK

LEMMA SafetyInductive == SafetyInv /\ [Next]_vars => SafetyInv'
<1> SUFFICES ASSUME SafetyInv, [Next]_vars
            PROVE  SafetyInv'
  OBVIOUS
<1>0. /\ cooldown \in Cooldown /\ seen \in [Session -> Cooldown]
      /\ pc \in [Session -> SessionPC] /\ scheduled \in [Session -> BOOLEAN]
      /\ lock \in Session \cup {NoSession} /\ active \subseteq Session
      /\ {"idle", "clearing", "gated", "preflight", "spawned", "running", "resolving"}
            \subseteq SessionPC
  BY DEF SafetyInv, TypeOK, SessionPC
<1>1. ASSUME NEW s \in Session, NEW byScheduler \in BOOLEAN, Gate(s, byScheduler)
      PROVE  SafetyInv'
  <2>1. \E place \in SessionPC : Moves(s, place) /\ place # "preflight"
    BY <1>0, <1>1 DEF Gate
  <2>2. UNCHANGED <<cooldown, lock, active>>
        /\ seen' \in [Session -> Cooldown] /\ scheduled' \in [Session -> BOOLEAN]
    BY <1>0, <1>1 DEF Gate
  <2>3. pc' \in [Session -> SessionPC] /\ lock' \in Session \cup {NoSession} /\ LockKept'
    BY <2>1, <2>2, SessionMoves
  <2> QED
    BY <1>0, <2>2, <2>3 DEF SafetyInv, TypeOK
<1>2. ASSUME NEW s \in Session,
             \/ Clear(s) \/ LockRefused(s) \/ PreflightBlocked(s) \/ StartRefused(s)
             \/ Raise(s) \/ Settle(s)
      PROVE  SafetyInv'
  <2>1. Closes(s)
    BY <1>2 DEF Clear, LockRefused, PreflightBlocked, StartRefused, Raise, Settle
  <2>2. cooldown' \in Cooldown
    <3>1. "blocked" \in Reason /\ TypeOK
      BY DEF Reason, SafetyInv
    <3> QED
      BY <1>0, <1>2, <3>1, WrittenTyped
         DEF Clear, LockRefused, PreflightBlocked, StartRefused, Raise, Settle
  <2>3. active' \subseteq Session
    BY <1>0, <1>2 DEF Clear, LockRefused, PreflightBlocked, StartRefused, Raise, Settle
  <2> QED
    BY <2>1, <2>2, <2>3, CloseStep
<1>3. ASSUME NEW s \in Session, Lock(s)
      PROVE  SafetyInv'
  <2>1. Moves(s, "preflight") /\ lock = NoSession /\ lock' = s
    BY <1>3 DEF Lock
  <2>2. pc' \in [Session -> SessionPC] /\ lock' \in Session \cup {NoSession} /\ LockKept'
    BY <1>0, <2>1, SessionMoves
  <2> QED
    BY <1>0, <1>3, <2>2 DEF Lock, SafetyInv, TypeOK
<1>4. ASSUME NEW s \in Session, StartRun(s)
      PROVE  SafetyInv'
  <2>1. \E place \in SessionPC : Moves(s, place) /\ place # "preflight"
    BY <1>0, <1>4 DEF StartRun
  <2>2. lock' \in {lock, Released(s)}
    BY <1>4 DEF StartRun
  <2>3. seen' \in [Session -> Cooldown] /\ active' \subseteq Session
        /\ UNCHANGED <<cooldown, scheduled>>
    BY <1>0, <1>4, CooldownTyped DEF StartRun
  <2>4. pc' \in [Session -> SessionPC] /\ lock' \in Session \cup {NoSession} /\ LockKept'
    BY <2>1, <2>2, SessionMoves
  <2> QED
    BY <1>0, <2>3, <2>4 DEF SafetyInv, TypeOK
<1>5. ASSUME NEW s \in Session, Prepare(s)
      PROVE  SafetyInv'
  <2>1. Moves(s, "running") /\ UNCHANGED lock /\ seen' \in [Session -> Cooldown]
    BY <1>0, <1>5 DEF Prepare
  <2>2. pc' \in [Session -> SessionPC] /\ lock' \in Session \cup {NoSession} /\ LockKept'
    BY <1>0, <2>1, SessionMoves
  <2> QED
    BY <1>0, <1>5, <2>1, <2>2 DEF Prepare, SafetyInv, TypeOK
<1>6. ASSUME NEW s \in Session, StorePage(s)
      PROVE  SafetyInv'
  BY <1>0, <1>6 DEF StorePage, SafetyInv, TypeOK, LockKept
<1>7. ASSUME NEW s \in Session, NEW reason \in Reason \cup {"none"}, Complete(s, reason)
      PROVE  SafetyInv'
  <2>1. cooldown' \in Cooldown
    BY <1>7, WrittenTyped DEF Complete, SafetyInv
  <2>2. CASE Closes(s) /\ UNCHANGED active
    BY <1>0, <2>1, <2>2, CloseStep
  <2>3. CASE /\ active' = {s} /\ Moves(s, "resolving")
             /\ seen' = [seen EXCEPT ![s] = NoCooldown]
             /\ lock' = Released(s) /\ UNCHANGED scheduled
    <3>1. seen' \in [Session -> Cooldown]
      BY <1>0, <2>3, CooldownTyped
    <3>2. pc' \in [Session -> SessionPC] /\ lock' \in Session \cup {NoSession} /\ LockKept'
      BY <1>0, <2>3, SessionMoves
    <3> QED
      BY <1>0, <2>1, <2>3, <3>1, <3>2 DEF SafetyInv, TypeOK
  <2> QED
    BY <1>7, <2>2, <2>3 DEF Complete
<1>8. ASSUME NEW s \in Session, Cancel(s)
      PROVE  SafetyInv'
  BY <1>0, <1>8 DEF Cancel, SafetyInv, TypeOK, LockKept
<1>9. CASE Tick
  BY <1>0, <1>9, TickTyped DEF Tick, SafetyInv, TypeOK, LockKept
<1>10. CASE Restart
  BY <1>0, <1>10, CooldownTyped DEF Restart, SafetyInv, TypeOK, LockKept
<1>11. CASE UNCHANGED vars
  BY <1>0, <1>11 DEF vars, SafetyInv, TypeOK, LockKept
<1> QED
  BY <1>1, <1>2, <1>3, <1>4, <1>5, <1>6, <1>7, <1>8, <1>9, <1>10, <1>11
     DEF Next, SessionStep

LEMMA SafetyInvariance == Spec => []SafetyInv
<1>1. Init => SafetyInv
  BY CooldownTyped DEF Init, SafetyInv, TypeOK, LockKept, SessionPC
<1> QED
  BY <1>1, SafetyInductive, PTL DEF Spec

\* However stale the copies are that runs decide on, no cooldown ever lasts
\* longer than the longer of the two that are configured (run_guards.py:94,
\* run_completion.py:136).
THEOREM CooldownTypeCorrect == Spec => []TypeOK
<1>1. SafetyInv => TypeOK
  BY DEF SafetyInv
<1> QED
  BY <1>1, SafetyInvariance, PTL

\* Two starts never probe Google Scholar for one account at the same time: the
\* lock is held from before the preflight to after it (application.py:156-165).
THEOREM OnePreflight ==
    Spec => [](\A s, t \in Session : pc[s] = "preflight" /\ pc[t] = "preflight" => s = t)
<1>1. SafetyInv => \A s, t \in Session : pc[s] = "preflight" /\ pc[t] = "preflight" => s = t
  BY DEF SafetyInv, LockKept
<1> QED
  BY <1>1, SafetyInvariance, PTL
=============================================================================
