-------------------------- MODULE ScholarVisitsProofs --------------------------
(***************************************************************************)
(* IInv is an inductive invariant of ScholarVisits, for any profile, page  *)
(* size, page budget and bounds: no cursor, in the queue or in a session,  *)
(* hides a publication, and the passes keep to the page budget.            *)
(*                                                                         *)
(* The argument rests on three facts about positions: publications have    *)
(* different positions, so that a page has at most PageSize of them; a     *)
(* publication that is added only moves others back; and whatever lies at  *)
(* c or behind it is on the page at c or behind the end of its range.      *)
(*                                                                         *)
(* SkipInv adds that the publications a fingerprint names are stored, and  *)
(* that as many are stored as its page had.  With it a page of the same    *)
(* fingerprint has no more publications that are not stored than stored    *)
(* ones have left the profile.                                             *)
(***************************************************************************)
EXTENDS ScholarVisits, FiniteSetTheorems, TLAPS

\* The number of publications before another one is a natural number.
LEMMA PositionType ==
    ASSUME TypeOK, NEW i \in Publication
    PROVE  IsFiniteSet(listed) /\ IsFiniteSet({j \in listed : j < i})
           /\ Position(i) \in Nat
<1>1. IsFiniteSet(listed)
  BY VisitConstants, FS_Subset DEF TypeOK
<1>2. IsFiniteSet({j \in listed : j < i})
  BY <1>1, FS_Subset
<1> QED
  BY <1>1, <1>2, FS_CardinalityType DEF Position

\* Of two listed publications the first has the smaller position.
LEMMA PositionOrder ==
    ASSUME TypeOK, NEW i \in listed, NEW j \in listed, i < j
    PROVE  Position(i) < Position(j)
<1> DEFINE I == {k \in listed : k < i}
           J == {k \in listed : k < j}
<1>1. i \in Nat /\ j \in Nat /\ i \in Publication /\ j \in Publication
      /\ listed \subseteq Nat
  BY VisitConstants DEF TypeOK
<1>2. IsFiniteSet(I) /\ IsFiniteSet(J)
  BY <1>1, PositionType
<1>3. I \in SUBSET J /\ I # J
  <2>1. \A k \in I : k < j
    BY <1>1
  <2>2. i \in J /\ i \notin I
    BY <1>1
  <2> QED
    BY <2>1, <2>2
<1>4. Cardinality(I) <= Cardinality(J) /\ Cardinality(I) # Cardinality(J)
  BY <1>2, <1>3, FS_Subset
<1>5. Cardinality(I) \in Nat /\ Cardinality(J) \in Nat
  BY <1>2, FS_CardinalityType
<1> QED
  BY <1>4, <1>5 DEF Position

\* A page has at most PageSize publications: Position maps them one to one
\* into the offsets of the page.
LEMMA PageFits ==
    ASSUME TypeOK, NEW c \in Nat
    PROVE  /\ IsFiniteSet(Page(c))
           /\ Cardinality(Page(c)) \in Nat
           /\ Cardinality(Page(c)) <= PageSize
<1> DEFINE Offsets == c..(c + PageSize - 1)
           f == [i \in Page(c) |-> Position(i)]
<1>1. PageSize \in Nat \ {0} /\ listed \subseteq Publication /\ listed \subseteq Nat
  BY VisitConstants DEF TypeOK
<1>2. Page(c) \subseteq listed
  BY DEF Page
<1>3. IsFiniteSet(Page(c)) /\ Cardinality(Page(c)) \in Nat
  <2>1. IsFiniteSet(listed)
    BY <1>1, VisitConstants, FS_Subset
  <2> QED
    BY <2>1, <1>2, FS_Subset, FS_CardinalityType
<1>4. IsFiniteSet(Offsets) /\ Cardinality(Offsets) = PageSize
  <2>1. c \in Int /\ c + PageSize - 1 \in Int /\ ~(c > c + PageSize - 1)
    BY <1>1
  <2>2. (c + PageSize - 1) - c + 1 = PageSize
    BY <1>1
  <2> QED
    BY <2>1, <2>2, FS_Interval
<1>5. f \in [Page(c) -> Offsets]
  BY DEF Page
<1>6. ASSUME NEW i \in Page(c), NEW j \in Page(c), f[i] = f[j]
      PROVE  i = j
  <2>1. i \in listed /\ j \in listed /\ i \in Nat /\ j \in Nat
    BY <1>1, <1>2
  <2>2. Position(i) = Position(j)
    BY <1>6
  <2>3. Position(i) \in Nat /\ Position(j) \in Nat
    BY <2>1, <1>1, PositionType
  <2>4. i < j \/ j < i \/ i = j
    BY <2>1
  <2> QED
    BY <2>1, <2>2, <2>3, <2>4, PositionOrder
<1>7. f \in Injection(Page(c), Offsets)
  BY <1>5, <1>6 DEF Injection, IsInjective
<1> QED
  BY <1>3, <1>4, <1>7, FS_Injection

\* What lies at c or behind it and is not on the page at c lies behind the
\* range of that page.
LEMMA BehindThePage ==
    ASSUME TypeOK, NEW c \in Nat, NEW i \in listed, i \notin Page(c),
           Position(i) >= c
    PROVE  Position(i) >= RangeEnd(c)
<1>1. i \in Publication /\ PageSize \in Nat \ {0}
  BY VisitConstants DEF TypeOK
<1>2. Position(i) \in Nat
  BY <1>1, PositionType
<1>3. Position(i) >= c + PageSize
  BY <1>1, <1>2 DEF Page
<1> QED
  BY <1>1, <1>2, <1>3, PageFits DEF RangeEnd

\* A new publication moves the others back or leaves them in place.
LEMMA PositionGrows ==
    ASSUME TypeOK, NEW k \in Publication, NEW i \in listed,
           listed' = listed \cup {k}
    PROVE  Position(i)' >= Position(i) /\ Position(i)' \in Nat /\ Position(i) \in Nat
<1> DEFINE A == {j \in listed : j < i}
           B == {j \in listed \cup {k} : j < i}
<1>1. i \in Publication /\ listed \cup {k} \subseteq Publication
  BY DEF TypeOK
<1>2. IsFiniteSet(listed \cup {k})
  BY <1>1, VisitConstants, FS_Subset
<1>3. IsFiniteSet(B)
  BY <1>2, FS_Subset
<1>4. A \in SUBSET B
  OBVIOUS
<1>5. Cardinality(A) <= Cardinality(B) /\ Cardinality(A) \in Nat /\ Cardinality(B) \in Nat
  BY <1>3, <1>4, FS_Subset, FS_CardinalityType
<1>6. Position(i) = Cardinality(A) /\ Position(i)' = Cardinality(B)
  BY DEF Position
<1> QED
  BY <1>5, <1>6

\* In the initial states there is no cursor.
LEMMA InitEstablishes == Init => IInv
<1> SUFFICES ASSUME Init
            PROVE  IInv
  OBVIOUS
<1>1. TypeOK
  <2>1. saved \in ScholarRow /\ mine \in ScholarRow
    BY DEF Init, ScholarRow
  <2>2. changes \in 0..ChangeBound /\ pages \in 0..MaxPages /\ faults \in 0..FaultBound
    BY VisitConstants DEF Init
  <2>3. at \in Place /\ pass \in {"first", "depth"} /\ first \in Fingerprint \cup {None}
    BY DEF Init, Place
  <2>4. listed \subseteq Publication /\ stored \subseteq Publication
        /\ base \subseteq Publication /\ more \in BOOLEAN
        /\ start \in Nat /\ cur \in Nat /\ next \in Nat
    BY DEF Init
  <2> QED
    BY <2>1, <2>2, <2>3, <2>4 DEF TypeOK
<1>2. ContinuationHidesNothing /\ SessionHidesNothing /\ BasesAreListed
  BY DEF Init, ContinuationHidesNothing, SessionHidesNothing, BasesAreListed
<1>3. BudgetKept
  BY DEF Init, BudgetKept, RunWithinBudget
<1> QED
  BY <1>1, <1>2, <1>3 DEF IInv

\* The new publication is in no base, and those that are keep their distance.
LEMMA AppearStep ==
    ASSUME IInv, NEW k \in Publication, Appear(k)
    PROVE  IInv'
<1> USE DEF IInv
<1>1. TypeOK'
  BY VisitConstants DEF Appear, TypeOK, visit
<1>2. BasesAreListed' /\ BudgetKept'
  BY DEF Appear, visit, BasesAreListed, BudgetKept, RunWithinBudget, Budget
<1>3. ASSUME NEW c \in Nat, NEW b, b \subseteq listed, NothingHidden(c, b)
      PROVE  \A i \in (b \cap listed') \ stored' : Position(i)' >= c
  <2> SUFFICES ASSUME NEW i \in (b \cap listed') \ stored'
               PROVE  Position(i)' >= c
    OBVIOUS
  <2>1. i \in listed /\ i \notin stored /\ listed' = listed \cup {k}
    BY <1>3 DEF Appear
  <2>2. Position(i) >= c
    BY <1>3, <2>1 DEF NothingHidden
  <2> QED
    BY <2>1, <2>2, PositionGrows
<1>4. saved' = saved /\ mine' = mine /\ base' = base /\ at' = at /\ cur' = cur
      /\ next' = next
  BY DEF Appear, visit
<1>5. ContinuationHidesNothing'
  BY <1>3, <1>4 DEF ContinuationHidesNothing, BasesAreListed, NothingHidden, TypeOK,
      ScholarRow
<1>6. SessionHidesNothing'
  BY <1>3, <1>4 DEF SessionHidesNothing, BasesAreListed, NothingHidden, TypeOK, ScholarRow
<1> QED
  BY <1>1, <1>2, <1>5, <1>6

\* The bases are empty after a removal.
LEMMA VanishStep ==
    ASSUME IInv, NEW k \in Publication, Vanish(k)
    PROVE  IInv'
<1> USE DEF IInv
<1>1. TypeOK'
  <2>1. saved' \in ScholarRow /\ mine' \in ScholarRow
    BY DEF Vanish, TypeOK, ScholarRow
  <2> QED
    BY <2>1, VisitConstants DEF Vanish, TypeOK, visit
<1>2. BasesAreListed' /\ BudgetKept'
  BY DEF Vanish, visit, TypeOK, ScholarRow, BasesAreListed, BudgetKept,
      RunWithinBudget, Budget
<1>3. ContinuationHidesNothing' /\ SessionHidesNothing'
  BY DEF Vanish, TypeOK, ScholarRow, ContinuationHidesNothing,
      SessionHidesNothing, NothingHidden
<1> QED
  BY <1>1, <1>2, <1>3

\* The cursor of a run that begins is 0 or the one of the queue row.
LEMMA StartStep ==
    ASSUME IInv, FullRun \/ ResumeRun
    PROVE  IInv'
<1> USE DEF IInv
<1>1. PICK c \in Nat :
        /\ Visits(c, "first")
        /\ mine' = saved
        /\ base' \subseteq listed
        /\ NothingHidden(c, base')
        /\ UNCHANGED <<profile, stored, saved, faults>>
  <2>1. CASE FullRun
    <3>1. \A i \in listed : Position(i) \in Nat
      BY PositionType DEF TypeOK
    <3> QED
      BY <2>1, <3>1 DEF FullRun, NothingHidden
  <2>2. CASE ResumeRun
    BY <2>2 DEF ResumeRun, TypeOK, ScholarRow, BasesAreListed,
        ContinuationHidesNothing
  <2> QED
    BY <2>1, <2>2
<1>2. TypeOK'
  <2>1. 0 \in 0..MaxPages
    BY VisitConstants
  <2>2. base' \subseteq Publication /\ at' \in Place /\ first' \in Fingerprint \cup {None}
    BY <1>1 DEF Visits, TypeOK, Place
  <2> QED
    BY <1>1, <2>1, <2>2 DEF Visits, profile, TypeOK
<1>3. BasesAreListed' /\ BudgetKept'
  BY <1>1 DEF Visits, profile, BasesAreListed, BudgetKept, RunWithinBudget
<1>4. ContinuationHidesNothing' /\ SessionHidesNothing'
  BY <1>1 DEF Visits, profile, ContinuationHidesNothing, SessionHidesNothing,
      NothingHidden, Position
<1> QED
  BY <1>2, <1>3, <1>4

\* The end of a visit queues a cursor that hides nothing, if any, and leaves
\* a continuation that hides nothing, if it is to be followed.
LEMMA EndVisitStep ==
    ASSUME IInv, NEW complete \in BOOLEAN, NEW queued \in Nat \cup {None},
           NEW continuation \in Nat,
           at \in {"request", "boundary", "more"},
           EndVisit(complete, queued, continuation),
           queued # None => NothingHidden(queued, base),
           continuation > start => NothingHidden(continuation, base),
           faults' \in 0..FaultBound
    PROVE  IInv'
<1> USE DEF IInv
<1>1. /\ UNCHANGED <<listed, changes, stored, saved, base, pass, start, cur, pages,
                     first, more>>
      /\ at' \in {"between", "done"}
      /\ at' = "between" => MaxPages > 1 /\ next' = continuation /\ continuation > start
      /\ at' = "done" => next' = next
  BY DEF EndVisit, profile
<1>2. \/ mine'.resume = None /\ mine'.base = {}
      \/ mine'.resume = queued /\ queued # None /\ mine'.base = base
  BY DEF EndVisit, SyncedQueue, TypeOK, ScholarRow
<1>3. mine' \in ScholarRow
  BY DEF EndVisit, SyncedQueue, TypeOK, ScholarRow
<1>4. TypeOK'
  BY <1>1, <1>3 DEF TypeOK, Place
<1>5. BasesAreListed' /\ BudgetKept'
  BY <1>1, <1>2 DEF BasesAreListed, BudgetKept, RunWithinBudget
<1>6. \A c, b : (NothingHidden(c, b))' <=> NothingHidden(c, b)
  BY <1>1 DEF NothingHidden, Position
<1>7. ContinuationHidesNothing'
  BY <1>1, <1>6 DEF ContinuationHidesNothing
<1>8. SessionHidesNothing'
  BY <1>1, <1>2, <1>6 DEF SessionHidesNothing, NothingHidden, Position
<1> QED
  BY <1>4, <1>5, <1>7, <1>8

\* The ways in which a visit ends.
LEMMA VisitEnds ==
    ASSUME IInv, faults' \in 0..FaultBound,
           \/ \E network \in BOOLEAN : PageFails(network)
           \/ LastPage \/ CanceledAtPage \/ BudgetSpent \/ CursorStalled
    PROVE  IInv'
<1>1. at \in {"request", "boundary", "more"} => NothingHidden(cur, base) /\ NothingHidden(next, base)
  BY DEF IInv, SessionHidesNothing
<1>2. cur \in Nat /\ next \in Nat /\ start \in Nat
  BY DEF IInv, TypeOK
<1>3. CASE \E network \in BOOLEAN : PageFails(network)
  <2>1. PICK network \in BOOLEAN : PageFails(network)
    BY <1>3
  <2>2. CASE network
    BY <1>1, <1>2, <2>1, <2>2, EndVisitStep DEF PageFails
  <2>3. CASE ~network
    BY <1>1, <1>2, <2>1, <2>3, EndVisitStep DEF PageFails
  <2> QED
    BY <2>2, <2>3
<1>4. CASE LastPage
  <2>1. ~(start > start)
    BY <1>2
  <2> QED
    BY <1>2, <1>4, <2>1, EndVisitStep DEF LastPage
<1>5. CASE CanceledAtPage
  BY <1>1, <1>2, <1>5, EndVisitStep DEF CanceledAtPage
<1>6. CASE BudgetSpent
  <2> DEFINE c == IF next > cur THEN next ELSE cur
  <2>1. c \in Nat /\ at = "boundary" /\ EndVisit(FALSE, c, c)
    BY <1>2, <1>6 DEF BudgetSpent
  <2>2. NothingHidden(c, base)
    BY <1>1, <2>1
  <2> HIDE DEF c
  <2> QED
    BY <2>1, <2>2, EndVisitStep
<1>7. CASE CursorStalled
  BY <1>1, <1>2, <1>7, EndVisitStep DEF CursorStalled
<1> QED
  BY <1>3, <1>4, <1>5, <1>6, <1>7

\* A page at the cursor, or one before it, takes from what was hidden.
LEMMA PageStep ==
    ASSUME IInv, NEW c \in Nat, c <= cur, FirstPage(c) \/ FurtherPage(c),
           faults' \in 0..FaultBound
    PROVE  IInv'
<1> USE DEF IInv
<1>1. /\ at \in {"request", "more"}
      /\ StorePage(c)
      /\ first' \in {first, PageFingerprint(c)}
      /\ UNCHANGED <<listed, changes, mine, base, pass, start, cur>>
  BY DEF FirstPage, FurtherPage, profile
<1>2. RangeEnd(c) \in Nat
  BY PageFits DEF RangeEnd
<1>3. PageFingerprint(c) \in Fingerprint
  BY <1>2 DEF PageFingerprint, Fingerprint, ShowMore, Page, TypeOK
<1>4. saved' \in {saved, mine} /\ next' = RangeEnd(c) /\ pages' = pages + 1
      /\ at' = "boundary" /\ more' = ShowMore(c) /\ stored' = stored \cup Page(c)
  BY <1>1 DEF StorePage
<1>5. BudgetKept' /\ pages' \in 0..MaxPages
  BY <1>1, <1>4, VisitConstants DEF BudgetKept, RunWithinBudget, Budget, TypeOK
<1>6. TypeOK'
  <2>1. more' \in BOOLEAN /\ stored' \subseteq Publication /\ at' \in Place
        /\ next' \in Nat
    BY <1>2, <1>4 DEF ShowMore, Page, TypeOK, Place
  <2> QED
    BY <1>1, <1>3, <1>4, <1>5, <2>1 DEF TypeOK
<1>7. BasesAreListed'
  BY <1>1, <1>4 DEF BasesAreListed
<1>8. ASSUME NEW d, NEW b, NothingHidden(d, b)
      PROVE  (NothingHidden(d, b))'
  BY <1>1, <1>4, <1>8 DEF NothingHidden, Position
<1>9. ContinuationHidesNothing'
  BY <1>4, <1>8 DEF ContinuationHidesNothing, SessionHidesNothing
<1>10. \A i \in (base' \cap listed') \ stored' : Position(i)' >= next'
  <2> SUFFICES ASSUME NEW i \in (base' \cap listed') \ stored'
               PROVE  Position(i)' >= next'
    OBVIOUS
  <2>1. i \in (base \cap listed) \ stored /\ i \notin Page(c) /\ i \in Publication
    BY <1>1, <1>4 DEF TypeOK
  <2>2. Position(i) >= cur /\ Position(i) \in Nat /\ cur \in Nat
    BY <1>1, <2>1, PositionType DEF SessionHidesNothing, NothingHidden, TypeOK
  <2>3. Position(i) >= c
    BY <2>2
  <2>4. Position(i) >= RangeEnd(c)
    BY <2>1, <2>3, BehindThePage
  <2> QED
    BY <1>1, <1>4, <2>4 DEF Position
<1>11. SessionHidesNothing'
  <2>1. (NothingHidden(next, base))'
    BY <1>10 DEF NothingHidden
  <2>2. (NothingHidden(cur, base))'
    BY <1>1, <1>8 DEF SessionHidesNothing
  <2>3. mine'.resume # None => (NothingHidden(mine.resume, mine.base))'
    BY <1>1, <1>8 DEF SessionHidesNothing
  <2> QED
    BY <2>1, <2>2, <2>3 DEF SessionHidesNothing
<1> QED
  BY <1>5, <1>6, <1>7, <1>9, <1>11

\* The steps that leave the profile and what is stored alone and choose among
\* the cursors that are there already.
LEMMA QuietStep ==
    ASSUME IInv, faults' \in 0..FaultBound,
           \/ SkipNoChange \/ TurnPage \/ DepthPass \/ CanceledBetween
           \/ \E rolledBack \in BOOLEAN : VisitBreaks(rolledBack)
    PROVE  IInv'
<1> USE DEF IInv
<1>1. /\ UNCHANGED <<listed, changes, stored, saved, base>>
      /\ \/ mine' \in {saved, mine}
         \/ mine' = [mine EXCEPT !.resume = None, !.base = {}]
  BY DEF SkipNoChange, SyncedQueue, TurnPage, DepthPass, CanceledBetween,
      VisitBreaks, Visits, profile
<1>2. mine' \in ScholarRow /\ mine'.base \subseteq listed
      /\ (mine'.resume # None => NothingHidden(mine'.resume, mine'.base))
  BY <1>1 DEF TypeOK, ScholarRow, BasesAreListed, ContinuationHidesNothing,
      SessionHidesNothing
<1>3. \A c, b : (NothingHidden(c, b))' <=> NothingHidden(c, b)
  BY <1>1 DEF NothingHidden, Position
<1>4. ContinuationHidesNothing' /\ BasesAreListed'
  BY <1>1, <1>2, <1>3 DEF ContinuationHidesNothing, BasesAreListed
<1>5. mine'.resume # None => (NothingHidden(mine.resume, mine.base))'
  BY <1>1, <1>2 DEF NothingHidden, Position
<1>6. CASE SkipNoChange \/ CanceledBetween
           \/ \E rolledBack \in BOOLEAN : VisitBreaks(rolledBack)
  <2>1. at' = "done" /\ UNCHANGED <<pass, start, cur, next, pages, first, more>>
        /\ (at = "between" \/ at \in {"request", "boundary", "more"})
    BY <1>6 DEF SkipNoChange, CanceledBetween, VisitBreaks
  <2> QED
    BY <1>1, <1>2, <1>4, <1>5, <2>1 DEF TypeOK, Place, SessionHidesNothing, BudgetKept,
        RunWithinBudget
<1>7. CASE TurnPage
  <2>1. /\ at = "boundary" /\ at' = "more" /\ cur' = next /\ pages < Budget
        /\ UNCHANGED <<pass, start, next, pages, first, more>>
    BY <1>7 DEF TurnPage, WithinBudget
  <2>2. TypeOK' /\ BudgetKept'
    BY <1>1, <1>2, <2>1 DEF TypeOK, Place, BudgetKept, RunWithinBudget, Budget
  <2>3. SessionHidesNothing'
    BY <1>1, <1>5, <2>1 DEF SessionHidesNothing, NothingHidden, Position
  <2> QED
    BY <1>4, <2>2, <2>3
<1>8. CASE DepthPass
  <2>1. at = "between" /\ Visits(next, "depth") /\ MaxPages > 1
    BY <1>8 DEF DepthPass, BudgetKept
  <2>2. 0 \in 0..MaxPages
    BY VisitConstants
  <2>3. TypeOK'
    BY <1>1, <1>2, <2>1, <2>2 DEF Visits, TypeOK, Place
  <2>4. BudgetKept'
    BY <2>1, VisitConstants DEF Visits, BudgetKept, RunWithinBudget
  <2>5. SessionHidesNothing'
    BY <1>1, <1>5, <2>1 DEF Visits, SessionHidesNothing, NothingHidden, Position
  <2> QED
    BY <1>4, <2>3, <2>4, <2>5
<1> QED
  BY <1>6, <1>7, <1>8

\* A run that ends has committed its session or rolled it back.
LEMMA EndStep ==
    ASSUME IInv, faults' \in 0..FaultBound, CompleteRun \/ RunRaises
    PROVE  IInv'
<1> USE DEF IInv
<1>1. /\ UNCHANGED <<listed, changes, stored>>
      /\ saved' \in {saved, mine} /\ mine' = saved'
      /\ base' = {} /\ Idle
  BY DEF CompleteRun, RunRaises, profile
<1>2. TypeOK'
  <2>1. 0 \in 0..MaxPages /\ "idle" \in Place /\ saved' \in ScholarRow
    BY <1>1, VisitConstants DEF Place, TypeOK
  <2> QED
    BY <1>1, <2>1 DEF Idle, TypeOK
<1>3. BasesAreListed' /\ BudgetKept'
  BY <1>1 DEF Idle, BasesAreListed, BudgetKept, RunWithinBudget
<1>4. ContinuationHidesNothing' /\ SessionHidesNothing'
  BY <1>1 DEF Idle, ContinuationHidesNothing, SessionHidesNothing, NothingHidden,
      Position
<1> QED
  BY <1>2, <1>3, <1>4

\* Every step keeps the invariant.
LEMMA Inductive == IInv /\ [Next]_vars => IInv'
<1> SUFFICES ASSUME IInv, [Next]_vars
            PROVE  IInv'
  OBVIOUS
<1>1. CASE \E i \in Publication : Appear(i) \/ Vanish(i)
  BY <1>1, AppearStep, VanishStep
<1>2. CASE FullRun \/ ResumeRun
  BY <1>2, StartStep
<1>3. cur \in Nat /\ 0 <= cur /\ cur <= cur /\ faults \in 0..FaultBound
  BY DEF IInv, TypeOK
<1>4. CASE VisitStep
  <2>1. faults' \in 0..FaultBound
    BY <1>3, <1>4 DEF VisitStep
  <2>2. \/ SkipNoChange \/ FirstPage(cur) \/ FurtherPage(cur)
        \/ LastPage \/ BudgetSpent \/ CursorStalled \/ TurnPage
        \/ DepthPass \/ CompleteRun
    BY <1>4 DEF VisitStep, PageArrives
  <2> QED
    BY <1>3, <2>1, <2>2, VisitEnds, PageStep, QuietStep, EndStep
<1>5. CASE Fault
  <2>1. faults' \in 0..FaultBound
    BY <1>3, <1>5, VisitConstants DEF Fault
  <2>2. \/ \E network \in BOOLEAN : PageFails(network)
        \/ \E rolledBack \in BOOLEAN : VisitBreaks(rolledBack)
        \/ FirstPage(0) \/ FurtherPage(0)
        \/ CanceledAtPage \/ CanceledBetween \/ RunRaises
    BY <1>5 DEF Fault, FirstPageAgain
  <2> QED
    BY <1>3, <2>1, <2>2, VisitEnds, PageStep, QuietStep, EndStep
<1>6. CASE UNCHANGED vars
  BY <1>6 DEF vars, profile, visit, IInv, TypeOK, ContinuationHidesNothing,
      SessionHidesNothing, BasesAreListed, BudgetKept, RunWithinBudget, Budget,
      NothingHidden, Position
<1> QED
  BY <1>1, <1>2, <1>4, <1>5, <1>6 DEF Next

\* The invariant holds in every reachable state.
THEOREM Invariance == Spec => []IInv
<1> QED
  BY InitEstablishes, Inductive, PTL DEF Spec

\* The variables keep their types, for every value of the constants.
THEOREM TypeCorrect == Spec => []TypeOK
<1>1. IInv => TypeOK
  BY DEF IInv
<1> QED
  BY <1>1, Invariance, PTL

\* The cursor of the continuation queue hides no publication that was on the
\* profile when the chain of visits began (pagination.py,
\* sync_continuation_queue), however long the profile, whatever the page size.
THEOREM NothingIsHidden == Spec => []ContinuationHidesNothing
<1>1. IInv => ContinuationHidesNothing
  BY DEF IInv
<1> QED
  BY <1>1, Invariance, PTL

\* The two passes of a run together stay within max_pages_per_scholar.
THEOREM RunsKeepToBudget == Spec => []RunWithinBudget
<1>1. IInv => RunWithinBudget
  BY DEF IInv, BudgetKept
<1> QED
  BY <1>1, Invariance, PTL
-----------------------------------------------------------------------------
(* What a fingerprint stands for                                           *)

\* As many publications are stored as the first page of fingerprint f had.
Backed(f) == \E s \in SUBSET stored : Cardinality(s) = f.end

\* What fingerprint f names is stored; if its page was the first, so is the
\* rest of the page, and there was no second one.
Truthful(f) == f # None => f.rows \subseteq stored /\ (f.from = 0 => ~f.more /\ Backed(f))

\* The visit knows no more than one page of which the profile has a second,
\* and comes to its end only by another cursor than that one.
VisitTells ==
    /\ first # None => first.rows \subseteq stored /\ (first.from = 0 => Backed(first))
    /\ at \in {"boundary", "more"} => pages >= 1
    /\ pass = "first" => cur = start
    /\ pass = "depth" /\ at \in {"request", "boundary", "more"} => cur >= PageSize
    /\ at = "between" \/ (at = "boundary" /\ more) => next >= PageSize
    /\ first # None /\ first.from = 0 /\ first.more =>
          /\ at # "more"
          /\ at = "boundary" => more /\ (~WithinBudget \/ next <= cur)

SkipInv == Truthful(saved.fingerprint) /\ Truthful(mine.fingerprint) /\ VisitTells

\* The publications of the profile have all the positions below their number.
LEMMA PositionsAreTaken ==
    ASSUME TypeOK
    PROVE  /\ Cardinality(listed) \in Nat
           /\ \A i \in listed : Position(i) \in 0..(Cardinality(listed) - 1)
           /\ \A i, j \in listed : Position(i) = Position(j) => i = j
           /\ \A k \in Nat : k < Cardinality(listed) => \E i \in listed : Position(i) = k
<1> DEFINE n == Cardinality(listed)
           f == [i \in listed |-> Position(i)]
<1>1. listed \subseteq Publication /\ listed \subseteq Nat
  BY VisitConstants DEF TypeOK
<1>2. IsFiniteSet(listed) /\ n \in Nat
  BY <1>1, VisitConstants, FS_Subset, FS_CardinalityType
<1>3. IsFiniteSet(0..(n - 1)) /\ Cardinality(0..(n - 1)) = n
  <2>1. 0 \in Int /\ n - 1 \in Int
    BY <1>2
  <2>2. CASE n = 0
    BY <2>1, <2>2, FS_Interval
  <2>3. CASE n > 0
    <3>1. ~(0 > n - 1) /\ (n - 1) - 0 + 1 = n
      BY <1>2, <2>3
    <3> QED
      BY <2>1, <3>1, FS_Interval
  <2> QED
    BY <1>2, <2>2, <2>3
<1>4. ASSUME NEW i \in listed
      PROVE  Position(i) \in 0..(n - 1)
  <2> DEFINE A == {j \in listed : j < i}
  <2>1. A \in SUBSET listed /\ i \notin A /\ i \in Publication
    BY <1>1
  <2>2. Cardinality(A) <= n /\ Cardinality(A) # n
    BY <1>2, <2>1, FS_Subset
  <2>3. Position(i) = Cardinality(A) /\ Position(i) \in Nat
    BY <2>1, PositionType DEF Position
  <2> QED
    BY <1>2, <2>2, <2>3
<1>5. ASSUME NEW i \in listed, NEW j \in listed, Position(i) = Position(j)
      PROVE  i = j
  <2>1. Position(i) \in Nat /\ Position(j) \in Nat /\ i \in Nat /\ j \in Nat
    BY <1>1, PositionType
  <2>2. i < j \/ j < i \/ i = j
    BY <2>1
  <2> QED
    BY <1>5, <2>1, <2>2, PositionOrder
<1>6. f \in Injection(listed, 0..(n - 1))
  BY <1>4, <1>5 DEF Injection, IsInjective
<1>7. f \in Surjection(listed, 0..(n - 1))
  BY <1>3, <1>6, FS_Injection
<1>8. ASSUME NEW k \in Nat, k < n
      PROVE  \E i \in listed : Position(i) = k
  <2>1. k \in 0..(n - 1)
    BY <1>2, <1>8
  <2> QED
    BY <1>7, <2>1 DEF Surjection
<1> QED
  BY <1>2, <1>4, <1>5, <1>8

\* A page behind which there is more is full.
LEMMA FullPage ==
    ASSUME TypeOK, NEW c \in Nat, ShowMore(c)
    PROVE  RangeEnd(c) = c + PageSize
<1> DEFINE Offsets == c..(c + PageSize - 1)
           f == [i \in Page(c) |-> Position(i)]
<1>1. PageSize \in Nat \ {0} /\ Page(c) \subseteq listed
  BY VisitConstants DEF Page
<1>2. IsFiniteSet(Offsets) /\ Cardinality(Offsets) = PageSize
  <2>1. c \in Int /\ c + PageSize - 1 \in Int /\ ~(c > c + PageSize - 1)
    BY <1>1
  <2>2. (c + PageSize - 1) - c + 1 = PageSize
    BY <1>1
  <2> QED
    BY <2>1, <2>2, FS_Interval
<1>3. f \in Injection(Page(c), Offsets)
  <2>1. f \in [Page(c) -> Offsets]
    BY DEF Page
  <2>2. \A i, j \in Page(c) : f[i] = f[j] => i = j
    BY <1>1, PositionsAreTaken
  <2> QED
    BY <2>1, <2>2 DEF Injection, IsInjective
<1>4. \A k \in Offsets : \E i \in Page(c) : f[i] = k
  <2> SUFFICES ASSUME NEW k \in Offsets
               PROVE  \E i \in Page(c) : Position(i) = k
    OBVIOUS
  <2>1. k \in Nat /\ k < Cardinality(listed)
    BY <1>1, PositionsAreTaken DEF ShowMore
  <2>2. PICK i \in listed : Position(i) = k
    BY <2>1, PositionsAreTaken
  <2> QED
    BY <2>2 DEF Page
<1>5. f \in Surjection(Page(c), Offsets)
  BY <1>3, <1>4 DEF Surjection, Injection
<1>6. Cardinality(Page(c)) = PageSize
  BY <1>2, <1>3, <1>5, FS_Injection
<1> QED
  BY <1>6 DEF RangeEnd

\* A profile without a second page is its first page.
LEMMA OnlyPage ==
    ASSUME TypeOK, ~ShowMore(0)
    PROVE  listed = Page(0)
<1>1. PageSize \in Nat \ {0} /\ Cardinality(listed) \in Nat
      /\ \A i \in listed : Position(i) \in 0..(Cardinality(listed) - 1)
  BY VisitConstants, PositionsAreTaken
<1>2. Cardinality(listed) <= PageSize
  BY <1>1 DEF ShowMore
<1>3. \A i \in listed : Position(i) \in 0..(0 + PageSize - 1)
  BY <1>1, <1>2
<1> QED
  BY <1>3 DEF Page

\* Only an empty profile has an empty first page.
LEMMA EmptyFirstPage ==
    ASSUME TypeOK, Page(0) = {}
    PROVE  ~ShowMore(0)
<1>1. PageSize \in Nat \ {0} /\ Cardinality(listed) \in Nat
  BY VisitConstants, PositionsAreTaken
<1>2. ~(0 < Cardinality(listed))
  <2> SUFFICES ASSUME 0 < Cardinality(listed)
               PROVE  FALSE
    OBVIOUS
  <2>1. PICK i \in listed : Position(i) = 0
    BY PositionsAreTaken
  <2>2. 0 \in 0..(0 + PageSize - 1)
    BY <1>1
  <2> QED
    BY <2>1, <2>2 DEF Page
<1> QED
  BY <1>1, <1>2 DEF ShowMore

\* A fingerprint that is backed stays so, as nothing that is stored is lost.
LEMMA BackedStays ==
    ASSUME stored \subseteq stored'
    PROVE  \A f : Backed(f) => \E s \in SUBSET stored' : Cardinality(s) = f.end
BY DEF Backed

\* The fingerprint of the page that is being stored.
LEMMA FingerprintTells ==
    ASSUME TypeOK, NEW c \in Nat
    PROVE  /\ PageFingerprint(c).rows \subseteq Page(c)
           /\ PageFingerprint(c).from = 0 /\ PageFingerprint(c).more => c = 0 /\ ShowMore(0)
           /\ PageFingerprint(c).from = 0 =>
                 \E s \in SUBSET Page(c) : Cardinality(s) = PageFingerprint(c).end
<1>1. CASE Page(c) = {}
  <2>1. {} \in SUBSET Page(c) /\ Cardinality({}) = 0
    BY FS_EmptySet
  <2> QED
    BY <1>1, <2>1 DEF PageFingerprint
<1>2. CASE Page(c) # {}
  <2>1. PageFingerprint(c).from = 0 => RangeEnd(c) = Cardinality(Page(c))
    BY <1>2, PageFits DEF PageFingerprint, RangeEnd
  <2> QED
    BY <1>2, <2>1 DEF PageFingerprint
<1> QED
  BY <1>1, <1>2

LEMMA SkipEnds ==
    ASSUME IInv, SkipInv, NEW complete \in BOOLEAN, NEW queued \in Nat \cup {None},
           NEW continuation \in Nat, at \in {"request", "boundary", "more"},
           EndVisit(complete, queued, continuation),
           complete => at = "boundary" /\ ~more,
           pass = "first" /\ continuation > start => continuation >= PageSize
    PROVE  SkipInv'
<1>1. /\ UNCHANGED <<stored, saved, pass, start, cur, pages, first, more>>
      /\ at' \in {"between", "done"}
      /\ at' = "between" => next' = continuation /\ pass = "first" /\ continuation > start
  BY DEF EndVisit
<1>2. mine'.fingerprint \in {mine.fingerprint, first}
      /\ (mine'.fingerprint # mine.fingerprint => complete)
  BY DEF EndVisit, KeepsFingerprint, SyncedQueue, IInv, TypeOK, ScholarRow
<1>3. complete => Truthful(first)
  BY DEF SkipInv, VisitTells, Truthful
<1>4. Truthful(mine.fingerprint)'
  BY <1>1, <1>2, <1>3 DEF SkipInv, Truthful, Backed
<1>5. Truthful(saved.fingerprint)'
  BY <1>1 DEF SkipInv, Truthful, Backed
<1>6. VisitTells'
  BY <1>1 DEF SkipInv, VisitTells, Backed
<1> QED
  BY <1>4, <1>5, <1>6 DEF SkipInv

LEMMA SkipVisitEnds ==
    ASSUME IInv, SkipInv,
           \/ \E network \in BOOLEAN : PageFails(network)
           \/ LastPage \/ CanceledAtPage \/ BudgetSpent \/ CursorStalled
    PROVE  SkipInv'
<1>1. /\ cur \in Nat /\ next \in Nat /\ start \in Nat
      /\ pass = "first" => cur = start
      /\ at = "boundary" /\ more => next >= PageSize
  BY DEF IInv, TypeOK, SkipInv, VisitTells
<1>2. ~(start > start) /\ (pass = "first" => ~(cur > start))
  BY <1>1
<1>3. ASSUME NEW network \in BOOLEAN, PageFails(network)
      PROVE  SkipInv'
  <2>1. CASE network
    BY <1>1, <1>2, <1>3, <2>1, SkipEnds DEF PageFails
  <2>2. CASE ~network
    BY <1>1, <1>2, <1>3, <2>2, SkipEnds DEF PageFails
  <2> QED
    BY <2>1, <2>2
<1>4. CASE LastPage
  BY <1>1, <1>2, <1>4, SkipEnds DEF LastPage
<1>5. CASE CanceledAtPage
  BY <1>1, <1>2, <1>5, SkipEnds DEF CanceledAtPage
<1>6. CASE BudgetSpent
  <2> DEFINE c == IF next > cur THEN next ELSE cur
  <2>1. c \in Nat /\ at = "boundary" /\ EndVisit(FALSE, c, c)
    BY <1>1, <1>6 DEF BudgetSpent
  <2>2. pass = "first" /\ c > start => c >= PageSize
    BY <1>1, <1>2, <1>6 DEF BudgetSpent
  <2> HIDE DEF c
  <2> QED
    BY <2>1, <2>2, SkipEnds
<1>7. CASE CursorStalled
  BY <1>1, <1>2, <1>7, SkipEnds DEF CursorStalled
<1> QED
  BY <1>3, <1>4, <1>5, <1>6, <1>7

\* Behind the first page of a profile of two the visit comes to no third.
LEMMA SkipPage ==
    ASSUME IInv, SkipInv, NEW c \in Nat, FirstPage(c) \/ FurtherPage(c)
    PROVE  SkipInv'
<1>1. /\ stored' = stored \cup Page(c) /\ saved' \in {saved, mine}
      /\ next' = RangeEnd(c) /\ more' = ShowMore(c) /\ pages' = pages + 1 /\ at' = "boundary"
      /\ UNCHANGED <<mine, pass, start, cur>>
  BY DEF FirstPage, FurtherPage, StorePage
<1>2. Truthful(saved.fingerprint)' /\ Truthful(mine.fingerprint)'
  <2>1. stored \subseteq stored'
    BY <1>1
  <2>2. \A f : Backed(f) => \E s \in SUBSET stored' : Cardinality(s) = f.end
    BY <2>1, BackedStays
  <2>3. /\ saved'.fingerprint \in {saved.fingerprint, mine.fingerprint}
        /\ mine'.fingerprint = mine.fingerprint
    BY <1>1
  <2>4. ASSUME NEW f \in {saved.fingerprint, mine.fingerprint}, f # None
        PROVE  /\ f.rows \subseteq stored'
               /\ f.from = 0 => ~f.more /\ \E s \in SUBSET stored' : Cardinality(s) = f.end
    BY <2>1, <2>2, <2>4 DEF SkipInv, Truthful
  <2>5. Truthful(saved.fingerprint)'
    BY <2>3, <2>4 DEF Truthful, Backed
  <2>6. Truthful(mine.fingerprint)'
    BY <2>3, <2>4 DEF Truthful, Backed
  <2> QED
    BY <2>5, <2>6
<1>3. /\ PageSize \in Nat \ {0} /\ pages \in Nat /\ cur \in Nat
      /\ pass \in {"first", "depth"}
  BY VisitConstants DEF IInv, TypeOK
<1>4. ShowMore(c) => next' = c + PageSize /\ next' >= PageSize
  BY <1>1, <1>3, FullPage DEF IInv
<1>5. CASE FirstPage(c)
  <2>1. at = "request" /\ first' = PageFingerprint(c)
    BY <1>5 DEF FirstPage
  <2>2. first'.rows \subseteq stored' /\ (first'.from = 0 => Backed(first)')
    <3>1. \A s \in SUBSET Page(c) : s \in SUBSET stored'
      BY <1>1
    <3> QED
      BY <1>1, <2>1, <3>1, FingerprintTells DEF IInv, Backed
  <2>3. ASSUME first'.from = 0, first'.more
        PROVE  more' /\ (~WithinBudget' \/ next' <= cur')
    <3>1. c = 0 /\ ShowMore(0) /\ more'
      BY <1>1, <2>1, <2>3, FingerprintTells DEF IInv
    <3>2. next' = PageSize
      BY <1>3, <1>4, <3>1
    <3>3. CASE pass = "first"
      BY <1>1, <1>3, <3>1, <3>3 DEF WithinBudget, Budget
    <3>4. CASE pass = "depth"
      <4>1. cur >= PageSize
        BY <2>1, <3>4 DEF SkipInv, VisitTells
      <4> QED
        BY <1>1, <1>3, <3>1, <3>2, <4>1
    <3> QED
      BY <1>3, <3>3, <3>4
  <2>4. VisitTells'
    BY <1>1, <1>3, <1>4, <2>1, <2>2, <2>3 DEF SkipInv, VisitTells
  <2> QED
    BY <1>2, <2>4 DEF SkipInv
<1>6. CASE FurtherPage(c)
  <2>1. at = "more" /\ first' = first
    BY <1>6 DEF FurtherPage
  <2>2. first.from = 0 /\ Backed(first) => Backed(first)'
    BY <1>1, <2>1, BackedStays DEF Backed
  <2>3. VisitTells'
    BY <1>1, <1>3, <1>4, <2>1, <2>2 DEF SkipInv, VisitTells
  <2> QED
    BY <1>2, <2>3 DEF SkipInv
<1> QED
  BY <1>5, <1>6

\* The steps that store nothing and end no visit with a fingerprint.
LEMMA SkipQuiet ==
    ASSUME IInv, SkipInv,
           \/ \E i \in Publication : Appear(i) \/ Vanish(i)
           \/ FullRun \/ ResumeRun \/ CompleteRun \/ RunRaises
           \/ SkipNoChange \/ TurnPage \/ DepthPass \/ CanceledBetween
           \/ \E rolledBack \in BOOLEAN : VisitBreaks(rolledBack)
    PROVE  SkipInv'
<1>1. /\ stored' = stored
      /\ saved'.fingerprint \in {saved.fingerprint, mine.fingerprint}
      /\ mine'.fingerprint \in {saved.fingerprint, mine.fingerprint}
  BY DEF Appear, Vanish, FullRun, ResumeRun, CompleteRun, RunRaises, SkipNoChange, SyncedQueue,
      TurnPage, DepthPass, CanceledBetween, VisitBreaks, IInv, TypeOK, ScholarRow
<1>2. Truthful(saved.fingerprint)' /\ Truthful(mine.fingerprint)'
  BY <1>1 DEF SkipInv, Truthful, Backed
<1>3. CASE \E i \in Publication : Appear(i) \/ Vanish(i)
  <2>1. UNCHANGED <<visit, stored>>
    BY <1>3 DEF Appear, Vanish
  <2> QED
    BY <1>2, <2>1 DEF visit, SkipInv, VisitTells, Backed, WithinBudget, Budget
<1>4. CASE FullRun \/ ResumeRun \/ CompleteRun \/ RunRaises
  <2>1. first' = None /\ cur' = start' /\ pass' = "first" /\ at' \in {"request", "idle"}
    BY <1>4 DEF FullRun, ResumeRun, CompleteRun, RunRaises, Visits, Idle
  <2> QED
    BY <1>2, <2>1 DEF SkipInv, VisitTells, Backed
<1>5. CASE DepthPass
  <2>1. first' = None /\ cur' = next /\ pass' = "depth" /\ at' = "request" /\ next >= PageSize
    BY <1>5 DEF DepthPass, Visits, SkipInv, VisitTells
  <2> QED
    BY <1>2, <2>1 DEF SkipInv, VisitTells, Backed
<1>6. CASE SkipNoChange \/ CanceledBetween
           \/ \E rolledBack \in BOOLEAN : VisitBreaks(rolledBack)
  <2>1. at' = "done" /\ UNCHANGED <<stored, pass, start, cur, first>>
    BY <1>6 DEF SkipNoChange, CanceledBetween, VisitBreaks
  <2> QED
    BY <1>2, <2>1 DEF SkipInv, VisitTells, Backed
<1>7. CASE TurnPage
  <2>1. /\ at = "boundary" /\ more /\ WithinBudget /\ next > cur
        /\ cur' = next /\ at' = "more"
        /\ UNCHANGED <<stored, pass, start, pages, first>>
    BY <1>7 DEF TurnPage
  <2>2. pages \in Nat /\ pages >= 1 /\ next >= PageSize /\ next \in Nat /\ cur \in Nat
    BY <2>1 DEF IInv, TypeOK, SkipInv, VisitTells
  <2>3. pass # "first"
    BY <2>1, <2>2 DEF WithinBudget, Budget
  <2>4. ~(first # None /\ first.from = 0 /\ first.more)
    BY <2>1, <2>2 DEF SkipInv, VisitTells, Backed
  <2>5. VisitTells'
    BY <2>1, <2>2, <2>3, <2>4 DEF SkipInv, VisitTells, Backed
  <2> QED
    BY <1>2, <2>5 DEF SkipInv
<1> QED
  BY <1>3, <1>4, <1>5, <1>6, <1>7

LEMMA SkipInductive == IInv /\ SkipInv /\ [Next]_vars => SkipInv'
<1> SUFFICES ASSUME IInv, SkipInv, [Next]_vars
            PROVE  SkipInv'
  OBVIOUS
<1>1. CASE UNCHANGED vars
  BY <1>1 DEF vars, visit, SkipInv, Truthful, VisitTells, Backed, WithinBudget, Budget
<1>2. CASE Next
  <2>1. cur \in Nat
    BY DEF IInv, TypeOK
  <2>2. \/ \E i \in Publication : Appear(i) \/ Vanish(i)
        \/ FullRun \/ ResumeRun \/ CompleteRun \/ RunRaises
        \/ SkipNoChange \/ TurnPage \/ DepthPass \/ CanceledBetween
        \/ \E rolledBack \in BOOLEAN : VisitBreaks(rolledBack)
        \/ \E network \in BOOLEAN : PageFails(network)
        \/ LastPage \/ CanceledAtPage \/ BudgetSpent \/ CursorStalled
        \/ \E c \in {cur, 0} : FirstPage(c) \/ FurtherPage(c)
    BY <1>2 DEF Next, VisitStep, PageArrives, Fault, FirstPageAgain
  <2> QED
    BY <2>1, <2>2, SkipQuiet, SkipVisitEnds, SkipPage
<1> QED
  BY <1>1, <1>2

\* A run that skips a scholar whose first page looks unchanged misses no second
\* page and none of the rows his fingerprint names, and no more of the others
\* than have left the profile, whatever has changed, failed or been resumed
\* before, for any number of leading rows (pagination.py, _should_skip_no_change).
THEOREM SkipsMissNothing == Spec => []SkipMissesNothing
<1>1. Init => SkipInv
  BY DEF Init, SkipInv, Truthful, VisitTells
<1>2. IInv /\ SkipInv => SkipMissesNothing
  <2> SUFFICES ASSUME IInv, SkipInv, at = "request", Unchanged
               PROVE  /\ ~ShowMore(0)
                      /\ \A i \in listed \ stored : Position(i) >= FingerprintRows
                      /\ Cardinality(listed \ stored) <= Cardinality(stored \ listed)
    BY DEF SkipMissesNothing
  <2> DEFINE f == PageFingerprint(0)
  <2>1. f.rows \subseteq stored /\ (f.from = 0 => ~f.more /\ Backed(f))
    BY DEF Unchanged, SkipInv, Truthful
  <2>2. f.from = 0 /\ f.end = Cardinality(Page(0))
    <3>1. CASE Page(0) = {}
      BY <3>1, FS_EmptySet DEF PageFingerprint
    <3>2. CASE Page(0) # {}
      BY <3>2, PageFits DEF IInv, PageFingerprint, RangeEnd
    <3> QED
      BY <3>1, <3>2
  <2>3. ~ShowMore(0)
    <3>1. CASE Page(0) = {}
      BY <3>1, EmptyFirstPage DEF IInv
    <3>2. CASE Page(0) # {}
      BY <2>1, <2>2, <3>2 DEF PageFingerprint
    <3> QED
      BY <3>1, <3>2
  <2>4. listed = Page(0)
    BY <2>3, OnlyPage DEF IInv
  <2>5. ASSUME NEW i \in listed \ stored
        PROVE  Position(i) >= FingerprintRows
    <3>1. i \in Page(0) /\ i \notin f.rows /\ i \in Publication
      BY <2>1, <2>4, <2>5 DEF IInv, TypeOK
    <3>2. ~(Position(i) < 0 + FingerprintRows)
      BY <3>1 DEF PageFingerprint
    <3>3. Position(i) \in Nat
      BY <3>1, PositionType DEF IInv
    <3>4. FingerprintRows \in Nat
      BY VisitConstants
    <3> QED
      BY <3>2, <3>3, <3>4
  <2>6. Cardinality(listed \ stored) <= Cardinality(stored \ listed)
    <3>1. PICK s \in SUBSET stored : Cardinality(s) = Cardinality(listed)
      BY <2>1, <2>2, <2>4 DEF Backed
    <3>2. IsFiniteSet(listed) /\ IsFiniteSet(stored) /\ IsFiniteSet(s)
      BY <3>1, VisitConstants, FS_Subset DEF IInv, TypeOK
    <3>3. /\ Cardinality(listed \ stored) = Cardinality(listed) - Cardinality(listed \cap stored)
          /\ Cardinality(s \ listed) = Cardinality(s) - Cardinality(s \cap listed)
      BY <3>2, FS_Difference
    <3>4. /\ s \cap listed \in SUBSET (listed \cap stored)
          /\ s \ listed \in SUBSET (stored \ listed)
          /\ listed \cap stored \in SUBSET listed
          /\ stored \ listed \in SUBSET stored
      BY <3>1
    <3>5. IsFiniteSet(listed \cap stored) /\ IsFiniteSet(stored \ listed)
      BY <3>2, <3>4, FS_Subset
    <3>6. /\ Cardinality(s \cap listed) <= Cardinality(listed \cap stored)
          /\ Cardinality(s \ listed) <= Cardinality(stored \ listed)
      BY <3>4, <3>5, FS_Subset
    <3>7. IsFiniteSet(s \cap listed) /\ IsFiniteSet(s \ listed)
      BY <3>4, <3>5, FS_Subset
    <3>8. /\ Cardinality(s \cap listed) \in Nat /\ Cardinality(listed \cap stored) \in Nat
          /\ Cardinality(s \ listed) \in Nat /\ Cardinality(stored \ listed) \in Nat
          /\ Cardinality(s) \in Nat /\ Cardinality(listed) \in Nat
      BY <3>2, <3>5, <3>7, FS_CardinalityType
    <3> QED
      BY <3>1, <3>3, <3>6, <3>8
  <2> QED
    BY <2>3, <2>5, <2>6
<1> QED
  BY <1>1, <1>2, SkipInductive, Invariance, PTL DEF Spec
=============================================================================
