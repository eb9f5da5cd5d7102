-------------------------- MODULE RequestGatesProofs --------------------------
(***************************************************************************)
(* What keeps the requests to other services apart: the gate in front of   *)
(* the arXiv API, the slot in front of Unpaywall, and the runtime row of   *)
(* the searches at Google Scholar.  Each holds for any number of callers,  *)
(* tasks and clients and any interval, cooldown, cache and pool.           *)
(***************************************************************************)
EXTENDS PdfPipeline, AuthorSearch, TLAPS

(***************************************************************************)
(* The gate in front of the arXiv API.                                     *)
(*                                                                         *)
(* The inductive invariant has three parts.  GateTypeOK says that the lock *)
(* is held by exactly the caller that is between Acquire and Record.       *)
(* FlightsOwned says that an entry of the requests in flight names a       *)
(* caller that works on it.  SlotsSpaced says what the holder of the lock  *)
(* may rely on while it sleeps.                                            *)
(***************************************************************************)

\* An entry in flight is owned by a caller of that process at that query, and
\* who waits, waits for the owner of the entry.
FlightsOwned ==
    /\ \A p \in Process, q \in Query :
        inflight[p][q] # None =>
            /\ call[inflight[p][q]].pc \in Owning
            /\ call[inflight[p][q]].q = q
            /\ ProcessOf[inflight[p][q]] = p
    /\ \A c \in Caller :
        At(c, "waiting") =>
            /\ call[c].q \in Query
            /\ call[c].owner \in Caller
            /\ inflight[ProcessOf[c]][call[c].q] = call[c].owner

\* What is left of the interval is never less than what is missing since the
\* last answer, for the next slot and for the caller that sleeps for one; the
\* sleeper has seen no cooldown, and only it could begin one.
SlotsSpaced ==
    /\ state.next + since >= Interval
    /\ \A c \in Caller :
        At(c, "sleep") => state.cool = 0 /\ call[c].wait + since >= Interval

\* A caller on its way works on a query.
CallersAtQuery ==
    \A c \in Caller : call[c].pc \notin {"idle", "done"} => call[c].q \in Query

GateInv == GateTypeOK /\ FlightsOwned /\ SlotsSpaced /\ CallersAtQuery

CallRecord == [pc : PC, q : Query \cup {None}, owner : Caller \cup {None},
               wait : 0..Interval, status : Status,
               write : [existing : BOOLEAN, drop : SUBSET Query],
               answer : Answer \cup {None}]

LEMMA IdleTyped == Idle \in CallRecord
BY GateAssumption DEF Idle, Apart, CallRecord, PC, Owning, AtGate, Status

\* What the callers look like after c and its waiters got their answer.
LEMMA SettledTyped ==
    ASSUME GateTypeOK, NEW c \in Caller, NEW a \in Answer
    PROVE  /\ Settled(c, a) \in [Caller -> CallRecord]
           /\ \A d \in Caller :
                \/ Settled(c, a)[d] = call[d]
                \/ (d = c \/ At(d, "waiting")) /\ Settled(c, a)[d].pc = "done"
           /\ Settled(c, a)[c].pc = "done"
<1>1. \A d \in Caller : Apart("done", call[d].q, a) \in CallRecord
  BY GateAssumption DEF GateTypeOK, Apart, CallRecord, PC, Owning, AtGate, Status, Answer
<1>2. \A d \in Caller : call[d] \in CallRecord
  BY DEF GateTypeOK, CallRecord
<1>3. \A d \in Caller : Apart("done", call[d].q, a).pc = "done"
  BY DEF Apart
<1>4. \A d \in Caller :
        Settled(c, a)[d] = IF d = c \/ (call[d].pc = "waiting" /\ call[d].owner = c)
                           THEN Apart("done", call[d].q, a)
                           ELSE call[d]
  BY DEF Settled
<1>5. Settled(c, a) \in [Caller -> CallRecord]
  BY <1>1, <1>2 DEF Settled
<1>6. Settled(c, a)[c].pc = "done"
  BY <1>3, <1>4
<1>7. ASSUME NEW d \in Caller
      PROVE  \/ Settled(c, a)[d] = call[d]
             \/ (d = c \/ At(d, "waiting")) /\ Settled(c, a)[d].pc = "done"
  BY <1>3, <1>4 DEF At
<1> QED
  BY <1>5, <1>6, <1>7

\* An owner that ends takes its entry and its waiters with it.
LEMMA CompleteKeepsFlights ==
    ASSUME GateInv, NEW c \in Caller, NEW a \in Answer, Complete(c, a)
    PROVE  /\ FlightsOwned'
           /\ CallersAtQuery'
           /\ inflight' \in [Process -> [Query -> Caller \cup {None}]]
<1>1. ProcessOf[c] \in Process
  BY GateAssumption
<1>2. inflight' \in [Process -> [Query -> Caller \cup {None}]]
  BY <1>1 DEF GateInv, GateTypeOK, Complete
<1>3. \A d \in Caller :
        call'[d] = IF d = c \/ (call[d].pc = "waiting" /\ call[d].owner = c)
                   THEN Apart("done", call[d].q, a)
                   ELSE call[d]
  BY DEF Complete, Settled
<1>4. \A d \in Caller : Apart("done", call[d].q, a).pc = "done"
  BY DEF Apart
<1>5. ASSUME NEW p \in Process, NEW q \in Query, inflight'[p][q] # None
      PROVE  inflight'[p][q] = inflight[p][q] /\ inflight[p][q] # c
  <2>1. CASE call[c].pc \in Owning
    <3>1. call[c].q \in Query
      BY <2>1 DEF GateInv, CallersAtQuery, Owning, AtGate
    <3>2. inflight'[p][q] = IF p = ProcessOf[c] /\ q = call[c].q
                            THEN IF inflight[p][q] = c THEN None ELSE inflight[p][q]
                            ELSE inflight[p][q]
      BY <3>1, <1>1 DEF Complete, GateInv, GateTypeOK
    <3>3. inflight[p][q] = c => p = ProcessOf[c] /\ q = call[c].q
      BY GateAssumption DEF GateInv, FlightsOwned
    <3> QED
      BY <1>5, <3>2, <3>3
  <2>2. CASE call[c].pc \notin Owning
    <3>1. inflight'[p][q] \in {None, inflight[p][q]}
      BY <1>1 DEF Complete, GateInv, GateTypeOK
    <3>2. inflight[p][q] # c
      BY <2>2, GateAssumption DEF GateInv, FlightsOwned
    <3> QED
      BY <1>5, <3>1, <3>2
  <2> QED
    BY <2>1, <2>2
<1>6. ASSUME NEW p \in Process, NEW q \in Query, inflight'[p][q] # None
      PROVE  /\ call'[inflight'[p][q]].pc \in Owning
             /\ call'[inflight'[p][q]].q = q
             /\ ProcessOf[inflight'[p][q]] = p
  <2>1. inflight[p][q] \in Caller \ {c} /\ inflight'[p][q] = inflight[p][q]
    BY <1>5, <1>6 DEF GateInv, GateTypeOK
  <2>2. call[inflight[p][q]].pc # "waiting"
    BY <2>1, GateAssumption DEF GateInv, FlightsOwned, Owning, AtGate
  <2>3. call'[inflight[p][q]] = call[inflight[p][q]]
    BY <1>3, <2>1, <2>2
  <2>4. /\ call[inflight[p][q]].pc \in Owning
        /\ call[inflight[p][q]].q = q
        /\ ProcessOf[inflight[p][q]] = p
    BY <2>1, GateAssumption DEF GateInv, FlightsOwned
  <2> QED
    BY <2>1, <2>3, <2>4
<1>7. ASSUME NEW d \in Caller, call'[d].pc = "waiting"
      PROVE  /\ call'[d].q \in Query
             /\ call'[d].owner \in Caller
             /\ inflight'[ProcessOf[d]][call'[d].q] = call'[d].owner
  <2>1. call'[d] = call[d] /\ call[d].owner # c /\ At(d, "waiting")
    BY <1>3, <1>4, <1>7 DEF At
  <2>2. /\ call[d].q \in Query /\ call[d].owner \in Caller
        /\ inflight[ProcessOf[d]][call[d].q] = call[d].owner
    BY <2>1 DEF GateInv, FlightsOwned
  <2>3. ProcessOf[d] \in Process
    BY GateAssumption
  <2>4. inflight'[ProcessOf[d]][call[d].q] \in
            {inflight[ProcessOf[d]][call[d].q], IF inflight[ProcessOf[d]][call[d].q] = c
                                                THEN None ELSE inflight[ProcessOf[d]][call[d].q]}
    BY <1>1, <2>2, <2>3 DEF Complete, GateInv, GateTypeOK
  <2> QED
    BY <2>1, <2>2, <2>4
<1>8. CallersAtQuery'
  BY <1>3, <1>4 DEF GateInv, CallersAtQuery
<1> QED
  BY <1>2, <1>6, <1>7, <1>8 DEF FlightsOwned, At

\* An owner that goes on keeps its entry and its query.
LEMMA OwnerGoesOn ==
    ASSUME GateInv, NEW c \in Caller, UNCHANGED inflight,
           call[c].pc \in Owning, call'[c].pc \in Owning, call'[c].q = call[c].q,
           \A d \in Caller \ {c} : call'[d] = call[d]
    PROVE  FlightsOwned' /\ CallersAtQuery'
<1>1. call'[c].pc # "waiting" /\ call[c].pc \notin {"idle", "done"}
  BY DEF Owning, AtGate
<1>2. \A p \in Process, q \in Query :
        inflight[p][q] # None =>
            inflight[p][q] \in Caller
  BY DEF GateInv, GateTypeOK
<1> QED
  BY <1>1, <1>2 DEF GateInv, FlightsOwned, CallersAtQuery, At

-----------------------------------------------------------------------------
(* One lemma per kind of step                                              *)

\* A caller that leaves with an answer, and the lock with it if it had it.
LEMMA LeaveStep ==
    ASSUME GateInv, NEW c \in Caller, NEW a \in Answer, Complete(c, a),
           lock' = Released(c), UNCHANGED <<state, since>>,
           DOMAIN cache' \subseteq Query, \A q \in DOMAIN cache' : cache'[q] \in 0..Ttl
    PROVE  GateInv'
<1>1. call' = Settled(c, a)
  BY DEF Complete
<1>2. call' \in [Caller -> CallRecord]
  BY <1>1, SettledTyped DEF GateInv
<1>3. \A d \in Caller : d # c /\ call[d].pc # "waiting" => call'[d] = call[d]
  BY <1>1, SettledTyped DEF GateInv, At
<1>4. \A d \in Caller : d = c \/ call[d].pc = "waiting" => call'[d].pc \in {"done", "waiting"}
  BY <1>1, SettledTyped DEF GateInv, At
<1>5. call'[c].pc = "done"
  BY <1>1, SettledTyped DEF GateInv
<1>6. \A d \in Caller : lock' = d <=> call'[d].pc \in Holding
  BY <1>3, <1>4, <1>5, GateAssumption DEF GateInv, GateTypeOK, Released, Holding, AtGate
<1>7. lock' \in Caller \cup {None}
  BY DEF Released, GateInv, GateTypeOK
<1>8. GateTypeOK'
  BY <1>2, <1>6, <1>7, CompleteKeepsFlights DEF GateInv, GateTypeOK, CallRecord
<1>9. SlotsSpaced'
  BY <1>3, <1>4 DEF GateInv, SlotsSpaced, At
<1> QED
  BY <1>8, <1>9, CompleteKeepsFlights DEF GateInv

\* Before the gate: a look-up begins, reads the cache, joins a request.
LEMMA CallStep ==
    ASSUME GateInv, NEW c \in Caller, NEW q \in Query, Call(c, q)
    PROVE  GateInv'
<1>1. PICK pc \in {"read", "reserve"} : call' = [call EXCEPT ![c] = Apart(pc, q, None)]
  BY DEF Call
<1>2. Apart(pc, q, None) \in CallRecord /\ Apart(pc, q, None).pc = pc /\ Apart(pc, q, None).q = q
  BY GateAssumption DEF Apart, CallRecord, PC, Status
<1>3. GateTypeOK'
  BY <1>1, <1>2 DEF Call, At, GateInv, GateTypeOK, CallRecord, Holding, AtGate
<1>4. FlightsOwned' /\ CallersAtQuery'
  BY <1>1, <1>2, GateAssumption DEF Call, At, GateInv, GateTypeOK, FlightsOwned, CallersAtQuery, Owning,
      AtGate
<1>5. SlotsSpaced'
  BY <1>1, <1>2 DEF Call, At, GateInv, GateTypeOK, SlotsSpaced
<1> QED
  BY <1>3, <1>4, <1>5 DEF GateInv

LEMMA ReadCacheStep ==
    ASSUME GateInv, NEW c \in Caller, ReadCache(c)
    PROVE  GateInv'
<1>1. DOMAIN cache' \subseteq Query /\ \A k \in DOMAIN cache' : cache'[k] \in 0..Ttl
  BY DEF ReadCache, Without, GateInv, GateTypeOK
<1>2. PICK rec \in {Apart("done", call[c].q, "feed"), [call[c] EXCEPT !.pc = "reserve"]} :
        call' = [call EXCEPT ![c] = rec]
  BY DEF ReadCache, To, GateInv, GateTypeOK
<1>3. call[c].q \in Query /\ call[c] \in CallRecord
  BY DEF ReadCache, At, GateInv, CallersAtQuery, GateTypeOK, CallRecord
<1>4. rec \in CallRecord /\ rec.pc \in {"done", "reserve"} /\ rec.q = call[c].q
  <2>1. CASE rec = Apart("done", call[c].q, "feed")
    BY <2>1, <1>3, GateAssumption DEF Apart, CallRecord, PC, Status, Answer
  <2>2. CASE rec = [call[c] EXCEPT !.pc = "reserve"]
    BY <2>2, <1>3 DEF CallRecord, PC
  <2> QED
    BY <1>2, <2>1, <2>2
<1>5. GateTypeOK'
  BY <1>1, <1>2, <1>4 DEF ReadCache, At, GateInv, GateTypeOK, CallRecord, Holding, AtGate
<1>6. FlightsOwned' /\ CallersAtQuery'
  BY <1>2, <1>3, <1>4, GateAssumption DEF ReadCache, At, GateInv, GateTypeOK, FlightsOwned,
      CallersAtQuery, Owning, AtGate
<1>7. SlotsSpaced'
  BY <1>2, <1>4 DEF ReadCache, At, GateInv, GateTypeOK, SlotsSpaced
<1> QED
  BY <1>5, <1>6, <1>7 DEF GateInv

\* The new owner has an entry, the new waiter has the owner of one.
LEMMA ReserveStep ==
    ASSUME GateInv, NEW c \in Caller, Reserve(c)
    PROVE  GateInv'
<1>1. /\ ProcessOf[c] \in Process
      /\ call[c].q \in Query /\ call[c] \in CallRecord
      /\ call[c].pc = "reserve"
  BY GateAssumption DEF Reserve, At, GateInv, CallersAtQuery, GateTypeOK, CallRecord
<1>a. PICK rec : call' = [call EXCEPT ![c] = rec] /\ rec.pc \in {"check", "waiting"}
  <2>1. CASE call' = [call EXCEPT ![c].pc = "check"]
    <3> DEFINE r == [call[c] EXCEPT !.pc = "check"]
    <3>1. r.pc = "check"
      BY <1>1 DEF CallRecord
    <3>2. call' = [call EXCEPT ![c] = r]
      BY <2>1
    <3> QED
      BY <3>1, <3>2
  <2>2. CASE call' = [call EXCEPT ![c].pc = "waiting", ![c].owner = inflight[ProcessOf[c]][call[c].q]]
    <3> DEFINE r == [call[c] EXCEPT !.pc = "waiting", !.owner = inflight[ProcessOf[c]][call[c].q]]
    <3>1. r.pc = "waiting"
      BY <1>1 DEF CallRecord
    <3>2. call' = [call EXCEPT ![c] = r]
      BY <2>2, <1>1 DEF GateInv, GateTypeOK
    <3> QED
      BY <3>1, <3>2
  <2> QED
    BY <2>1, <2>2 DEF Reserve, To
<1>b. call'[c].pc # "sleep" /\ \A d \in Caller \ {c} : call'[d] = call[d]
  BY <1>a DEF GateInv, GateTypeOK
<1>2. SlotsSpaced'
  <2>1. UNCHANGED <<state, since>>
    BY DEF Reserve
  <2> QED
    BY <1>b, <2>1 DEF At, GateInv, SlotsSpaced
<1>3. CASE inflight[ProcessOf[c]][call[c].q] = None
  <2>1. /\ call' = [call EXCEPT ![c] = [call[c] EXCEPT !.pc = "check"]]
        /\ inflight' = [inflight EXCEPT ![ProcessOf[c]][call[c].q] = c]
    BY <1>3 DEF Reserve, To, GateInv, GateTypeOK
  <2>2. GateTypeOK'
    BY <1>1, <2>1 DEF Reserve, GateInv, GateTypeOK, CallRecord, PC, Owning, Holding, AtGate
  <2>3. CallersAtQuery'
    BY <1>1, <2>1 DEF GateInv, CallersAtQuery, GateTypeOK
  <2>4. ASSUME NEW p \in Process, NEW q \in Query, inflight'[p][q] # None
        PROVE  /\ call'[inflight'[p][q]].pc \in Owning
               /\ call'[inflight'[p][q]].q = q
               /\ ProcessOf[inflight'[p][q]] = p
    <3>1. CASE p = ProcessOf[c] /\ q = call[c].q
      BY <1>1, <2>1, <3>1 DEF GateInv, GateTypeOK, Owning
    <3>2. CASE ~(p = ProcessOf[c] /\ q = call[c].q)
      <4>1. inflight'[p][q] = inflight[p][q]
        BY <1>1, <2>1, <3>2 DEF GateInv, GateTypeOK
      <4> DEFINE o == inflight[p][q]
      <4>2. call[o].pc \in Owning /\ call[o].q = q /\ ProcessOf[o] = p
        BY <2>4, <4>1 DEF GateInv, FlightsOwned
      <4>3. o \in Caller /\ o # c
        BY <1>1, <2>4, <4>1, <4>2 DEF GateInv, GateTypeOK, Owning, AtGate
      <4>4. call'[o] = call[o]
        BY <1>b, <4>3
      <4> QED
        BY <4>1, <4>2, <4>4
    <3> QED
      BY <3>1, <3>2
  <2>5. ASSUME NEW d \in Caller, call'[d].pc = "waiting"
        PROVE  /\ call'[d].q \in Query
               /\ call'[d].owner \in Caller
               /\ inflight'[ProcessOf[d]][call'[d].q] = call'[d].owner
    <3>1. call'[d] = call[d] /\ d # c
      BY <2>1, <2>5 DEF GateInv, GateTypeOK
    <3>2. /\ call[d].q \in Query /\ call[d].owner \in Caller
          /\ inflight[ProcessOf[d]][call[d].q] = call[d].owner
          /\ ProcessOf[d] \in Process
      BY <2>5, <3>1, GateAssumption DEF GateInv, FlightsOwned, At
    <3>3. inflight'[ProcessOf[d]][call[d].q] = inflight[ProcessOf[d]][call[d].q]
      BY <1>1, <1>3, <2>1, <3>2, GateAssumption DEF GateInv, GateTypeOK
    <3> QED
      BY <3>1, <3>2, <3>3
  <2> QED
    BY <1>2, <2>2, <2>3, <2>4, <2>5 DEF GateInv, FlightsOwned, At
<1>4. CASE inflight[ProcessOf[c]][call[c].q] # None
  <2>1. /\ call' = [call EXCEPT ![c].pc = "waiting",
                                ![c].owner = inflight[ProcessOf[c]][call[c].q]]
        /\ UNCHANGED inflight
    BY <1>4 DEF Reserve
  <2>2. inflight[ProcessOf[c]][call[c].q] \in Caller
    BY <1>1, <1>4 DEF GateInv, GateTypeOK
  <2>3. /\ call'[c].pc = "waiting" /\ call'[c].q = call[c].q
        /\ call'[c].owner = inflight[ProcessOf[c]][call[c].q]
        /\ \A d \in Caller \ {c} : call'[d] = call[d]
    BY <2>1 DEF GateInv, GateTypeOK
  <2>4. GateTypeOK'
    BY <1>1, <2>1, <2>2 DEF Reserve, GateInv, GateTypeOK, CallRecord, PC, Owning, Holding, AtGate
  <2>5. FlightsOwned' /\ CallersAtQuery'
    BY <1>1, <2>1, <2>2, <2>3, GateAssumption DEF GateInv, GateTypeOK, FlightsOwned, CallersAtQuery, At,
        Owning, AtGate
  <2> QED
    BY <1>2, <2>4, <2>5 DEF GateInv
<1> QED
  BY <1>3, <1>4
-----------------------------------------------------------------------------
(* The owner's way through the gate                                        *)

\* An owner that goes on, whatever else of its record changes.
LEMMA MoveStep ==
    ASSUME GateInv, NEW c \in Caller, NEW rec \in CallRecord,
           call[c].pc \in Owning, rec.pc \in Owning, rec.q = call[c].q,
           call' = [call EXCEPT ![c] = rec], UNCHANGED <<cache, inflight>>,
           state' \in [next : 0..Interval, cool : 0..Cooldown], since' \in 0..Interval,
           lock' \in Caller \cup {None},
           \A d \in Caller \ {c} : lock' = d <=> lock = d,
           lock' = c <=> rec.pc \in Holding,
           SlotsSpaced'
    PROVE  GateInv'
<1>1. call'[c] = rec /\ \A d \in Caller \ {c} : call'[d] = call[d]
  BY DEF GateInv, GateTypeOK
<1>2. FlightsOwned' /\ CallersAtQuery'
  BY <1>1, OwnerGoesOn
<1>3. GateTypeOK'
  <2>1. call' \in [Caller -> CallRecord]
    BY DEF GateInv, GateTypeOK, CallRecord
  <2>2. \A d \in Caller : lock' = d <=> call'[d].pc \in Holding
    BY <1>1 DEF GateInv, GateTypeOK
  <2> QED
    BY <2>1, <2>2 DEF GateInv, GateTypeOK, CallRecord
<1> QED
  BY <1>2, <1>3 DEF GateInv

\* A change of the program counter alone keeps the record typed.
LEMMA MovedTyped ==
    ASSUME GateInv, NEW c \in Caller, NEW pc \in PC, To(c, pc)
    PROVE  \E rec \in CallRecord :
           /\ rec.pc = pc /\ rec.q = call[c].q
           /\ call' = [call EXCEPT ![c] = rec]
           /\ call'[c] = rec /\ \A d \in Caller \ {c} : call'[d] = call[d]
<1> DEFINE rec == [call[c] EXCEPT !.pc = pc]
<1>1. call[c] \in CallRecord /\ call \in [Caller -> CallRecord]
  BY DEF GateInv, GateTypeOK, CallRecord
<1>2. rec \in CallRecord /\ rec.pc = pc /\ rec.q = call[c].q
  BY <1>1 DEF CallRecord
<1>3. call' = [call EXCEPT ![c] = rec]
  BY <1>1 DEF To
<1>4. call'[c] = rec /\ \A d \in Caller \ {c} : call'[d] = call[d]
  BY <1>1, <1>3
<1> QED
  BY <1>2, <1>3, <1>4

\* A step that leaves the times alone and sends nobody to sleep.
LEMMA SpacedStep ==
    ASSUME GateInv, NEW c \in Caller, UNCHANGED <<state, since>>,
           call'[c].pc # "sleep", \A d \in Caller \ {c} : call'[d] = call[d]
    PROVE  SlotsSpaced'
BY DEF GateInv, SlotsSpaced, At

LEMMA CheckCooldownStep ==
    ASSUME GateInv, NEW c \in Caller, CheckCooldown(c)
    PROVE  GateInv'
<1>1. CASE Complete(c, "limited")
  <2>1. lock' = Released(c)
    BY GateAssumption DEF CheckCooldown, At, Released, GateInv, GateTypeOK, Holding, AtGate
  <2> QED
    BY <1>1, <2>1, LeaveStep DEF CheckCooldown, Answer, GateInv, GateTypeOK
<1>2. CASE To(c, "connect") /\ UNCHANGED inflight
  <2>1. "connect" \in PC \cap Owning /\ "connect" \notin Holding /\ call[c].pc \in Owning \ Holding
    BY DEF CheckCooldown, At, PC, Owning, Holding, AtGate
  <2>2. PICK rec \in CallRecord :
           /\ rec.pc = "connect" /\ rec.q = call[c].q
           /\ call' = [call EXCEPT ![c] = rec]
           /\ call'[c] = rec /\ \A d \in Caller \ {c} : call'[d] = call[d]
    BY <1>2, <2>1, MovedTyped
  <2>3. SlotsSpaced'
    BY <2>2, SpacedStep DEF CheckCooldown
  <2>4. /\ UNCHANGED <<state, lock, cache, inflight, since>>
        /\ lock # c /\ lock \in Caller \cup {None}
        /\ state \in [next : 0..Interval, cool : 0..Cooldown] /\ since \in 0..Interval
    BY <1>2, <2>1 DEF CheckCooldown, GateInv, GateTypeOK
  <2> QED
    BY <2>1, <2>2, <2>3, <2>4, MoveStep
<1> QED
  BY <1>1, <1>2 DEF CheckCooldown

LEMMA ConnectStep ==
    ASSUME GateInv, NEW c \in Caller, Connect(c)
    PROVE  GateInv'
<1>1. "lock" \in PC \cap Owning /\ "lock" \notin Holding /\ call[c].pc \in Owning \ Holding
  BY DEF Connect, At, PC, Owning, Holding, AtGate
<1>2. PICK rec \in CallRecord :
         /\ rec.pc = "lock" /\ rec.q = call[c].q
         /\ call' = [call EXCEPT ![c] = rec]
         /\ call'[c] = rec /\ \A d \in Caller \ {c} : call'[d] = call[d]
  BY <1>1, MovedTyped DEF Connect
<1>3. SlotsSpaced'
  BY <1>2, SpacedStep DEF Connect
<1>4. /\ UNCHANGED <<state, lock, cache, inflight, since>> /\ lock # c
      /\ lock \in Caller \cup {None}
      /\ state \in [next : 0..Interval, cool : 0..Cooldown] /\ since \in 0..Interval
  BY <1>1, GateAssumption DEF Connect, GateInv, GateTypeOK
<1> QED
  BY <1>1, <1>2, <1>3, <1>4, MoveStep

LEMMA AcquireStep ==
    ASSUME GateInv, NEW c \in Caller, Acquire(c)
    PROVE  GateInv'
<1>1. "turn" \in PC \cap Owning /\ "turn" \in Holding /\ call[c].pc \in Owning \ Holding
  BY DEF Acquire, At, PC, Owning, Holding, AtGate
<1>2. PICK rec \in CallRecord :
         /\ rec.pc = "turn" /\ rec.q = call[c].q
         /\ call' = [call EXCEPT ![c] = rec]
         /\ call'[c] = rec /\ \A d \in Caller \ {c} : call'[d] = call[d]
  BY <1>1, MovedTyped DEF Acquire
<1>3. SlotsSpaced'
  BY <1>2, SpacedStep DEF Acquire
<1>4. /\ UNCHANGED <<state, cache, inflight, since>> /\ lock' = c
      /\ \A d \in Caller \ {c} : lock' = d <=> lock = d
      /\ lock \in Caller \cup {None}
      /\ state \in [next : 0..Interval, cool : 0..Cooldown] /\ since \in 0..Interval
  BY <1>1, GateAssumption DEF Acquire, GateInv, GateTypeOK
<1> QED
  BY <1>1, <1>2, <1>3, <1>4, MoveStep

\* The slot that is taken is what the caller sleeps for, and the cooldown it
\* looked at under the lock is over.
LEMMA TakeSlotStep ==
    ASSUME GateInv, NEW c \in Caller, TakeSlot(c)
    PROVE  GateInv'
<1>1. CASE Complete(c, "limited") /\ lock' = Released(c) /\ UNCHANGED state
  BY <1>1, LeaveStep DEF TakeSlot, Answer, GateInv, GateTypeOK
<1>2. CASE /\ state.cool = 0
           /\ state' = [state EXCEPT !.next = Interval]
           /\ call' = [call EXCEPT ![c].pc = "sleep", ![c].wait = state.next]
           /\ UNCHANGED <<lock, inflight>>
  <2> DEFINE rec == [call[c] EXCEPT !.pc = "sleep", !.wait = state.next]
  <2>1. call[c] \in CallRecord /\ state.next \in 0..Interval /\ Interval \in Nat
        /\ since \in 0..Interval /\ state \in [next : 0..Interval, cool : 0..Cooldown]
    BY GateAssumption DEF GateInv, GateTypeOK, CallRecord
  <2>2. "sleep" \in PC \cap Owning \cap Holding /\ call[c].pc \in Owning \cap Holding
    BY DEF TakeSlot, At, PC, Owning, Holding, AtGate
  <2>3. rec \in CallRecord /\ rec.pc = "sleep" /\ rec.wait = state.next /\ rec.q = call[c].q
    BY <2>1, <2>2 DEF CallRecord
  <2>4. call' = [call EXCEPT ![c] = rec]
    BY <1>2 DEF GateInv, GateTypeOK
  <2>5. call'[c] = rec /\ \A d \in Caller \ {c} : call'[d] = call[d]
    BY <2>4 DEF GateInv, GateTypeOK
  <2>6. state' \in [next : 0..Interval, cool : 0..Cooldown]
        /\ state'.next = Interval /\ state'.cool = 0
    BY <1>2, <2>1
  <2>7. since' = since
    BY DEF TakeSlot
  <2>8. state'.next + since' >= Interval
    BY <2>1, <2>6, <2>7
  <2>9. \A d \in Caller : call'[d].pc = "sleep" =>
            state'.cool = 0 /\ call'[d].wait + since' >= Interval
    BY <2>3, <2>5, <2>6, <2>7 DEF GateInv, SlotsSpaced, At
  <2>10. SlotsSpaced'
    BY <2>8, <2>9 DEF SlotsSpaced, At
  <2>11. UNCHANGED <<lock, cache, inflight, since>>
    BY <1>2 DEF TakeSlot
  <2>12. lock = c /\ lock \in Caller \cup {None}
    BY <2>2 DEF GateInv, GateTypeOK
  <2> HIDE DEF rec
  <2> QED
    BY <2>1, <2>2, <2>3, <2>4, <2>6, <2>10, <2>11, <2>12, MoveStep
<1> QED
  BY <1>1, <1>2 DEF TakeSlot

LEMMA SendStep ==
    ASSUME GateInv, NEW c \in Caller, Send(c)
    PROVE  GateInv'
<1>1. "fetch" \in PC \cap Owning \cap Holding /\ call[c].pc \in Owning \cap Holding
  BY DEF Send, At, PC, Owning, Holding, AtGate
<1>2. PICK rec \in CallRecord :
         /\ rec.pc = "fetch" /\ rec.q = call[c].q
         /\ call' = [call EXCEPT ![c] = rec]
         /\ call'[c] = rec /\ \A d \in Caller \ {c} : call'[d] = call[d]
  BY <1>1, MovedTyped DEF Send
<1>3. SlotsSpaced'
  BY <1>2, SpacedStep DEF Send
<1>4. /\ UNCHANGED <<state, lock, cache, inflight, since>> /\ lock = c
      /\ lock \in Caller \cup {None}
      /\ state \in [next : 0..Interval, cool : 0..Cooldown] /\ since \in 0..Interval
  BY <1>1, GateAssumption DEF Send, GateInv, GateTypeOK
<1> QED
  BY <1>1, <1>2, <1>3, <1>4, MoveStep

LEMMA RespondStep ==
    ASSUME GateInv, NEW c \in Caller, Respond(c)
    PROVE  GateInv'
<1>1. PICK s \in Status : call' = [call EXCEPT ![c].pc = "record", ![c].status = s]
  BY DEF Respond
<1> DEFINE rec == [call[c] EXCEPT !.pc = "record", !.status = s]
<1>2. "record" \in PC \cap Owning \cap Holding /\ call[c].pc \in Owning \cap Holding
  BY DEF Respond, At, PC, Owning, Holding, AtGate
<1>3. call[c] \in CallRecord
  BY DEF GateInv, GateTypeOK, CallRecord
<1>4. rec \in CallRecord /\ rec.pc = "record" /\ rec.q = call[c].q
  BY <1>2, <1>3 DEF CallRecord
<1>5. call' = [call EXCEPT ![c] = rec]
  BY <1>1 DEF GateInv, GateTypeOK
<1>6. call'[c] = rec /\ \A d \in Caller \ {c} : call'[d] = call[d]
  BY <1>5 DEF GateInv, GateTypeOK
<1>7. UNCHANGED <<state, lock, cache, inflight, since>>
  BY DEF Respond
<1>8. SlotsSpaced'
  BY <1>4, <1>6, <1>7, SpacedStep
<1>9. /\ lock = c /\ lock \in Caller \cup {None}
      /\ state \in [next : 0..Interval, cool : 0..Cooldown] /\ since \in 0..Interval
  BY <1>2 DEF GateInv, GateTypeOK
<1> HIDE DEF rec
<1> QED
  BY <1>2, <1>4, <1>5, <1>7, <1>8, <1>9, MoveStep
LEMMA BreakStep ==
    ASSUME GateInv, NEW c \in Caller, Break(c)
    PROVE  GateInv'
BY LeaveStep DEF Break, Answer, GateInv, GateTypeOK

\* Only the holder of the lock records an answer, so nobody sleeps meanwhile:
\* the interval begins anew for the next slot.
LEMMA RecordStep ==
    ASSUME GateInv, NEW c \in Caller, Record(c)
    PROVE  GateInv'
<1>1. /\ call[c].pc = "record" /\ lock = c
      /\ call \in [Caller -> CallRecord]
      /\ state \in [next : 0..Interval, cool : 0..Cooldown]
      /\ Interval \in Nat /\ Cooldown \in Nat
  BY GateAssumption DEF Record, At, GateInv, GateTypeOK, Holding, AtGate, CallRecord
<1>2. /\ state' \in [next : 0..Interval, cool : 0..Cooldown]
      /\ state'.next = Interval /\ since' = 0 /\ since' \in 0..Interval
      /\ lock' = None /\ UNCHANGED cache
  BY <1>1 DEF Record, Recorded, Released
<1>3. \A d \in Caller \ {c} : call[d].pc # "sleep"
  BY <1>1 DEF GateInv, GateTypeOK, Holding, AtGate
<1>4. CASE \E a \in Answer : Complete(c, a)
  <2>1. PICK a \in Answer : Complete(c, a)
    BY <1>4
  <2>2. /\ call' \in [Caller -> CallRecord]
        /\ \A d \in Caller : \/ call'[d] = call[d] /\ d # c
                             \/ (d = c \/ call[d].pc = "waiting") /\ call'[d].pc = "done"
    BY <2>1, SettledTyped DEF Complete, GateInv, At
  <2>3. \A d \in Caller : call'[d].pc \notin Holding
    BY <1>1, <2>2, GateAssumption DEF GateInv, GateTypeOK, Holding, AtGate
  <2>4. GateTypeOK'
    BY <1>2, <2>1, <2>2, <2>3, GateAssumption, CompleteKeepsFlights DEF GateInv, GateTypeOK, CallRecord
  <2>5. \A d \in Caller : call'[d].pc # "sleep"
    BY <1>3, <2>2
  <2>6. SlotsSpaced'
    BY <1>1, <1>2, <2>5 DEF SlotsSpaced, At
  <2> QED
    BY <2>1, <2>4, <2>6, CompleteKeepsFlights DEF GateInv
<1>5. CASE To(c, "store") /\ UNCHANGED inflight
  <2>1. "store" \in PC \cap Owning /\ "store" \notin Holding /\ call[c].pc \in Owning
    BY <1>1 DEF PC, Owning, Holding, AtGate
  <2>2. PICK rec \in CallRecord :
           /\ rec.pc = "store" /\ rec.q = call[c].q
           /\ call' = [call EXCEPT ![c] = rec]
           /\ call'[c] = rec /\ \A d \in Caller \ {c} : call'[d] = call[d]
    BY <1>5, <2>1, MovedTyped
  <2>3. SlotsSpaced'
    BY <1>1, <1>2, <1>3, <2>2 DEF SlotsSpaced, At
  <2>4. (\A d \in Caller \ {c} : lock' = d <=> lock = d) /\ lock' # c
    BY <1>1, <1>2, GateAssumption
  <2> QED
    BY <1>2, <1>5, <2>1, <2>2, <2>3, <2>4, MoveStep
<1> QED
  BY <1>4, <1>5 DEF Record, Answer

LEMMA PoolTimeoutStep ==
    ASSUME GateInv, NEW c \in Caller, PoolTimeout(c)
    PROVE  GateInv'
BY LeaveStep DEF PoolTimeout, Answer, GateInv, GateTypeOK

\* The write of the answer touches nobody but its owner, and in the end the
\* callers that wait for it.
LEMMA WriteCacheStep ==
    ASSUME GateInv, NEW c \in Caller, WriteCache(c)
    PROVE  GateInv'
<1>1. PICK drop \in Pruned(call[c].q) :
        call' = [call EXCEPT ![c].pc = "commit",
                             ![c].write = [existing |-> call[c].q \in DOMAIN cache,
                                           drop |-> drop]]
  BY DEF WriteCache
<1>2. drop \subseteq Query
  BY DEF Pruned, GateInv, GateTypeOK
<1> DEFINE w == [existing |-> call[c].q \in DOMAIN cache, drop |-> drop]
           rec == [call[c] EXCEPT !.pc = "commit", !.write = w]
<1>3. w \in [existing : BOOLEAN, drop : SUBSET Query]
  BY <1>2
<1>4. "commit" \in PC \cap Owning /\ "commit" \notin Holding /\ call[c].pc \in Owning \ Holding
  BY DEF WriteCache, At, PC, Owning, Holding, AtGate
<1>5. call[c] \in CallRecord /\ call \in [Caller -> CallRecord]
  BY DEF GateInv, GateTypeOK, CallRecord
<1>6. call' = [call EXCEPT ![c] = rec]
  BY <1>1, <1>5
<1> HIDE DEF w
<1>7. rec \in CallRecord /\ rec.pc = "commit" /\ rec.q = call[c].q
  BY <1>3, <1>4, <1>5 DEF CallRecord
<1>8. call'[c] = rec /\ \A d \in Caller \ {c} : call'[d] = call[d]
  BY <1>5, <1>6
<1>9. UNCHANGED <<state, lock, cache, inflight, since>>
  BY DEF WriteCache
<1> HIDE DEF rec
<1>10. SlotsSpaced'
  BY <1>7, <1>8, <1>9, SpacedStep
<1>11. /\ lock # c /\ lock \in Caller \cup {None}
       /\ state \in [next : 0..Interval, cool : 0..Cooldown] /\ since \in 0..Interval
  BY <1>4 DEF GateInv, GateTypeOK
<1> QED
  BY <1>4, <1>6, <1>7, <1>9, <1>10, <1>11, MoveStep

LEMMA CommitCacheStep ==
    ASSUME GateInv, NEW c \in Caller, CommitCache(c)
    PROVE  GateInv'
<1>1. /\ call[c].pc = "commit" /\ call[c].q \in Query /\ lock # c
      /\ Ttl \in 0..Ttl
  BY GateAssumption DEF CommitCache, At, GateInv, GateTypeOK, CallersAtQuery, Holding, AtGate
<1>2. lock' = Released(c) /\ UNCHANGED <<state, since>>
  BY <1>1 DEF CommitCache, Released
<1>3. DOMAIN cache' \subseteq Query /\ \A k \in DOMAIN cache' : cache'[k] \in 0..Ttl
  BY <1>1 DEF CommitCache, GateInv, GateTypeOK
<1>4. \E a \in Answer : Complete(c, a)
  BY DEF CommitCache, Answer
<1> QED
  BY <1>2, <1>3, <1>4, LeaveStep

-----------------------------------------------------------------------------
(* Steps of the environment                                                *)

LEMMA TakeAnswerStep ==
    ASSUME GateInv, NEW c \in Caller, TakeAnswer(c)
    PROVE  GateInv'
<1>1. /\ call[c].pc = "done" /\ call' = [call EXCEPT ![c] = Idle]
      /\ UNCHANGED <<state, lock, cache, inflight, since>>
  BY DEF TakeAnswer, At
<1>2. Idle.pc = "idle"
  BY DEF Idle, Apart
<1>3. call \in [Caller -> CallRecord]
  BY DEF GateInv, GateTypeOK, CallRecord
<1>4. call'[c] = Idle /\ \A d \in Caller \ {c} : call'[d] = call[d]
  BY <1>1, <1>3
<1>5. GateTypeOK'
  BY <1>1, <1>2, <1>3, <1>4, IdleTyped DEF GateInv, GateTypeOK, CallRecord, Holding, AtGate
<1>6. SlotsSpaced'
  BY <1>1, <1>2, <1>4, SpacedStep
<1>7. \A p \in Process, q \in Query : inflight[p][q] # c
  BY <1>1, GateAssumption DEF GateInv, FlightsOwned, Owning, AtGate
<1>8. FlightsOwned'
  BY <1>1, <1>2, <1>4, <1>7 DEF GateInv, GateTypeOK, FlightsOwned, At
<1>9. CallersAtQuery'
  BY <1>1, <1>2, <1>4 DEF GateInv, CallersAtQuery
<1> QED
  BY <1>5, <1>6, <1>8, <1>9 DEF GateInv

\* A process that stops takes its callers, its entries and its lock with it.
LEMMA StopStep ==
    ASSUME GateInv, NEW p \in Process, StopGate(p)
    PROVE  GateInv'
<1>1. Idle.pc = "idle"
  BY DEF Idle, Apart
<1>2. \A c \in Caller : call'[c] = IF ProcessOf[c] = p THEN Idle ELSE call[c]
  BY DEF StopGate
<1>3. /\ lock' = IF lock # None /\ ProcessOf[lock] = p THEN None ELSE lock
      /\ inflight' = [inflight EXCEPT ![p] = [q \in Query |-> None]]
      /\ UNCHANGED <<state, cache, since>>
  BY DEF StopGate
<1>4. call' \in [Caller -> CallRecord]
  BY IdleTyped DEF StopGate, GateInv, GateTypeOK, CallRecord
<1>5. lock' \in Caller \cup {None}
      /\ \A c \in Caller : lock' = c <=> call'[c].pc \in Holding
  BY <1>1, <1>2, <1>3, GateAssumption DEF GateInv, GateTypeOK, Holding, AtGate
<1>6. \A r \in Process, q \in Query : inflight'[r][q] = IF r = p THEN None ELSE inflight[r][q]
  BY <1>3 DEF GateInv, GateTypeOK
<1>7. inflight' \in [Process -> [Query -> Caller \cup {None}]]
  BY <1>3 DEF GateInv, GateTypeOK
<1>8. GateTypeOK'
  BY <1>3, <1>4, <1>5, <1>7 DEF GateInv, GateTypeOK, CallRecord
<1>9. SlotsSpaced'
  BY <1>1, <1>2, <1>3 DEF GateInv, SlotsSpaced, At
<1>10. CallersAtQuery'
  BY <1>1, <1>2 DEF GateInv, CallersAtQuery
<1>11. ASSUME NEW r \in Process, NEW q \in Query, inflight'[r][q] # None
       PROVE  /\ call'[inflight'[r][q]].pc \in Owning
              /\ call'[inflight'[r][q]].q = q
              /\ ProcessOf[inflight'[r][q]] = r
  <2>1. r # p /\ inflight'[r][q] = inflight[r][q]
    BY <1>6, <1>11
  <2>2. /\ inflight[r][q] \in Caller
        /\ call[inflight[r][q]].pc \in Owning
        /\ call[inflight[r][q]].q = q
        /\ ProcessOf[inflight[r][q]] = r
    BY <2>1, <1>11 DEF GateInv, GateTypeOK, FlightsOwned
  <2> QED
    BY <1>2, <2>1, <2>2
<1>12. ASSUME NEW d \in Caller, call'[d].pc = "waiting"
       PROVE  /\ call'[d].q \in Query
              /\ call'[d].owner \in Caller
              /\ inflight'[ProcessOf[d]][call'[d].q] = call'[d].owner
  <2>1. call'[d] = call[d] /\ ProcessOf[d] # p /\ ProcessOf[d] \in Process
    BY <1>1, <1>2, <1>12, GateAssumption
  <2>2. /\ call[d].q \in Query /\ call[d].owner \in Caller
        /\ inflight[ProcessOf[d]][call[d].q] = call[d].owner
    BY <1>12, <2>1 DEF GateInv, FlightsOwned, At
  <2> QED
    BY <1>6, <2>1, <2>2
<1> QED
  BY <1>8, <1>9, <1>10, <1>11, <1>12 DEF GateInv, FlightsOwned, At

\* A tick takes from what is left exactly what it adds to what has passed.
LEMMA TickStep ==
    ASSUME GateInv, GateTick
    PROVE  GateInv'
<1>1. /\ Interval \in Nat /\ Cooldown \in Nat /\ Ttl \in Nat
      /\ state.next \in 0..Interval /\ state.cool \in 0..Cooldown /\ since \in 0..Interval
      /\ call \in [Caller -> CallRecord]
  BY GateAssumption DEF GateInv, GateTypeOK, CallRecord
<1>2. \A n, b : b \in Nat /\ n \in 0..b => Down(n) \in 0..b
  BY DEF Down
<1>3. since' \in 0..Interval
  BY <1>1 DEF GateTick, Up
<1>4. \A n \in 0..Interval : n + since >= Interval => Down(n) + since' >= Interval
  BY <1>1 DEF GateTick, Up, Down
<1>5. ASSUME NEW c \in Caller
      PROVE  /\ call'[c] \in CallRecord
             /\ call'[c].pc = call[c].pc /\ call'[c].q = call[c].q
             /\ call'[c].owner = call[c].owner
             /\ call'[c].wait = Down(call[c].wait) /\ call[c].wait \in 0..Interval
  <2>1. call'[c] = [call[c] EXCEPT !.wait = Down(call[c].wait)] /\ call[c] \in CallRecord
    BY <1>1 DEF GateTick
  <2>2. call[c].wait \in 0..Interval
    BY <2>1 DEF CallRecord
  <2>3. Down(call[c].wait) \in 0..Interval
    BY <1>1, <1>2, <2>2
  <2> QED
    BY <2>1, <2>2, <2>3 DEF CallRecord
<1>6. call' \in [Caller -> CallRecord]
  BY <1>5 DEF GateTick
<1>7. state' \in [next : 0..Interval, cool : 0..Cooldown]
      /\ state'.next = Down(state.next) /\ state'.cool = Down(state.cool)
  BY <1>1, <1>2 DEF GateTick
<1>8. DOMAIN cache' \subseteq Query /\ \A k \in DOMAIN cache' : cache'[k] \in 0..Ttl
  BY <1>1, <1>2 DEF GateTick, GateInv, GateTypeOK
<1>9. UNCHANGED <<lock, inflight>>
  BY DEF GateTick
<1>10. GateTypeOK'
  BY <1>3, <1>5, <1>6, <1>7, <1>8, <1>9 DEF GateInv, GateTypeOK, CallRecord
<1>11. FlightsOwned' /\ CallersAtQuery'
  BY <1>5, <1>9 DEF GateInv, GateTypeOK, FlightsOwned, CallersAtQuery, At
<1>12. SlotsSpaced'
  <2>1. state'.next + since' >= Interval
    BY <1>1, <1>4, <1>7 DEF GateInv, SlotsSpaced
  <2>2. state.cool = 0 => state'.cool = 0
    BY <1>7 DEF Down
  <2> QED
    BY <1>4, <1>5, <2>1, <2>2 DEF GateInv, SlotsSpaced, At
<1> QED
  BY <1>10, <1>11, <1>12 DEF GateInv
-----------------------------------------------------------------------------
(* The theorems                                                            *)

LEMMA InitInv == GateInit => GateInv
<1> SUFFICES ASSUME GateInit PROVE GateInv
  OBVIOUS
<1>1. Idle \in CallRecord /\ Idle.pc = "idle"
  BY IdleTyped DEF Idle, Apart
<1>2. \A c \in Caller : call[c] = Idle
  BY DEF GateInit
<1>3. Interval \in Nat /\ Cooldown \in Nat
  BY GateAssumption
<1>4. GateTypeOK
  BY <1>1, <1>3, GateAssumption DEF GateInit, GateTypeOK, CallRecord, Holding, AtGate
<1>5. FlightsOwned
  BY <1>1, <1>2 DEF GateInit, FlightsOwned, At
<1>6. SlotsSpaced
  BY <1>1, <1>2, <1>3 DEF GateInit, SlotsSpaced, At
<1>7. CallersAtQuery
  BY <1>1, <1>2 DEF CallersAtQuery
<1> QED
  BY <1>4, <1>5, <1>6, <1>7 DEF GateInv

LEMMA StepInv == GateInv /\ [GateNext]_gateVars => GateInv'
<1> SUFFICES ASSUME GateInv, [GateNext]_gateVars PROVE GateInv'
  OBVIOUS
<1>1. CASE \E c \in Caller : GateStep(c)
  BY <1>1, ReadCacheStep, ReserveStep, WriteCacheStep, CommitCacheStep, CheckCooldownStep,
     ConnectStep, AcquireStep, TakeSlotStep, SendStep, RespondStep, BreakStep, RecordStep,
     PoolTimeoutStep DEF GateStep
<1>2. CASE \E c \in Caller : TakeAnswer(c) \/ \E q \in Query : Call(c, q)
  BY <1>2, TakeAnswerStep, CallStep
<1>3. CASE \E p \in Process : StopGate(p)
  BY <1>3, StopStep
<1>4. CASE GateTick
  BY <1>4, TickStep
<1>5. CASE UNCHANGED gateVars
  BY <1>5 DEF gateVars, GateInv, GateTypeOK, FlightsOwned, SlotsSpaced, CallersAtQuery, At
<1> QED
  BY <1>1, <1>2, <1>3, <1>4, <1>5 DEF GateNext

LEMMA SpecInv == GateSpec => []GateInv
<1>1. GateInit => GateInv
  BY InitInv
<1>2. GateInv /\ [GateNext]_gateVars => GateInv'
  BY StepInv
<1> QED
  BY <1>1, <1>2, PTL DEF GateSpec

\* Every state is well typed, and the advisory lock is held by exactly the
\* caller that is between pg_advisory_lock and the end of its session
\* (rate_limit.py:65-105).
THEOREM GateTypeCorrect == GateSpec => []GateTypeOK
<1>1. GateInv => GateTypeOK
  BY DEF GateInv
<1> QED
  BY <1>1, SpecInv, PTL

LEMMA AttendedByOwners == GateInv => WaitersAttended
<1> SUFFICES ASSUME GateInv, NEW c \in Caller, At(c, "waiting")
             PROVE  LET o == call[c].owner IN
                    /\ call[o].pc \in Owning
                    /\ call[o].q = call[c].q
                    /\ inflight[ProcessOf[c]][call[c].q] = o
  BY DEF WaitersAttended
<1>1. /\ call[c].q \in Query /\ call[c].owner \in Caller /\ ProcessOf[c] \in Process
      /\ inflight[ProcessOf[c]][call[c].q] = call[c].owner
  BY GateAssumption DEF GateInv, FlightsOwned
<1> QED
  BY <1>1, GateAssumption DEF GateInv, FlightsOwned

\* Whoever waits for a request in flight waits for a caller that still works
\* on it (cache.py:65-81), however many share it and whatever ends it.
THEOREM WaitersAreAttended == GateSpec => []WaitersAttended
BY AttendedByOwners, SpecInv, PTL

\* A request of the caller is out.
Out(c) == call[c].pc \in {"fetch", "record"}

\* Only the caller that sleeps under the lock sends, when its sleep is over.
LEMMA OutBySend ==
    ASSUME GateInv, [GateNext]_gateVars, NEW c \in Caller, ~Out(c), Out(c)'
    PROVE  Send(c)
<1>1. /\ call[c].pc \notin {"fetch", "record"} /\ call'[c].pc \in {"fetch", "record"}
      /\ call \in [Caller -> CallRecord]
  BY DEF Out, GateInv, GateTypeOK, CallRecord
<1>2. ~UNCHANGED gateVars
  BY <1>1 DEF gateVars
<1>3. ASSUME NEW d \in Caller, NEW a \in Answer, Complete(d, a) PROVE FALSE
  BY <1>1, <1>3, SettledTyped DEF Complete, GateInv
<1>4. ASSUME NEW d \in Caller, NEW pc \in PC \ {"fetch", "record"}, To(d, pc) PROVE FALSE
  <2>1. call'[d].pc = pc /\ \A e \in Caller \ {d} : call'[e] = call[e]
    BY <1>4, MovedTyped
  <2> QED
    BY <1>1, <1>4, <2>1
<1>5. {"feed", "limited", "error"} \subseteq Answer
      /\ {"reserve", "check", "connect", "lock", "turn", "store"} \subseteq PC
  BY DEF Answer, PC, Owning, AtGate
<1>6. \A d \in Caller : d # c => ~Send(d)
  BY <1>1 DEF Send, To
<1>7. ASSUME NEW d \in Caller,
             ReadCache(d) \/ Reserve(d) \/ WriteCache(d) \/ CommitCache(d)
      PROVE  FALSE
  <2>1. CASE ReadCache(d)
    BY <1>1, <1>4, <1>5, <2>1 DEF ReadCache, Apart
  <2>2. CASE Reserve(d)
    BY <1>1, <1>4, <1>5, <2>2 DEF Reserve, CallRecord
  <2>3. CASE WriteCache(d)
    BY <1>1, <2>3 DEF WriteCache
  <2>4. CASE CommitCache(d)
    BY <1>3, <1>5, <2>4 DEF CommitCache
  <2> QED
    BY <1>7, <2>1, <2>2, <2>3, <2>4
<1>8. ASSUME NEW d \in Caller,
             CheckCooldown(d) \/ Connect(d) \/ Acquire(d) \/ TakeSlot(d)
      PROVE  FALSE
  <2>1. CASE CheckCooldown(d)
    BY <1>3, <1>4, <1>5, <2>1 DEF CheckCooldown
  <2>2. CASE Connect(d)
    BY <1>4, <1>5, <2>2 DEF Connect
  <2>3. CASE Acquire(d)
    BY <1>4, <1>5, <2>3 DEF Acquire
  <2>4. CASE TakeSlot(d)
    <3>1. call' = [call EXCEPT ![d].pc = "sleep", ![d].wait = state.next]
      BY <1>3, <1>5, <2>4 DEF TakeSlot
    <3>2. call'[c].pc = call[c].pc \/ call'[c].pc = "sleep"
      BY <1>1, <3>1 DEF CallRecord
    <3> QED
      BY <1>1, <3>2
  <2> QED
    BY <1>8, <2>1, <2>2, <2>3, <2>4
<1>9. ASSUME NEW d \in Caller, Respond(d) \/ Break(d) \/ Record(d) \/ PoolTimeout(d)
      PROVE  FALSE
  <2>1. CASE Respond(d)
    BY <1>1, <2>1 DEF Respond, At
  <2>2. CASE Break(d)
    BY <1>3, <1>5, <2>2 DEF Break
  <2>3. CASE Record(d)
    BY <1>3, <1>4, <1>5, <2>3 DEF Record
  <2>4. CASE PoolTimeout(d)
    BY <1>3, <1>5, <2>4 DEF PoolTimeout
  <2> QED
    BY <1>9, <2>1, <2>2, <2>3, <2>4
<1>10. ASSUME NEW d \in Caller, TakeAnswer(d) \/ \E q \in Query : Call(d, q)
       PROVE  FALSE
  <2>1. \A pc, q : Apart(pc, q, None).pc = pc
    BY DEF Apart
  <2>2. PICK pc \in {"idle", "read", "reserve"}, q \in Query \cup {None} :
           call' = [call EXCEPT ![d] = Apart(pc, q, None)]
    BY <1>10 DEF TakeAnswer, Call, Idle
  <2> QED
    BY <1>1, <2>1, <2>2
<1>11. ASSUME NEW p \in Process, StopGate(p) PROVE FALSE
  BY <1>1, <1>11 DEF StopGate, Idle, Apart
<1>12. ~GateTick
  BY <1>1 DEF GateTick, CallRecord
<1> QED
  BY <1>2, <1>6, <1>7, <1>8, <1>9, <1>10, <1>11, <1>12 DEF GateNext, GateStep

LEMMA SentBySend ==
    ASSUME GateInv, [GateNext]_gateVars, NEW c \in Caller, Sent(c)
    PROVE  Send(c)
BY OutBySend DEF Sent, Out

LEMMA SentInPeace ==
    GateInv /\ [GateNext]_gateVars => (\A c \in Caller : Sent(c) => state.cool = 0)
BY SentBySend DEF GateInv, SlotsSpaced, Send

LEMMA SentInTime ==
    GateInv /\ [GateNext]_gateVars => (\A c \in Caller : Sent(c) => since >= Interval)
<1> SUFFICES ASSUME GateInv, [GateNext]_gateVars, NEW c \in Caller, Sent(c)
             PROVE  since >= Interval
  OBVIOUS
<1>1. At(c, "sleep") /\ call[c].wait = 0
  BY SentBySend DEF Send
<1>2. call[c].wait + since >= Interval
  BY <1>1 DEF GateInv, SlotsSpaced
<1>3. since \in Nat /\ Interval \in Nat
  BY GateAssumption DEF GateInv, GateTypeOK
<1> QED
  BY <1>1, <1>2, <1>3

\* No request is sent while a cooldown runs, however long the caller queued
\* and slept since it looked (rate_limit.py:141-167).
THEOREM CooldownIsKept == GateSpec => CooldownKept
BY SentInPeace, SpecInv, PTL DEF GateSpec, CooldownKept

\* A request is sent at least the interval after the last answer that was
\* recorded, whichever process recorded it (rate_limit.py:170-180).
THEOREM AnswersAreSpaced == GateSpec => AnswersSpaced
BY SentInTime, SpecInv, PTL DEF GateSpec, AnswersSpaced

-----------------------------------------------------------------------------
(***************************************************************************)
(* The gate implements PacedRequests.  The lock makes the caller whose     *)
(* request is out the only one; it goes out with Send, which SlotsSpaced   *)
(* says is in time; only Record changes what is on record, and only time   *)
(* what is left of it.  Every other step is one the service does not see,  *)
(* or loses the request.                                                   *)
(***************************************************************************)
\* One request is out at a time.
LEMMA OneOut ==
    ASSUME GateInv, NEW c \in Caller, NEW d \in Caller, Out(c), Out(d)
    PROVE  c = d
BY DEF Out, GateInv, GateTypeOK, Holding, AtGate

LEMMA RequestOut ==
    /\ GateRequest = IF \E c \in Caller : Out(c) THEN "sent" ELSE "none"
    /\ GateRequest' = IF \E c \in Caller : Out(c)' THEN "sent" ELSE "none"
BY DEF GateRequest, Out

\* The record changes when an answer is recorded, or with the time.
LEMMA RecordKept ==
    ASSUME GateInv, [GateNext]_gateVars, ~GateTick, \A c \in Caller : ~Record(c)
    PROVE  since' = since /\ state'.cool = state.cool
<1>1. ASSUME NEW c \in Caller, GateStep(c)
      PROVE  since' = since /\ state'.cool = state.cool
  <2>1. CASE TakeSlot(c)
    BY <2>1 DEF TakeSlot, GateInv, GateTypeOK
  <2>2. CASE ReadCache(c) \/ Reserve(c) \/ WriteCache(c) \/ CommitCache(c)
             \/ CheckCooldown(c) \/ Connect(c) \/ Acquire(c)
    BY <2>2 DEF ReadCache, Reserve, WriteCache, CommitCache, CheckCooldown, Connect, Acquire
  <2>3. CASE Send(c) \/ Respond(c) \/ Break(c) \/ PoolTimeout(c)
    BY <2>3 DEF Send, Respond, Break, PoolTimeout
  <2> QED
    BY <1>1, <2>1, <2>2, <2>3 DEF GateStep
<1>2. ASSUME NEW c \in Caller, TakeAnswer(c) \/ \E q \in Query : Call(c, q)
      PROVE  since' = since /\ state'.cool = state.cool
  BY <1>2 DEF TakeAnswer, Call
<1>3. ASSUME NEW p \in Process, StopGate(p)
      PROVE  since' = since /\ state'.cool = state.cool
  BY <1>3 DEF StopGate
<1> QED
  BY <1>1, <1>2, <1>3 DEF GateNext, gateVars

LEMMA PacedByTick ==
    ASSUME GateInv, GateTick
    PROVE  ArxivPace!Wait
<1>1. /\ Interval \in Nat /\ since \in 0..Interval /\ state.cool \in 0..Cooldown
      /\ Cooldown \in Nat
  BY GateAssumption DEF GateInv, GateTypeOK
<1>2. Interval - since' = ArxivPace!Less(Interval - since)
  BY <1>1 DEF GateTick, Up, ArxivPace!Less
<1>3. state'.cool = ArxivPace!Less(state.cool)
  BY DEF GateTick, Down, ArxivPace!Less
<1>4. \A c \in Caller : Out(c)' <=> Out(c)
  <2>1. ASSUME NEW c \in Caller
        PROVE  call'[c].pc = call[c].pc
    BY DEF GateTick, GateInv, GateTypeOK
  <2> QED
    BY <2>1 DEF Out
<1>5. GateRequest' = GateRequest
  BY <1>4, RequestOut
<1>6. ArxivPace!Less(0) = 0
  BY DEF ArxivPace!Less
<1> QED
  BY <1>2, <1>3, <1>5, <1>6 DEF ArxivPace!Wait

LEMMA PacedByRecord ==
    ASSUME GateInv, NEW c \in Caller, Record(c)
    PROVE  ArxivPace!AnswerNoted
<1>1. Out(c) /\ call[c].pc = "record"
  BY DEF Record, At, Out
<1>2. \A d \in Caller : ~Out(d)'
  <2>1. ASSUME NEW d \in Caller, NEW a \in Answer, Complete(c, a)
        PROVE  ~Out(d)'
    <3>1. call'[c].pc = "done" /\ (call'[d] = call[d] \/ call'[d].pc = "done")
      BY <2>1, SettledTyped DEF Complete, GateInv
    <3>2. d # c => ~Out(d)
      BY <1>1, OneOut
    <3> QED
      BY <3>1, <3>2 DEF Out
  <2>2. ASSUME NEW d \in Caller, To(c, "store")
        PROVE  ~Out(d)'
    <3>1. "store" \in PC
      BY DEF PC, Owning
    <3>2. call'[c].pc = "store" /\ (d # c => call'[d] = call[d])
      BY <2>2, <3>1, MovedTyped
    <3>3. d # c => ~Out(d)
      BY <1>1, OneOut
    <3> QED
      BY <3>2, <3>3 DEF Out
  <2> QED
    BY <2>1, <2>2 DEF Record, Answer
<1>3. GateRequest = "sent" /\ GateRequest' = "none"
  BY <1>1, <1>2, RequestOut
<1>4. Interval - since' = Interval /\ state'.cool \in {state.cool, Cooldown}
  BY GateAssumption DEF Record, Recorded
<1> QED
  BY <1>3, <1>4 DEF ArxivPace!AnswerNoted

\* What the service sees of any step.
LEMMA PacedStep ==
    GateInv /\ [GateNext]_gateVars => [ArxivPace!PacedNext]_(ArxivPace!pacedVars)
<1> SUFFICES ASSUME GateInv, [GateNext]_gateVars
             PROVE  [ArxivPace!PacedNext]_(ArxivPace!pacedVars)
  OBVIOUS
<1>1. CASE GateTick
  BY <1>1, PacedByTick DEF ArxivPace!PacedNext
<1>2. CASE \E c \in Caller : Record(c)
  BY <1>2, PacedByRecord DEF ArxivPace!PacedNext
<1>3. CASE ~GateTick /\ \A c \in Caller : ~Record(c)
  <2>1. since' = since /\ state'.cool = state.cool
    BY <1>3, RecordKept
  <2>2. CASE GateRequest' = GateRequest
    BY <2>1, <2>2 DEF ArxivPace!pacedVars
  <2>3. CASE GateRequest = "sent" /\ GateRequest' = "none"
    BY <2>1, <2>3 DEF ArxivPace!PacedNext, ArxivPace!Lose, ArxivPace!NoDraft
  <2>4. CASE GateRequest = "none" /\ GateRequest' = "sent"
    <3>1. PICK c \in Caller : ~Out(c) /\ Out(c)'
      BY <2>4, RequestOut
    <3>2. Send(c)
      BY <3>1, OutBySend
    <3>3. Sent(c)
      BY <3>1, <3>2 DEF Send, At, To, Sent, GateInv, GateTypeOK
    <3>4. state.cool = 0 /\ since >= Interval
      BY <3>3, SentInPeace, SentInTime
    <3>5. Interval - since = 0
      <4>1. since \in 0..Interval /\ Interval \in Nat
        BY GateAssumption DEF GateInv, GateTypeOK
      <4> QED
        BY <3>4, <4>1
    <3> QED
      BY <2>1, <2>4, <3>4, <3>5 DEF ArxivPace!PacedNext, ArxivPace!Send
  <2> QED
    BY <2>2, <2>3, <2>4, RequestOut
<1> QED
  BY <1>1, <1>2, <1>3

LEMMA PacedInitially == GateInit => ArxivPace!PacedInit
<1> SUFFICES ASSUME GateInit PROVE ArxivPace!PacedInit
  OBVIOUS
<1>1. \A c \in Caller : ~Out(c)
  BY DEF GateInit, Out, Idle, Apart
<1> QED
  BY <1>1, RequestOut, GateAssumption DEF GateInit, ArxivPace!PacedInit, ArxivPace!NoDraft

\* The gate implements PacedRequests: whatever the callers of all processes
\* do, arXiv is asked at its pace (rate_limit.py:50-180).
THEOREM GateImplementsPace == GateSpec => ArxivIsPaced
BY PacedInitially, PacedStep, SpecInv, PTL DEF GateSpec, ArxivIsPaced, ArxivPace!PacedSpec

-----------------------------------------------------------------------------
(***************************************************************************)
(* The pipeline of the PDFs.                                               *)
(*                                                                         *)
(* The argument for Unpaywall: a task that is past its turn holds the slot *)
(* of the process, so that there is one of them; what it sleeps makes up   *)
(* for what is missing of the interval since the last request, and no      *)
(* other request is sent meanwhile.  A worker thread decides for the row   *)
(* of a task only while the task waits for it.                             *)
(***************************************************************************)
\* A thread that works for a task is waited for, and it is the only one.
FetchesAwaited ==
    /\ \A w \in Worker : worker[w].task # None => Is(worker[w].task, "items")
    /\ \A v, w \in Worker :
        worker[v].task # None /\ worker[v].task = worker[w].task => v = w

SlotKept ==
    /\ unpaywall.next + quiet >= SlotInterval
    /\ \A t \in Task : Is(t, "payload") <=> unpaywall.holder = t
    /\ \A t \in Task : Is(t, "payload") => row[t].wait + quiet >= SlotInterval

PipelineInv == GateInv /\ PipelineTypeOK /\ FetchesAwaited /\ SlotKept

\* Every step of the pipeline is a step of the gate, or leaves it alone.
LEMMA GateOfPipeline == [Next]_vars => [GateNext]_gateVars
<1> SUFFICES ASSUME [Next]_vars
            PROVE  [GateNext]_gateVars
  OBVIOUS
<1>1. CASE UNCHANGED vars
  BY <1>1 DEF vars
<1>2. ASSUME NEW t \in Task, Schedule(t) \/ RowStep(t)
      PROVE  [GateNext]_gateVars
  <2>1. t \in Caller
    BY PipelineAssumption
  <2>2. CASE AskArxiv(t) \/ FromArxiv(t)
    BY <2>1, <2>2 DEF AskArxiv, FromArxiv, GateNext
  <2>3. CASE Schedule(t) \/ AskOpenAlex(t) \/ SkipArxiv(t) \/ AskUnpaywall(t) \/ EnterSlot(t)
    BY <2>3 DEF Schedule, AskOpenAlex, SkipArxiv, AskUnpaywall, EnterSlot
  <2>4. CASE TakeUnpaywallSlot(t) \/ Crawl(t) \/ StartFetch(t) \/ GiveUp(t) \/ Persist(t)
    BY <2>4 DEF TakeUnpaywallSlot, Crawl, StartFetch, GiveUp, Persist
  <2> QED
    BY <1>2, <2>2, <2>3, <2>4 DEF RowStep
<1>3. ASSUME NEW c \in Caller, GateStep(c)
      PROVE  [GateNext]_gateVars
  BY <1>3 DEF GateNext
<1>4. ASSUME NEW c \in Caller, Enrich(c)
      PROVE  [GateNext]_gateVars
  <2>1. (CHOOSE q \in Query : TRUE) \in Query
    BY PipelineAssumption
  <2> QED
    BY <1>4, <2>1 DEF Enrich, GateNext
<1>5. ASSUME NEW w \in Worker, TakeCrossrefSlot(w) \/ EndFetch(w)
      PROVE  [GateNext]_gateVars
  BY <1>5 DEF TakeCrossrefSlot, EndFetch
<1>6. ASSUME NEW p \in Process, Stop(p)
      PROVE  [GateNext]_gateVars
  BY <1>6 DEF Stop, GateNext
<1>7. CASE Tick
  BY <1>7 DEF Tick, GateNext
<1> QED
  BY <1>1, <1>2, <1>3, <1>4, <1>5, <1>6, <1>7 DEF Next

\* A caller that is not looking anything up is not moved by the gate.
LEMMA IdleStays ==
    ASSUME GateInv, NEW c \in Caller, GateStep(c), NEW d \in Caller, At(d, "idle")
    PROVE  At(d, "idle")'
<1>1. call \in [Caller -> CallRecord] /\ call[d].pc = "idle"
  BY DEF GateInv, GateTypeOK, CallRecord, At
<1>2. ASSUME NEW a \in Answer, Complete(c, a), c # d
      PROVE  At(d, "idle")'
  BY <1>1, <1>2, SettledTyped DEF Complete, GateInv, At
<1>3. ASSUME NEW pc \in PC, To(c, pc), c # d
      PROVE  At(d, "idle")'
  BY <1>1, <1>3, MovedTyped DEF At
<1>4. {"feed", "limited", "error"} \subseteq Answer
      /\ {"reserve", "check", "connect", "lock", "turn", "store", "fetch"} \subseteq PC
  BY DEF Answer, PC, Owning, AtGate
<1>5. c # d
  BY <1>1 DEF GateStep, ReadCache, Reserve, WriteCache, CommitCache, CheckCooldown, Connect,
     Acquire, TakeSlot, Send, Respond, Break, Record, PoolTimeout, At
<1>6. CASE ReadCache(c) \/ Reserve(c)
  BY <1>1, <1>3, <1>4, <1>5, <1>6 DEF ReadCache, Reserve, At
<1>7. CASE WriteCache(c) \/ Respond(c)
  BY <1>1, <1>5, <1>7 DEF WriteCache, Respond, At
<1>8. CASE CommitCache(c) \/ Break(c) \/ PoolTimeout(c)
  BY <1>2, <1>4, <1>5, <1>8 DEF CommitCache, Break, PoolTimeout
<1>9. CASE CheckCooldown(c) \/ Connect(c) \/ Acquire(c) \/ Send(c) \/ Record(c)
  BY <1>2, <1>3, <1>4, <1>5, <1>9 DEF CheckCooldown, Connect, Acquire, Send, Record
<1>10. CASE TakeSlot(c)
  BY <1>1, <1>2, <1>4, <1>5, <1>10 DEF TakeSlot, At
<1> QED
  BY <1>6, <1>7, <1>8, <1>9, <1>10 DEF GateStep

RowRecord ==
    [at : Stage, left : 0..BatchSize, allow : BOOLEAN, tries : Nat, doi : BOOLEAN,
     payload : {"none", "direct", "landing"}, used : BOOLEAN, wait : 0..SlotInterval,
     limited : BOOLEAN, pdf : BOOLEAN]

ThreadRecord ==
    [task : Task \cup {None}, pc : {"free", "sleep", "request"}, wait : 0..SlotInterval]

LEMMA NoRowTyped ==
    /\ NoRow \in RowRecord /\ NoRow.at = "idle"
    /\ Free \in ThreadRecord /\ Free.task = None
BY PipelineAssumption DEF NoRow, RowRecord, Stage, Free, ThreadRecord

LEMMA PipelineInit == Init => PipelineInv
<1> SUFFICES ASSUME Init
            PROVE  PipelineInv
  OBVIOUS
<1>1. GateInv
  BY InitInv DEF Init
<1>2. SlotInterval \in Nat /\ \A t \in Task : t \in Caller /\ t # None
  BY PipelineAssumption, GateAssumption
<1>3. \A t \in Task : At(t, "idle") /\ row[t] = NoRow
  BY <1>2 DEF Init, GateInit, At, Idle, Apart
<1>4. PipelineTypeOK
  BY <1>1, <1>2, <1>3, NoRowTyped DEF Init, PipelineTypeOK, GateInv, RowRecord, ThreadRecord
<1>5. FetchesAwaited
  BY NoRowTyped DEF Init, FetchesAwaited
<1>6. SlotKept
  BY <1>2, <1>3, NoRowTyped DEF Init, SlotKept, Is
<1> QED
  BY <1>1, <1>4, <1>5, <1>6 DEF PipelineInv

\* What a step keeps that writes one row, and neither the slot of Unpaywall
\* nor a thread.
LEMMA RowWritten ==
    ASSUME PipelineInv, GateInv', NEW t \in Task, NEW new \in RowRecord, Become(t, new),
           row[t].at \notin {"payload", "items"}, new.at # "payload",
           \A u \in Task \ {t} : At(u, "idle") => At(u, "idle")',
           At(t, "idle")' \/ new.at = "arxiv",
           UNCHANGED <<unpaywall, crossref, worker, quiet>>
    PROVE  PipelineInv'
<1> USE DEF PipelineInv
<1>1. row \in [Task -> RowRecord] /\ row' = [row EXCEPT ![t] = new]
  BY DEF PipelineTypeOK, RowRecord, Become
<1>2. /\ row' \in [Task -> RowRecord] /\ row'[t] = new
      /\ \A u \in Task \ {t} : row'[u] = row[u]
  BY <1>1
<1>3. \A u \in Task : At(u, "idle")' \/ row'[u].at = "arxiv"
  BY <1>2 DEF PipelineTypeOK
<1>4. PipelineTypeOK'
  BY <1>2, <1>3 DEF GateInv, PipelineTypeOK, RowRecord
<1>5. \A w \in Worker : worker[w].task # None => worker[w].task \in Task \ {t}
  BY DEF FetchesAwaited, PipelineTypeOK, Is
<1>6. FetchesAwaited'
  BY <1>2, <1>5 DEF FetchesAwaited, Is
<1>7. SlotKept'
  BY <1>2 DEF SlotKept, Is
<1> QED
  BY <1>4, <1>6, <1>7

\* The same for a step that leaves the gate alone.
LEMMA RowMoves ==
    ASSUME PipelineInv, NEW t \in Task, NEW new \in RowRecord, Become(t, new),
           row[t].at \notin {"payload", "items"}, new.at # "payload",
           At(t, "idle"), UNCHANGED <<gateVars, unpaywall, crossref, worker, quiet>>
    PROVE  PipelineInv'
<1>1. GateInv'
  BY StepInv DEF PipelineInv
<1>2. \A c \in Caller : At(c, "idle")' <=> At(c, "idle")
  BY DEF gateVars, At
<1>3. Task \subseteq Caller
  BY PipelineAssumption
<1> QED
  BY <1>1, <1>2, <1>3, RowWritten DEF gateVars

\* A task that is not at arXiv is not looking anything up there.
LEMMA OffArxiv ==
    ASSUME PipelineInv, NEW t \in Task
    PROVE  row[t] \in RowRecord /\ (row[t].at # "arxiv" => At(t, "idle"))
BY DEF PipelineInv, PipelineTypeOK, RowRecord

LEMMA EndedTyped ==
    ASSUME PipelineInv, NEW t \in Task, NEW pdf \in BOOLEAN
    PROVE  Ended(t, pdf) \in RowRecord /\ Ended(t, pdf).at = "persist"
BY OffArxiv DEF Ended, RowRecord, Stage

LEMMA NextRowTyped ==
    ASSUME NEW left \in 0..BatchSize, NEW allow \in BOOLEAN, NEW r \in NextRow(left, allow)
    PROVE  r \in RowRecord /\ r.at \in {"openalex", "arxiv"}
<1>1. ASSUME NEW at \in {"openalex", "arxiv"}, NEW doi \in BOOLEAN
      PROVE  Begun(at, doi, left, allow) \in RowRecord /\ Begun(at, doi, left, allow).at = at
  BY NoRowTyped DEF Begun, RowRecord, Stage
<1>2. \E at \in {"openalex", "arxiv"}, doi \in BOOLEAN : r = Begun(at, doi, left, allow)
  BY DEF NextRow
<1> QED
  BY <1>1, <1>2

LEMMA BatchStep ==
    ASSUME PipelineInv, NEW t \in Task, Schedule(t) \/ Persist(t)
    PROVE  PipelineInv'
<1>1. /\ row[t] \in RowRecord /\ row[t].at \notin {"payload", "items"} /\ At(t, "idle")
      /\ UNCHANGED <<gateVars, unpaywall, crossref, worker, quiet>>
  BY OffArxiv DEF Schedule, Persist, Is
<1>2. BatchSize \in Nat /\ row[t].left \in 0..BatchSize
  BY <1>1, PipelineAssumption DEF RowRecord
<1>3. \E new \in RowRecord : Become(t, new) /\ new.at # "payload"
  <2>1. CASE Schedule(t)
    <3>1. BatchSize \in 0..BatchSize
      BY <1>2
    <3> QED
      BY <2>1, <3>1, NextRowTyped DEF Schedule
  <2>2. CASE Persist(t)
    <3>1. CASE row[t].left <= 1 /\ Become(t, NoRow)
      BY <3>1, NoRowTyped
    <3>2. CASE row[t].left > 1
      <4>1. row[t].left - 1 \in 0..BatchSize /\ (row[t].allow /\ ~row[t].limited) \in BOOLEAN
        BY <1>2, <3>2
      <4>2. \E r \in NextRow(row[t].left - 1, row[t].allow /\ ~row[t].limited) : Become(t, r)
        BY <1>2, <2>2, <3>2 DEF Persist
      <4> QED
        BY <4>1, <4>2, NextRowTyped
    <3> QED
      BY <2>2, <3>1, <3>2 DEF Persist
  <2> QED
    BY <2>1, <2>2
<1> QED
  BY <1>1, <1>3, RowMoves

LEMMA AskStep ==
    ASSUME PipelineInv, NEW t \in Task,
           AskOpenAlex(t) \/ SkipArxiv(t) \/ AskUnpaywall(t) \/ Crawl(t)
    PROVE  PipelineInv'
<1>1. /\ row[t] \in RowRecord /\ row[t].at \notin {"payload", "items"} /\ At(t, "idle")
      /\ UNCHANGED <<gateVars, unpaywall, crossref, worker, quiet>>
  BY OffArxiv DEF AskOpenAlex, SkipArxiv, AskUnpaywall, Crawl, Is
<1>2. /\ \A pdf \in BOOLEAN : Ended(t, pdf) \in RowRecord /\ Ended(t, pdf).at = "persist"
      /\ BatchSize \in Nat
  BY EndedTyped, PipelineAssumption
<1>3. \E new \in RowRecord : Become(t, new) /\ new.at # "payload"
  <2>1. CASE AskOpenAlex(t)
    <3>1. [row[t] EXCEPT !.at = "arxiv", !.tries = 0] \in RowRecord
          /\ [row[t] EXCEPT !.at = "arxiv", !.tries = 0].at = "arxiv"
      BY <1>1 DEF RowRecord, Stage
    <3>2. [row[t] EXCEPT !.tries = @ + 1] \in RowRecord
          /\ [row[t] EXCEPT !.tries = @ + 1].at = row[t].at
      BY <1>1 DEF RowRecord
    <3>3. [Ended(t, FALSE) EXCEPT !.left = 0] \in RowRecord
          /\ [Ended(t, FALSE) EXCEPT !.left = 0].at = "persist"
      <4> DEFINE e == Ended(t, FALSE)
      <4>1. 0 \in 0..BatchSize
        BY <1>2
      <4>2. e \in RowRecord /\ e.at = "persist"
        BY <1>2, FALSE \in BOOLEAN
      <4> HIDE DEF e
      <4>3. [e EXCEPT !.left = 0] \in RowRecord /\ [e EXCEPT !.left = 0].at = "persist"
        BY <4>1, <4>2 DEF RowRecord
      <4> QED
        BY <4>3 DEF e
    <3> QED
      BY <1>1, <1>2, <2>1, <3>1, <3>2, <3>3 DEF AskOpenAlex
  <2>2. CASE SkipArxiv(t)
    <3>1. [row[t] EXCEPT !.at = "unpaywall"] \in RowRecord
          /\ [row[t] EXCEPT !.at = "unpaywall"].at = "unpaywall"
      BY <1>1 DEF RowRecord, Stage
    <3> QED
      BY <2>2, <3>1 DEF SkipArxiv
  <2>3. CASE AskUnpaywall(t)
    <3>1. ASSUME NEW at \in {"slot", "crossref"}
          PROVE  [row[t] EXCEPT !.at = at] \in RowRecord /\ [row[t] EXCEPT !.at = at].at = at
      BY <1>1 DEF RowRecord, Stage
    <3> QED
      BY <1>2, <2>3, <3>1 DEF AskUnpaywall
  <2>4. CASE Crawl(t)
    <3>1. [row[t] EXCEPT !.at = "slot", !.tries = @ + 1] \in RowRecord
          /\ [row[t] EXCEPT !.at = "slot", !.tries = @ + 1].at = "slot"
      <4> DEFINE n == row[t].tries + 1
      <4>1. n \in Nat /\ "slot" \in Stage
        BY <1>1 DEF RowRecord, Stage
      <4> HIDE DEF n
      <4>2. [row[t] EXCEPT !.at = "slot", !.tries = n] \in RowRecord
            /\ [row[t] EXCEPT !.at = "slot", !.tries = n].at = "slot"
        BY <1>1, <4>1 DEF RowRecord
      <4> QED
        BY <4>2 DEF n
    <3> QED
      BY <1>2, <2>4, <3>1 DEF Crawl
  <2> QED
    BY <2>1, <2>2, <2>3, <2>4
<1> QED
  BY <1>1, <1>3, RowMoves

LEMMA ArxivStep ==
    ASSUME PipelineInv, NEW t \in Task, AskArxiv(t) \/ FromArxiv(t)
    PROVE  PipelineInv'
<1>1. row[t] \in RowRecord /\ row[t].at = "arxiv" /\ t \in Caller /\ Task \subseteq Caller
  BY OffArxiv, PipelineAssumption DEF AskArxiv, FromArxiv, Is
<1>2. GateInv' /\ call \in [Caller -> CallRecord]
  BY <1>1, StepInv DEF AskArxiv, FromArxiv, GateNext, PipelineInv, GateInv, GateTypeOK, CallRecord
<1>3. \A u \in Caller \ {t} : call'[u] = call[u]
  BY <1>2 DEF AskArxiv, FromArxiv, Call, TakeAnswer
<1>4. CASE AskArxiv(t)
  <2>1. UNCHANGED <<row, unpaywall, crossref, worker, quiet>>
    BY <1>4 DEF AskArxiv, pipelineVars
  <2>2. PipelineTypeOK'
    BY <1>1, <1>2, <1>3, <2>1 DEF PipelineInv, PipelineTypeOK, GateInv, At
  <2> QED
    BY <1>2, <2>1, <2>2 DEF PipelineInv, FetchesAwaited, SlotKept, Is
<1>5. CASE FromArxiv(t)
  <2>1. UNCHANGED <<unpaywall, crossref, worker, quiet>> /\ At(t, "idle")'
    BY <1>1, <1>2, <1>5 DEF FromArxiv, TakeAnswer, At, Idle, Apart
  <2>2. ASSUME NEW b \in BOOLEAN
        PROVE  [row[t] EXCEPT !.at = "unpaywall", !.limited = b] \in RowRecord
               /\ [row[t] EXCEPT !.at = "unpaywall", !.limited = b].at = "unpaywall"
    BY <1>1 DEF RowRecord, Stage
  <2>3. \E new \in RowRecord : Become(t, new) /\ new.at # "payload"
    <3>1. CASE Become(t, Ended(t, TRUE))
      BY <3>1, EndedTyped
    <3>2. CASE Become(t, [row[t] EXCEPT !.at = "unpaywall", !.limited = call[t].answer = "limited"])
      <4>1. (call[t].answer = "limited") \in BOOLEAN
        OBVIOUS
      <4> QED
        BY <2>2, <3>2, <4>1
    <3> QED
      BY <1>5, <3>1, <3>2 DEF FromArxiv
  <2>4. \A u \in Task \ {t} : At(u, "idle") => At(u, "idle")'
    BY <1>1, <1>3 DEF At
  <2> QED
    BY <1>1, <1>2, <2>1, <2>3, <2>4, RowWritten
<1> QED
  BY <1>4, <1>5

\* A step within the process that leaves the gate alone keeps the types, as
\* long as the rows it writes were not at arXiv.
LEMMA RowsTyped ==
    ASSUME PipelineInv, UNCHANGED gateVars, row' \in [Task -> RowRecord],
           worker' \in [Worker -> ThreadRecord],
           unpaywall' \in [holder : Task \cup {None}, next : 0..SlotInterval],
           crossref' \in 0..SlotInterval, quiet' \in 0..SlotInterval,
           \A t \in Task : row[t].at = "arxiv" => row'[t].at = "arxiv"
    PROVE  GateInv' /\ PipelineTypeOK'
<1>1. GateInv'
  BY StepInv DEF PipelineInv
<1>2. Task \subseteq Caller
  BY PipelineAssumption
<1>3. \A t \in Task : At(t, "idle")' \/ row'[t].at = "arxiv"
  BY <1>2 DEF PipelineInv, PipelineTypeOK, gateVars, At
<1> QED
  BY <1>1, <1>3 DEF GateInv, PipelineTypeOK, RowRecord, ThreadRecord

\* What the slot's holder, the rows and the threads are.
LEMMA PipelineTyped ==
    ASSUME PipelineInv
    PROVE  /\ row \in [Task -> RowRecord] /\ worker \in [Worker -> ThreadRecord]
           /\ unpaywall \in [holder : Task \cup {None}, next : 0..SlotInterval]
           /\ crossref \in 0..SlotInterval /\ quiet \in 0..SlotInterval
           /\ SlotInterval \in Nat /\ None \notin Task
BY PipelineAssumption, GateAssumption
   DEF PipelineInv, PipelineTypeOK, RowRecord, ThreadRecord

LEMMA EnterStep ==
    ASSUME PipelineInv, NEW t \in Task, EnterSlot(t)
    PROVE  PipelineInv'
<1> DEFINE new == [row[t] EXCEPT !.at = "payload", !.wait = unpaywall.next]
<1>1. row[t] \in RowRecord /\ row[t].at = "slot" /\ unpaywall.next \in 0..SlotInterval
  BY PipelineTyped DEF EnterSlot, Is
<1>2. new \in RowRecord /\ new.at = "payload" /\ new.wait = unpaywall.next
  BY <1>1 DEF RowRecord, Stage
<1>3. row' = [row EXCEPT ![t] = new] /\ UNCHANGED <<gateVars, crossref, worker, quiet>>
  BY DEF EnterSlot, Become
<1> HIDE DEF new
<1>4. /\ row' \in [Task -> RowRecord] /\ row'[t] = new
      /\ \A u \in Task \ {t} : row'[u] = row[u]
  BY <1>2, <1>3, PipelineTyped
<1>5. unpaywall.holder = None /\ unpaywall' = [unpaywall EXCEPT !.holder = t]
  BY DEF EnterSlot
<1>6. /\ unpaywall' \in [holder : Task \cup {None}, next : 0..SlotInterval]
      /\ unpaywall'.holder = t /\ unpaywall'.next = unpaywall.next
  BY <1>5, PipelineTyped
<1>7. GateInv' /\ PipelineTypeOK'
  BY <1>1, <1>3, <1>4, <1>6, PipelineTyped, RowsTyped
<1>8. FetchesAwaited'
  BY <1>1, <1>3, <1>4, PipelineTyped DEF PipelineInv, FetchesAwaited, Is, ThreadRecord
<1>9. SlotKept'
  BY <1>2, <1>3, <1>4, <1>5, <1>6, PipelineTyped DEF PipelineInv, SlotKept, Is
<1> QED
  BY <1>7, <1>8, <1>9 DEF PipelineInv

LEMMA SlotStep ==
    ASSUME PipelineInv, NEW t \in Task, TakeUnpaywallSlot(t)
    PROVE  PipelineInv'
<1>1. /\ row[t] \in RowRecord /\ row[t].at = "payload" /\ quiet' = 0
      /\ UNCHANGED <<gateVars, crossref, worker>>
  BY PipelineTyped DEF TakeUnpaywallSlot, Is
<1>2. \A pdf \in BOOLEAN : Ended(t, pdf) \in RowRecord /\ Ended(t, pdf).at = "persist"
  BY EndedTyped
<1>3. \E new \in RowRecord : Become(t, new) /\ new.at # "payload" /\ new.at # "arxiv"
  <2>1. [row[t] EXCEPT !.at = "crawl"] \in RowRecord /\ [row[t] EXCEPT !.at = "crawl"].at = "crawl"
    BY <1>1 DEF RowRecord, Stage
  <2>2. [Ended(t, TRUE) EXCEPT !.payload = "direct"] \in RowRecord
        /\ [Ended(t, TRUE) EXCEPT !.payload = "direct"].at = "persist"
    <3> DEFINE e == Ended(t, TRUE)
    <3>1. e \in RowRecord /\ e.at = "persist"
      BY <1>2, TRUE \in BOOLEAN
    <3> HIDE DEF e
    <3>2. [e EXCEPT !.payload = "direct"] \in RowRecord
          /\ [e EXCEPT !.payload = "direct"].at = "persist"
      BY <3>1 DEF RowRecord
    <3> QED
      BY <3>2 DEF e
  <2>3. ASSUME NEW p \in {"none", "landing"}, NEW at \in {"crawl", "crossref"}
        PROVE  LET new == [row[t] EXCEPT !.payload = IF p = "none" THEN @ ELSE p, !.at = at]
               IN  new \in RowRecord /\ new.at = at
    BY <1>1 DEF RowRecord, Stage
  <2>4. (IF row[t].used \/ Budget = 0 THEN "crawl" ELSE "crossref") \in {"crawl", "crossref"}
    OBVIOUS
  <2> QED
    BY <1>2, <2>1, <2>2, <2>3, <2>4 DEF TakeUnpaywallSlot
<1>4. PICK new \in RowRecord : Become(t, new) /\ new.at # "payload" /\ new.at # "arxiv"
  BY <1>3
<1>5. /\ row' \in [Task -> RowRecord] /\ row'[t] = new
      /\ \A u \in Task \ {t} : row'[u] = row[u]
  BY <1>4, PipelineTyped DEF Become
<1>6. unpaywall.holder = t
  BY <1>1 DEF PipelineInv, SlotKept, Is
<1>7. unpaywall'.holder = None /\ unpaywall'.next = SlotInterval
      /\ unpaywall' \in [holder : Task \cup {None}, next : 0..SlotInterval]
  <2>1. SlotInterval \in 0..SlotInterval
    BY PipelineTyped
  <2> QED
    BY <1>6, <2>1 DEF TakeUnpaywallSlot, SlotTaken
<1>8. GateInv' /\ PipelineTypeOK'
  <2>1. quiet' \in 0..SlotInterval
    BY <1>1, PipelineTyped
  <2> QED
    BY <1>1, <1>5, <1>7, <2>1, PipelineTyped, RowsTyped
<1>9. FetchesAwaited'
  BY <1>1, <1>5, PipelineTyped DEF PipelineInv, FetchesAwaited, Is, ThreadRecord
<1>10. SlotKept'
  <2>1. \A u \in Task : ~Is(u, "payload")'
    BY <1>4, <1>5, <1>6 DEF PipelineInv, SlotKept, Is
  <2>2. unpaywall'.next + quiet' >= SlotInterval
    BY <1>1, <1>7, PipelineTyped
  <2>3. \A u \in Task : unpaywall'.holder # u
    BY <1>7, PipelineTyped
  <2> QED
    BY <2>1, <2>2, <2>3 DEF SlotKept
<1> QED
  BY <1>8, <1>9, <1>10 DEF PipelineInv

\* The threads are written, and the row of one task that is not at the slot
\* of Unpaywall and does not go there.
LEMMA FetchWritten ==
    ASSUME PipelineInv, NEW t \in Task, NEW new \in RowRecord, Become(t, new),
           row[t].at \notin {"payload", "arxiv"}, new.at # "payload",
           UNCHANGED <<gateVars, unpaywall, quiet>>, crossref' \in 0..SlotInterval,
           worker' \in [Worker -> ThreadRecord], FetchesAwaited'
    PROVE  PipelineInv'
<1>1. /\ row' \in [Task -> RowRecord] /\ row'[t] = new
      /\ \A u \in Task \ {t} : row'[u] = row[u]
  BY PipelineTyped DEF Become
<1>2. GateInv' /\ PipelineTypeOK'
  BY <1>1, PipelineTyped, RowsTyped
<1>3. SlotKept'
  BY <1>1 DEF PipelineInv, SlotKept, Is
<1> QED
  BY <1>2, <1>3 DEF PipelineInv

\* A thread is begun for a task that has none.
LEMMA StartStep ==
    ASSUME PipelineInv, NEW t \in Task, StartFetch(t)
    PROVE  PipelineInv'
<1>1. /\ row[t] \in RowRecord /\ row[t].at = "crossref"
      /\ UNCHANGED <<gateVars, unpaywall, crossref, quiet>>
  BY PipelineTyped DEF StartFetch, Is
<1> DEFINE new == [row[t] EXCEPT !.at = "items"]
           begun == [task |-> t, pc |-> "sleep", wait |-> crossref]
<1>2. new \in RowRecord /\ new.at = "items"
  BY <1>1 DEF RowRecord, Stage
<1>3. begun \in ThreadRecord /\ begun.task = t
  BY PipelineTyped DEF ThreadRecord
<1>4. Become(t, new)
  BY DEF StartFetch
<1>5. PICK w \in Worker : worker' = [worker EXCEPT ![w] = begun]
  BY DEF StartFetch
<1> HIDE DEF new, begun
<1>6. /\ worker' \in [Worker -> ThreadRecord] /\ worker'[w] = begun
      /\ \A v \in Worker \ {w} : worker'[v] = worker[v]
  BY <1>3, <1>5, PipelineTyped
<1>7. row'[t] = new /\ \A u \in Task \ {t} : row'[u] = row[u]
  BY <1>4, PipelineTyped DEF Become
<1>8. \A v \in Worker : worker[v].task # None => worker[v].task \in Task \ {t}
  BY <1>1, PipelineTyped DEF PipelineInv, FetchesAwaited, Is, ThreadRecord
<1>9. FetchesAwaited'
  <2>1. row'[t].at = "items"
    BY <1>2, <1>7
  <2>2. ASSUME NEW v \in Worker, worker'[v].task # None
        PROVE  row'[worker'[v].task].at = "items"
    <3>1. CASE v = w
      BY <1>3, <1>6, <2>1, <3>1
    <3>2. CASE v # w
      <4>1. worker'[v] = worker[v] /\ worker[v].task # None
        BY <1>6, <2>2, <3>2
      <4>2. worker[v].task \in Task \ {t} /\ row[worker[v].task].at = "items"
        BY <1>8, <4>1 DEF PipelineInv, FetchesAwaited, Is
      <4> QED
        BY <1>7, <4>1, <4>2
    <3> QED
      BY <3>1, <3>2
  <2>3. ASSUME NEW u \in Worker, NEW v \in Worker,
               worker'[u].task # None, worker'[u].task = worker'[v].task
        PROVE  u = v
    <3>1. CASE u # w /\ v # w
      BY <1>6, <2>3, <3>1 DEF PipelineInv, FetchesAwaited
    <3>2. CASE u = w \/ v = w
      BY <1>3, <1>6, <1>8, <2>3, <3>2
    <3> QED
      BY <3>1, <3>2
  <2> QED
    BY <2>2, <2>3 DEF FetchesAwaited, Is
<1> QED
  BY <1>1, <1>2, <1>4, <1>6, <1>9, PipelineTyped, FetchWritten

\* A thread that works on keeps its task.
LEMMA WorkOnStep ==
    ASSUME PipelineInv, NEW w \in Worker, TakeCrossrefSlot(w)
    PROVE  PipelineInv'
<1> DEFINE new == [worker[w] EXCEPT !.pc = "request"]
<1>1. new \in ThreadRecord /\ new.task = worker[w].task
  BY PipelineTyped DEF ThreadRecord
<1>2. worker' = [worker EXCEPT ![w] = new]
      /\ crossref' = SlotInterval /\ UNCHANGED <<gateVars, row, unpaywall, quiet>>
  BY DEF TakeCrossrefSlot
<1> HIDE DEF new
<1>3. worker' \in [Worker -> ThreadRecord]
      /\ \A v \in Worker : worker'[v].task = worker[v].task
  BY <1>1, <1>2, PipelineTyped
<1>4. FetchesAwaited' /\ SlotKept'
  BY <1>2, <1>3 DEF PipelineInv, FetchesAwaited, SlotKept, Is
<1>5. SlotInterval \in 0..SlotInterval
  BY PipelineTyped
<1>6. GateInv' /\ PipelineTypeOK'
  BY <1>2, <1>3, <1>5, PipelineTyped, RowsTyped
<1> QED
  BY <1>4, <1>6 DEF PipelineInv

\* What is judged from the items leaves the stage of the items.
LEMMA JudgedTyped ==
    ASSUME PipelineInv, NEW t \in Task, NEW r \in Judged(t)
    PROVE  r \in RowRecord /\ r.at \in {"slot", "crawl", "crossref"}
<1>1. row[t] \in RowRecord
  BY PipelineTyped
<1>2. [row[t] EXCEPT !.at = "slot", !.used = TRUE, !.tries = 0] \in RowRecord
      /\ [row[t] EXCEPT !.at = "slot", !.used = TRUE, !.tries = 0].at = "slot"
  BY <1>1 DEF RowRecord, Stage
<1>3. [row[t] EXCEPT !.at = "crawl", !.tries = 0] \in RowRecord
      /\ [row[t] EXCEPT !.at = "crawl", !.tries = 0].at = "crawl"
  BY <1>1 DEF RowRecord, Stage
<1>4. [row[t] EXCEPT !.at = "crossref", !.tries = @ + 1] \in RowRecord
      /\ [row[t] EXCEPT !.at = "crossref", !.tries = @ + 1].at = "crossref"
  <2> DEFINE n == row[t].tries + 1
  <2>1. n \in Nat /\ "crossref" \in Stage
    BY <1>1 DEF RowRecord, Stage
  <2> HIDE DEF n
  <2>2. [row[t] EXCEPT !.at = "crossref", !.tries = n] \in RowRecord
        /\ [row[t] EXCEPT !.at = "crossref", !.tries = n].at = "crossref"
    BY <1>1, <2>1 DEF RowRecord
  <2> QED
    BY <2>2 DEF n
<1> QED
  BY <1>2, <1>3, <1>4 DEF Judged

\* A thread ends, and its task with it where it still waits.
LEMMA EndStep ==
    ASSUME PipelineInv, NEW w \in Worker, EndFetch(w)
    PROVE  PipelineInv'
<1>1. /\ worker' \in [Worker -> ThreadRecord] /\ worker'[w].task = None
      /\ \A v \in Worker \ {w} : worker'[v] = worker[v]
      /\ UNCHANGED <<gateVars, unpaywall, crossref, quiet>>
  BY NoRowTyped, PipelineTyped DEF EndFetch
<1> DEFINE t == worker[w].task
<1>2. CASE t = None
  <2>1. UNCHANGED row
    BY <1>2 DEF EndFetch
  <2>2. FetchesAwaited' /\ SlotKept'
    BY <1>1, <2>1 DEF PipelineInv, FetchesAwaited, SlotKept, Is
  <2>3. GateInv' /\ PipelineTypeOK'
    BY <1>1, <2>1, PipelineTyped, RowsTyped
  <2> QED
    BY <2>2, <2>3 DEF PipelineInv
<1>3. CASE t # None
  <2>1. t \in Task /\ row[t].at = "items"
    BY <1>3, PipelineTyped DEF PipelineInv, FetchesAwaited, Is, ThreadRecord
  <2>2. \E r \in Judged(t) : Become(t, r)
    BY <1>3 DEF EndFetch
  <2>3. PICK r \in RowRecord : Become(t, r) /\ r.at # "payload"
    BY <2>1, <2>2, JudgedTyped
  <2>4. \A u \in Task \ {t} : row'[u] = row[u]
    BY <2>1, <2>3, PipelineTyped DEF Become
  <2>5. \A v \in Worker \ {w} : worker[v].task # t
    BY <1>3 DEF PipelineInv, FetchesAwaited
  <2>6. \A v \in Worker \ {w} : worker[v].task # None => worker[v].task \in Task \ {t}
    BY <2>5, PipelineTyped DEF ThreadRecord
  <2>7. FetchesAwaited'
    BY <1>1, <2>4, <2>6 DEF PipelineInv, FetchesAwaited, Is
  <2> HIDE DEF t
  <2> QED
    BY <1>1, <2>1, <2>3, <2>7, PipelineTyped, FetchWritten
<1> QED
  BY <1>2, <1>3

\* A task that gives up is no longer anyone's.
LEMMA GiveUpStep ==
    ASSUME PipelineInv, NEW t \in Task, GiveUp(t)
    PROVE  PipelineInv'
<1>1. /\ row[t] \in RowRecord /\ row[t].at \in {"items", "crossref"}
      /\ UNCHANGED <<gateVars, unpaywall, crossref, quiet>>
  BY PipelineTyped DEF GiveUp
<1>2. PICK new \in RowRecord : Become(t, new) /\ new.at # "payload"
  BY JudgedTyped DEF GiveUp, Judged
<1>3. \A u \in Task \ {t} : row'[u] = row[u]
  BY <1>2, PipelineTyped DEF Become
<1> DEFINE left(w) == [worker[w] EXCEPT !.task = None]
<1>4. \A w \in Worker : left(w) \in ThreadRecord /\ left(w).task = None
  BY PipelineTyped DEF ThreadRecord
<1>5. worker' = [w \in Worker |-> IF worker[w].task = t THEN left(w) ELSE worker[w]]
  BY DEF GiveUp
<1> HIDE DEF left
<1>6. /\ worker' \in [Worker -> ThreadRecord]
      /\ \A w \in Worker : worker'[w].task # None
            => worker'[w].task = worker[w].task /\ worker[w].task # t
  BY <1>4, <1>5, PipelineTyped
<1>7. FetchesAwaited'
  <2>1. \A w \in Worker : worker'[w].task # None
           => worker'[w].task \in Task \ {t} /\ worker'[w].task = worker[w].task
    BY <1>6, PipelineTyped DEF ThreadRecord
  <2> QED
    BY <1>3, <2>1 DEF PipelineInv, FetchesAwaited, Is
<1> QED
  BY <1>1, <1>2, <1>6, <1>7, PipelineTyped, FetchWritten

\* A caller's own step at the gate, in the pipeline.
LEMMA CallerStep ==
    ASSUME PipelineInv, NEW c \in Caller,
           GateStep(c) \/ (c \notin Task /\ Enrich(c)), UNCHANGED pipelineVars
    PROVE  PipelineInv'
<1>1. /\ Task \subseteq Caller /\ (CHOOSE q \in Query : TRUE) \in Query
      /\ UNCHANGED <<row, unpaywall, crossref, worker, quiet>>
  BY PipelineAssumption DEF pipelineVars
<1>2. GateInv'
  BY <1>1, StepInv DEF PipelineInv, Enrich, GateNext
<1>3. \A t \in Task : At(t, "idle") => At(t, "idle")'
  <2>1. CASE GateStep(c)
    BY <1>1, <2>1, IdleStays DEF PipelineInv
  <2>2. CASE c \notin Task /\ Enrich(c)
    BY <1>1, <2>2 DEF PipelineInv, GateInv, GateTypeOK, Enrich, Call, TakeAnswer, At
  <2> QED
    BY <2>1, <2>2
<1>4. PipelineTypeOK'
  BY <1>1, <1>2, <1>3 DEF PipelineInv, PipelineTypeOK, GateInv
<1> QED
  BY <1>1, <1>2, <1>4 DEF PipelineInv, FetchesAwaited, SlotKept, Is

\* With the process of the tasks everything of theirs starts again.
LEMMA StopsStep ==
    ASSUME PipelineInv, NEW p \in Process, Stop(p)
    PROVE  PipelineInv'
<1>1. GateInv'
  BY StepInv DEF PipelineInv, Stop, GateNext
<1>2. /\ Task \subseteq Caller /\ SlotInterval \in 0..SlotInterval /\ 0 \in 0..SlotInterval
      /\ SlotInterval \in Nat /\ None \notin Task
  BY PipelineAssumption, PipelineTyped
<1>3. /\ call \in [Caller -> CallRecord] /\ Idle.pc = "idle"
      /\ call' = [c \in Caller |-> IF ProcessOf[c] = p THEN Idle ELSE call[c]]
  BY DEF PipelineInv, GateInv, GateTypeOK, CallRecord, Stop, StopGate, Idle, Apart
<1>4. CASE \E t \in Task : ProcessOf[t] = p
  <2>1. /\ row' = [t \in Task |-> NoRow] /\ unpaywall' = [holder |-> None, next |-> 0]
        /\ crossref' = 0 /\ worker' = [w \in Worker |-> Free] /\ quiet' = SlotInterval
    BY <1>4 DEF Stop
  <2>2. /\ row' \in [Task -> RowRecord] /\ worker' \in [Worker -> ThreadRecord]
        /\ \A t \in Task : row'[t].at = "idle"
        /\ \A w \in Worker : worker'[w].task = None
    BY <2>1, NoRowTyped
  <2>3. \A t \in Task : ProcessOf[t] = p
    BY <1>4, PipelineAssumption
  <2>4. \A t \in Task : At(t, "idle")'
    BY <1>2, <1>3, <2>3 DEF At
  <2>5. PipelineTypeOK'
    BY <1>1, <1>2, <2>1, <2>2, <2>4 DEF GateInv, PipelineTypeOK, RowRecord, ThreadRecord
  <2>6. FetchesAwaited' /\ SlotKept'
    BY <1>2, <2>1, <2>2 DEF FetchesAwaited, SlotKept, Is
  <2> QED
    BY <1>1, <2>5, <2>6 DEF PipelineInv
<1>5. CASE ~ \E t \in Task : ProcessOf[t] = p
  <2>1. UNCHANGED <<row, unpaywall, crossref, worker, quiet>>
    BY <1>5 DEF Stop, pipelineVars
  <2>2. \A t \in Task : At(t, "idle") => At(t, "idle")'
    BY <1>2, <1>3, <1>5 DEF At
  <2>3. PipelineTypeOK'
    BY <1>1, <2>1, <2>2 DEF PipelineInv, PipelineTypeOK, GateInv
  <2> QED
    BY <1>1, <2>1, <2>3 DEF PipelineInv, FetchesAwaited, SlotKept, Is
<1> QED
  BY <1>4, <1>5

\* What is slept down is gained in quiet.
LEMMA TimeSlept ==
    ASSUME NEW bound \in Nat, NEW w \in 0..bound, NEW s \in 0..bound
    PROVE  /\ Down(w) \in 0..bound /\ Up(s, bound) \in 0..bound
           /\ w + s >= bound => Down(w) + Up(s, bound) >= bound
<1>1. CASE w > 0 /\ s < bound
  BY <1>1 DEF Down, Up
<1>2. CASE w > 0 /\ ~(s < bound)
  BY <1>2 DEF Down, Up
<1>3. CASE ~(w > 0)
  BY <1>3 DEF Down, Up
<1> QED
  BY <1>1, <1>2, <1>3

LEMMA TimePasses == ASSUME PipelineInv, Tick PROVE PipelineInv'
<1>1. GateInv'
  BY StepInv DEF PipelineInv, Tick, GateNext
<1>2. SlotInterval \in Nat /\ Task \subseteq Caller
  BY PipelineAssumption
<1> DEFINE later(t) == [row[t] EXCEPT !.wait = Down(@)]
           on(w) == [worker[w] EXCEPT !.wait = Down(@)]
<1>3. ASSUME NEW t \in Task
      PROVE  later(t) \in RowRecord /\ later(t).at = row[t].at /\ later(t).wait = Down(row[t].wait)
  <2>1. row[t] \in RowRecord /\ Down(row[t].wait) \in 0..SlotInterval
    <3>1. row[t] \in RowRecord /\ row[t].wait \in 0..SlotInterval
      BY PipelineTyped DEF RowRecord
    <3> QED
      BY <1>2, <3>1 DEF Down
  <2> QED
    BY <2>1 DEF RowRecord
<1>4. ASSUME NEW w \in Worker
      PROVE  on(w) \in ThreadRecord /\ on(w).task = worker[w].task
  <2>1. worker[w] \in ThreadRecord /\ Down(worker[w].wait) \in 0..SlotInterval
    <3>1. worker[w] \in ThreadRecord /\ worker[w].wait \in 0..SlotInterval
      BY PipelineTyped DEF ThreadRecord
    <3> QED
      BY <1>2, <3>1 DEF Down
  <2> QED
    BY <2>1 DEF ThreadRecord
<1>5. /\ row' = [t \in Task |-> later(t)] /\ worker' = [w \in Worker |-> on(w)]
      /\ unpaywall' = [unpaywall EXCEPT !.next = Down(@)] /\ crossref' = Down(crossref)
      /\ quiet' = Up(quiet, SlotInterval)
      /\ call' = [c \in Caller |-> [call[c] EXCEPT !.wait = Down(@)]]
  BY DEF Tick, GateTick
<1> HIDE DEF later, on
<1>6. /\ row' \in [Task -> RowRecord] /\ worker' \in [Worker -> ThreadRecord]
      /\ \A t \in Task : row'[t].at = row[t].at /\ row'[t].wait = Down(row[t].wait)
      /\ \A w \in Worker : worker'[w].task = worker[w].task
  BY <1>3, <1>4, <1>5
<1>7. /\ unpaywall.next \in 0..SlotInterval /\ quiet \in 0..SlotInterval
      /\ crossref \in 0..SlotInterval
      /\ \A t \in Task : row[t].wait \in 0..SlotInterval
  BY PipelineTyped DEF RowRecord
<1>8. /\ crossref' \in 0..SlotInterval /\ quiet' \in 0..SlotInterval
      /\ Down(unpaywall.next) \in 0..SlotInterval
  BY <1>2, <1>5, <1>7, TimeSlept
<1>9. /\ unpaywall' \in [holder : Task \cup {None}, next : 0..SlotInterval]
      /\ unpaywall'.holder = unpaywall.holder /\ unpaywall'.next = Down(unpaywall.next)
  BY <1>5, <1>8, PipelineTyped
<1>10. \A t \in Task : At(t, "idle") => At(t, "idle")'
  BY <1>2, <1>5 DEF PipelineInv, GateInv, GateTypeOK, At
<1>11. PipelineTypeOK'
  BY <1>1, <1>6, <1>8, <1>9, <1>10 DEF PipelineInv, PipelineTypeOK, GateInv, RowRecord, ThreadRecord
<1>12. FetchesAwaited'
  BY <1>6, PipelineTyped DEF PipelineInv, FetchesAwaited, Is, ThreadRecord
<1>13. SlotKept'
  <2>1. unpaywall'.next + quiet' >= SlotInterval
    BY <1>2, <1>5, <1>7, <1>9, TimeSlept DEF PipelineInv, SlotKept
  <2>2. \A t \in Task : Is(t, "payload")' <=> unpaywall'.holder = t
    BY <1>6, <1>9 DEF PipelineInv, SlotKept, Is
  <2>3. ASSUME NEW t \in Task, Is(t, "payload")'
        PROVE  row'[t].wait + quiet' >= SlotInterval
    <3>1. row[t].wait + quiet >= SlotInterval
      BY <1>6, <2>3 DEF PipelineInv, SlotKept, Is
    <3> QED
      BY <1>2, <1>5, <1>6, <1>7, <3>1, TimeSlept
  <2> QED
    BY <2>1, <2>2, <2>3 DEF SlotKept
<1> QED
  BY <1>1, <1>11, <1>12, <1>13 DEF PipelineInv

LEMMA PipelineInductive == PipelineInv /\ [Next]_vars => PipelineInv'
<1> SUFFICES ASSUME PipelineInv, [Next]_vars
             PROVE  PipelineInv'
  OBVIOUS
<1>1. ASSUME NEW t \in Task, Schedule(t) \/ RowStep(t)
      PROVE  PipelineInv'
  BY <1>1, BatchStep, AskStep, ArxivStep, EnterStep, SlotStep, StartStep, GiveUpStep DEF RowStep
<1>2. ASSUME NEW c \in Caller, GateStep(c) \/ (c \notin Task /\ Enrich(c)), UNCHANGED pipelineVars
      PROVE  PipelineInv'
  BY <1>2, CallerStep
<1>3. ASSUME NEW w \in Worker, TakeCrossrefSlot(w) \/ EndFetch(w)
      PROVE  PipelineInv'
  BY <1>3, WorkOnStep, EndStep
<1>4. CASE \E p \in Process : Stop(p)
  BY <1>4, StopsStep
<1>5. CASE Tick
  BY <1>5, TimePasses
<1>6. CASE UNCHANGED vars
  BY <1>6 DEF vars, gateVars, pipelineVars, PipelineInv, GateInv, GateTypeOK, FlightsOwned,
     SlotsSpaced, CallersAtQuery, At, PipelineTypeOK, FetchesAwaited, SlotKept, Is
<1> QED
  BY <1>1, <1>2, <1>3, <1>4, <1>5, <1>6 DEF Next

LEMMA PipelineSpecInv == Spec => []PipelineInv
BY PipelineInit, PipelineInductive, PTL DEF Spec

\* Every state of the pipeline is well typed, and a task looks something up
\* at arXiv only while its row is there (pdf_resolution_pipeline.py:25-54).
THEOREM PipelineTypeCorrect == Spec => []PipelineTypeOK
<1>1. PipelineInv => PipelineTypeOK
  BY DEF PipelineInv
<1> QED
  BY <1>1, PipelineSpecInv, PTL

\* Requests to Unpaywall are the interval apart, whatever tasks share the
\* slot (unpaywall/rate_limit.py:10-18).
THEOREM UnpaywallIsSpaced == Spec => UnpaywallSpaced
<1>1. ASSUME PipelineInv, [Next]_vars, NEW t \in Task,
             Is(t, "payload"), row'[t].at \notin {"payload", "idle"}
      PROVE  quiet >= SlotInterval
  <2>1. row \in [Task -> RowRecord] /\ row[t].at = "payload" /\ row'[t].at # row[t].at
    BY <1>1, PipelineTyped DEF Is
  <2>2. \A u \in Task : \A r : Become(u, r) => u = t \/ row'[t] = row[t]
    BY <2>1 DEF Become
  <2>3. row[t].wait = 0
    <3>1. ~UNCHANGED row
      BY <2>1
    <3>2. ASSUME NEW u \in Task, Schedule(u) \/ RowStep(u)
          PROVE  TakeUnpaywallSlot(t)
      <4>1. CASE Schedule(u) \/ AskOpenAlex(u) \/ SkipArxiv(u) \/ AskArxiv(u) \/ FromArxiv(u)
        BY <2>1, <2>2, <3>1, <4>1
           DEF Schedule, AskOpenAlex, SkipArxiv, AskArxiv, FromArxiv, pipelineVars, Is
      <4>2. CASE AskUnpaywall(u) \/ EnterSlot(u) \/ Crawl(u)
        BY <2>1, <2>2, <4>2 DEF AskUnpaywall, EnterSlot, Crawl, Is
      <4>3. CASE StartFetch(u) \/ GiveUp(u) \/ Persist(u)
        BY <2>1, <2>2, <4>3 DEF StartFetch, GiveUp, Persist, Is
      <4>4. CASE TakeUnpaywallSlot(u)
        BY <2>1, <2>2, <4>4 DEF TakeUnpaywallSlot
      <4> QED
        BY <3>2, <4>1, <4>2, <4>3, <4>4 DEF RowStep
    <3>3. ASSUME NEW c \in Caller, UNCHANGED pipelineVars
          PROVE  FALSE
      BY <3>1, <3>3 DEF pipelineVars
    <3>4. ASSUME NEW w \in Worker, TakeCrossrefSlot(w) \/ EndFetch(w)
          PROVE  FALSE
      <4>1. CASE TakeCrossrefSlot(w) \/ worker[w].task = None
        BY <3>1, <3>4, <4>1 DEF TakeCrossrefSlot, EndFetch
      <4>2. CASE EndFetch(w) /\ worker[w].task # None
        <5>1. worker[w].task \in Task \ {t}
          BY <1>1, <2>1, <4>2, PipelineTyped DEF PipelineInv, FetchesAwaited, Is, ThreadRecord
        <5> QED
          BY <2>1, <2>2, <4>2, <5>1 DEF EndFetch
      <4> QED
        BY <3>4, <4>1, <4>2
    <3>5. ASSUME NEW p \in Process, Stop(p)
          PROVE  FALSE
      BY <1>1, <3>1, <3>5, NoRowTyped DEF Stop, pipelineVars
    <3>6. ~Tick
      BY <2>1 DEF Tick, RowRecord
    <3>7. ~UNCHANGED vars
      BY <3>1 DEF vars, pipelineVars
    <3> QED
      BY <1>1, <3>2, <3>3, <3>4, <3>5, <3>6, <3>7 DEF Next, TakeUnpaywallSlot
  <2>4. row[t].wait + quiet >= SlotInterval
    BY <1>1 DEF PipelineInv, SlotKept
  <2> QED
    BY <1>1, <2>3, <2>4, PipelineTyped
<1>2. PipelineInv /\ [Next]_vars =>
         \A t \in Task : Is(t, "payload") /\ row'[t].at \notin {"payload", "idle"}
            => quiet >= SlotInterval
  BY <1>1
<1> QED
  BY <1>2, PipelineSpecInv, PTL DEF Spec, UnpaywallSpaced

\* The pipeline keeps what the gate promises: cooldowns, the spacing of the
\* answers, and callers that wait for somebody (rate_limit.py:141-180,
\* cache.py:65-81).
THEOREM PipelineKeepsGate == Spec => CooldownKept /\ AnswersSpaced /\ []WaitersAttended
<1>1. PipelineInv => GateInv
  BY DEF PipelineInv
<1>2. GateInv => WaitersAttended
  BY AttendedByOwners
<1>3. GateInv /\ [GateNext]_gateVars =>
         (\A c \in Caller : Sent(c) => state.cool = 0)
  BY SentInPeace
<1>4. GateInv /\ [GateNext]_gateVars =>
         (\A c \in Caller : Sent(c) => since >= Interval)
  BY SentInTime
<1> QED
  BY <1>1, <1>2, <1>3, <1>4, PipelineSpecInv, GateOfPipeline, PTL
     DEF Spec, CooldownKept, AnswersSpaced

\* The pipeline, too, implements PacedRequests: its tasks and the enrichment
\* of the runs share the gate (rate_limit.py:50-180).
THEOREM PipelineImplementsPace == Spec => ArxivIsPaced
<1>1. PipelineInv => GateInv
  BY DEF PipelineInv
<1>2. Init => GateInit
  BY DEF Init
<1> QED
  BY <1>1, <1>2, PacedInitially, PacedStep, PipelineSpecInv, GateOfPipeline, PTL
     DEF Spec, ArxivIsPaced, ArxivPace!PacedSpec

-----------------------------------------------------------------------------
(***************************************************************************)
(* The searches for an author.                                             *)
(*                                                                         *)
(* Only the holder of the advisory lock commits, so that what it read of   *)
(* the runtime row is still there when it does.  The row then counts       *)
(* exactly the blocked answers that were stored in a row, which trip the   *)
(* breaker before they are as many as its threshold; a copy of the row is  *)
(* ahead of it by the one answer its transaction has not committed yet.    *)
(***************************************************************************)
SearchRecord ==
    [pc : InTransaction \cup {"idle", "lock"}, name : Name \cup {Nobody}, copy : RuntimeState,
     wait : 0..(MinInterval + Jitter), tries : 0..Retries,
     live : {"no", "answered", "blocked", "armed"},
     entry : [outcome : Outcome, left : 0..AnswerTtl]]

\* The alert of a cooldown in a runtime row is its own.
AlertKept(r) == r.cool # Unset => (r.alerted <=> r.rejections = AlertAt)

\* The blocked answers in a row once what r holds is committed.
CountAfter(r) ==
    CASE r.live = "no" -> streak
      [] r.live = "blocked" -> streak + 1
      [] OTHER -> 0

RequestOK(r) ==
    /\ r.pc # "commit" => r.live = "no"
    /\ r.pc # "idle" => r.name \in Name
    /\ AlertKept(r.copy) /\ r.copy.blocked < BlockThreshold
    /\ r.pc \in InTransaction => r.copy.blocked = CountAfter(r)
    /\ r.pc = "sleep" => r.wait >= runtime.next /\ ~Refuses(runtime)
    /\ r.pc \in {"sleep", "fetch"} => ~Refuses(r.copy)

SearchInv ==
    /\ SearchTypeOK /\ search \in [Client -> SearchRecord]
    /\ AlertKept(runtime) /\ runtime.blocked = streak /\ streak < BlockThreshold
    /\ \A c \in Client : RequestOK(search[c])

LEMMA SearchConstants ==
    /\ BlockThreshold \in Nat \ {0} /\ CooldownTime \in Nat \ {0} /\ AlertAt \in Nat \ {0}
    /\ AnswerTtl \in Nat \ {0} /\ BlockedTtl \in Nat \ {0} /\ CacheSize \in Nat \ {0}
    /\ MinInterval \in Nat /\ Jitter \in Nat /\ Retries \in Nat /\ Nobody \notin Client
BY SearchAssumption

\* What normalizing a runtime row leaves as it is.
LEMMA NormalizedKeeps ==
    ASSUME NEW r \in RuntimeState, AlertKept(r)
    PROVE  LET n == Normalized(r) IN
           /\ n \in RuntimeState /\ AlertKept(n) /\ n.blocked = r.blocked /\ n.next = r.next
           /\ Refuses(n) <=> Refuses(r)
<1>1. CASE r.cool = Over
  <2> DEFINE n == [r EXCEPT !.cool = Unset, !.rejections = 0, !.alerted = FALSE]
  <2>0. Unset \in Unset..LongestCooldown /\ 0 \in 0..AlertAt
    BY SearchConstants DEF Unset, LongestCooldown, LastSecond
  <2>1. /\ n \in RuntimeState /\ n.cool = Unset /\ n.blocked = r.blocked /\ n.next = r.next
    BY <2>0 DEF RuntimeState
  <2>2. Normalized(r) = n
    BY <1>1 DEF Normalized
  <2> HIDE DEF n
  <2>3. ~Refuses(n) /\ ~Refuses(r)
    BY <1>1, <2>1 DEF Refuses, Unset, Over, LastSecond
  <2> QED
    BY <2>1, <2>2, <2>3 DEF AlertKept
<1>2. CASE r.cool # Over
  BY <1>2 DEF Normalized
<1> QED
  BY <1>1, <1>2

\* The alert goes on with the refusal that reaches the threshold.
LEMMA CountedKeeps ==
    ASSUME NEW r \in RuntimeState, AlertKept(r), Refuses(r)
    PROVE  LET n == Counted(r) IN
           n \in RuntimeState /\ AlertKept(n) /\ n.blocked = r.blocked
<1> DEFINE k == IF r.rejections < AlertAt THEN r.rejections + 1 ELSE AlertAt
           on == r.alerted \/ k = AlertAt
           n == [r EXCEPT !.rejections = k, !.alerted = on]
<1>1. r.rejections \in 0..AlertAt /\ r.alerted \in BOOLEAN /\ AlertAt \in Nat \ {0}
  BY SearchConstants DEF RuntimeState
<1>2. k \in 0..AlertAt
  BY <1>1
<1>3. Counted(r) = n
  BY DEF Counted
<1>4. r.alerted <=> r.rejections = AlertAt
  BY DEF AlertKept, Refuses, Unset, LastSecond
<1>5. on \in BOOLEAN /\ (on <=> k = AlertAt)
  BY <1>1, <1>4
<1> HIDE DEF k, on
<1>6. /\ n \in RuntimeState /\ n.rejections = k /\ n.alerted = on /\ n.blocked = r.blocked
  BY <1>2, <1>5 DEF RuntimeState
<1> QED
  BY <1>3, <1>5, <1>6 DEF AlertKept

\* What an answer makes of the row: the count goes on, or it ends, with the
\* cooldown begun.
LEMMA JudgeKeeps ==
    ASSUME NEW r \in RuntimeState, AlertKept(r), ~Refuses(r), NEW o \in Outcome
    PROVE  LET j == Judge([r EXCEPT !.next = MinInterval], o) IN
           /\ j \in RuntimeState /\ AlertKept(j) /\ j.blocked < BlockThreshold
           /\ j.blocked = IF j.cool # LongestCooldown /\ o = "blocked" THEN r.blocked + 1 ELSE 0
<1> DEFINE q == [r EXCEPT !.next = MinInterval]
<1>1. /\ q \in RuntimeState /\ q.cool = r.cool /\ q.blocked = r.blocked
      /\ q.rejections = r.rejections /\ q.alerted = r.alerted
  <2>1. MinInterval \in 0..MinInterval
    BY SearchConstants
  <2> QED
    BY <2>1 DEF RuntimeState
<1> HIDE DEF q
<1>2. AlertKept(q) /\ ~Refuses(q)
  BY <1>1 DEF AlertKept, Refuses
<1>3. /\ r.blocked \in 0..BlockThreshold /\ r.cool \in Unset..LongestCooldown
      /\ BlockThreshold \in Nat \ {0} /\ r.cool # LongestCooldown
  BY SearchConstants DEF RuntimeState, Refuses, LongestCooldown, LastSecond, Unset
<1>4. CASE o # "blocked"
  <2>1. Judge(q, o) = [q EXCEPT !.blocked = 0]
    BY <1>4 DEF Judge
  <2>2. 0 \in 0..BlockThreshold
    BY <1>3
  <2>3. LET j == [q EXCEPT !.blocked = 0] IN
        /\ j \in RuntimeState /\ j.blocked = 0 /\ j.cool = q.cool
        /\ j.alerted = q.alerted /\ j.rejections = q.rejections
    BY <1>1, <2>2 DEF RuntimeState
  <2> QED
    <3> DEFINE j == Judge(q, o)
    <3>1. /\ j \in RuntimeState /\ j.blocked = 0 /\ j.cool = r.cool
          /\ j.alerted = r.alerted /\ j.rejections = r.rejections
      BY <1>1, <2>1, <2>3
    <3> HIDE DEF j
    <3>2. /\ j \in RuntimeState /\ AlertKept(j) /\ j.blocked < BlockThreshold
          /\ j.blocked = IF j.cool # LongestCooldown /\ o = "blocked" THEN r.blocked + 1 ELSE 0
      BY <1>3, <1>4, <3>1 DEF AlertKept
    <3> QED
      BY <3>2 DEF j, q
<1>5. CASE o = "blocked" /\ r.blocked + 1 < BlockThreshold
  <2> DEFINE b == r.blocked + 1
  <2>1. Judge(q, o) = [q EXCEPT !.blocked = b]
    BY <1>1, <1>5 DEF Judge
  <2>2. b \in 0..BlockThreshold /\ b < BlockThreshold
    BY <1>3, <1>5
  <2> HIDE DEF b
  <2>3. LET j == [q EXCEPT !.blocked = b] IN
        /\ j \in RuntimeState /\ j.blocked = b /\ j.cool = q.cool
        /\ j.alerted = q.alerted /\ j.rejections = q.rejections
    BY <1>1, <2>2 DEF RuntimeState
  <2> QED
    <3> DEFINE j == Judge(q, o)
    <3>1. /\ j \in RuntimeState /\ j.blocked = b /\ j.cool = r.cool
          /\ j.alerted = r.alerted /\ j.rejections = r.rejections
      BY <1>1, <2>1, <2>3
    <3> HIDE DEF j
    <3>2. /\ j \in RuntimeState /\ AlertKept(j) /\ j.blocked < BlockThreshold
          /\ j.blocked = IF j.cool # LongestCooldown /\ o = "blocked" THEN b ELSE 0
      BY <1>3, <1>5, <2>2, <3>1 DEF AlertKept
    <3> QED
      BY <3>2 DEF j, q, b
<1>6. CASE o = "blocked" /\ ~(r.blocked + 1 < BlockThreshold)
  <2> DEFINE j == [q EXCEPT !.cool = LongestCooldown, !.blocked = 0,
                            !.rejections = 0, !.alerted = FALSE]
  <2>1. Judge(q, o) = j
    BY <1>1, <1>6 DEF Judge
  <2>2. /\ 0 \in 0..BlockThreshold /\ 0 \in 0..AlertAt /\ 0 # AlertAt
        /\ LongestCooldown \in Unset..LongestCooldown
    BY SearchConstants DEF LongestCooldown, LastSecond, Unset
  <2>3. /\ j \in RuntimeState /\ j.blocked = 0 /\ j.cool = LongestCooldown
        /\ j.alerted = FALSE /\ j.rejections = 0
    BY <1>1, <2>2 DEF RuntimeState
  <2> HIDE DEF j
  <2> QED
    BY <1>3, <2>1, <2>2, <2>3 DEF q, AlertKept
<1> QED
  BY <1>4, <1>5, <1>6

\* Time ends cooldowns and intervals, and nothing else.
LEMMA ElapsedKeeps ==
    ASSUME NEW r \in RuntimeState, AlertKept(r)
    PROVE  LET e == Elapsed(r) IN
           /\ e \in RuntimeState /\ AlertKept(e) /\ e.blocked = r.blocked
           /\ e.next = Shorter(r.next) /\ (~Refuses(r) => ~Refuses(e))
<1> DEFINE k == IF r.cool > Over THEN r.cool - 1 ELSE r.cool
           n == Shorter(r.next)
           e == [r EXCEPT !.cool = k, !.next = n]
<1>1. Elapsed(r) = e
  BY DEF Elapsed
<1>2. r.cool \in Unset..LongestCooldown /\ r.next \in 0..MinInterval
  BY DEF RuntimeState
<1>3. /\ k \in Unset..LongestCooldown /\ n \in 0..MinInterval
      /\ (k # Unset => r.cool # Unset) /\ (r.cool <= LastSecond => k <= LastSecond)
  BY <1>2, SearchConstants DEF Shorter, Unset, Over, LongestCooldown, LastSecond
<1>4. k \in Nat /\ r.cool \in Nat /\ LastSecond \in Nat
  BY <1>2, <1>3 DEF Unset, LastSecond
<1> HIDE DEF k, n
<1>5. /\ e \in RuntimeState /\ e.cool = k /\ e.next = n /\ e.blocked = r.blocked
      /\ e.rejections = r.rejections /\ e.alerted = r.alerted
  BY <1>3 DEF RuntimeState
<1> HIDE DEF e
<1> QED
  BY <1>1, <1>3, <1>4, <1>5 DEF n, AlertKept, Refuses

LEMMA WaitsOK ==
    /\ Waits \in SearchRecord /\ Waits.pc = "idle" /\ RequestOK(Waits)
    /\ Waits.copy \in RuntimeState /\ Waits.copy.cool = Unset /\ Waits.copy.blocked = 0
<1>1. /\ 0 \in 0..BlockThreshold /\ 0 \in 0..AlertAt /\ 0 \in 0..MinInterval /\ 0 \in 0..Retries
      /\ 0 \in 0..AnswerTtl /\ 0 \in 0..(MinInterval + Jitter) /\ 0 < BlockThreshold
      /\ Unset \in Unset..LongestCooldown
  BY SearchConstants DEF Unset, LongestCooldown, LastSecond
<1>2. Waits.copy \in RuntimeState /\ Waits.copy.cool = Unset /\ Waits.copy.blocked = 0
  BY <1>1 DEF Waits, RuntimeState
<1>3. /\ Waits \in SearchRecord /\ Waits.pc = "idle" /\ Waits.live = "no"
  BY <1>1 DEF Waits, RuntimeState, SearchRecord, NoEntry, Outcome
<1> QED
  BY <1>1, <1>2, <1>3 DEF RequestOK, AlertKept, InTransaction

LEMMA SearchInitInv == SearchInit => SearchInv
<1> SUFFICES ASSUME SearchInit
            PROVE  SearchInv
  OBVIOUS
<1>1. SearchTypeOK
  BY WaitsOK, SearchConstants DEF SearchInit, SearchTypeOK, SearchRecord, InTransaction
<1> QED
  BY <1>1, WaitsOK, SearchConstants DEF SearchInit, SearchInv, AlertKept

\* What a step keeps that writes one search, and nothing that is shared but
\* the lock.
LEMMA SearchWritten ==
    ASSUME SearchInv, NEW c \in Client, NEW new \in SearchRecord, SearchBecomes(c, new),
           UNCHANGED <<runtime, names, streak>>, RequestOK(new),
           searchLock' \in Client \cup {Nobody},
           searchLock' = c <=> new.pc \in InTransaction,
           \A d \in Client \ {c} : searchLock' = d <=> searchLock = d
    PROVE  SearchInv'
<1>1. /\ search' \in [Client -> SearchRecord] /\ search'[c] = new
      /\ \A d \in Client \ {c} : search'[d] = search[d]
  BY DEF SearchInv, SearchBecomes
<1>2. \A d \in Client : RequestOK(search[d])'
  BY <1>1 DEF SearchInv, RequestOK, CountAfter
<1>3. \A d \in Client : searchLock' = d <=> search'[d].pc \in InTransaction
  BY <1>1 DEF SearchInv, SearchTypeOK
<1>4. SearchTypeOK'
  BY <1>1, <1>3 DEF SearchInv, SearchTypeOK, SearchRecord
<1> QED
  BY <1>1, <1>2, <1>4 DEF SearchInv

\* The same for a step that stays inside its transaction, or outside of one.
LEMMA SearchMoves ==
    ASSUME SearchInv, NEW c \in Client, NEW new \in SearchRecord, SearchBecomes(c, new),
           UNCHANGED <<runtime, names, searchLock, streak>>, RequestOK(new),
           new.pc \in InTransaction <=> search[c].pc \in InTransaction
    PROVE  SearchInv'
BY SearchWritten DEF SearchInv, SearchTypeOK

LEMMA AskOneStep ==
    ASSUME SearchInv, NEW c \in Client, NEW n \in Name, Ask(c, n)
    PROVE  SearchInv'
<1> DEFINE new == [Waits EXCEPT !.pc = "lock", !.name = n]
<1>1. /\ new \in SearchRecord /\ new.pc = "lock" /\ new.name = n /\ new.live = Waits.live
      /\ new.copy = Waits.copy
  BY WaitsOK DEF SearchRecord
<1>2. SearchBecomes(c, new) /\ search[c].pc = "idle" /\ UNCHANGED <<runtime, names, searchLock, streak>>
  BY DEF Ask, SearchAt
<1> HIDE DEF new
<1>3. RequestOK(new) /\ new.pc \notin InTransaction
  BY <1>1, WaitsOK DEF RequestOK, InTransaction
<1> QED
  BY <1>1, <1>2, <1>3, SearchMoves DEF InTransaction

LEMMA FailStep ==
    ASSUME SearchInv, NEW c \in Client, FailSearch(c)
    PROVE  SearchInv'
<1>1. searchLock = c /\ searchLock' = Nobody /\ Waits.pc \notin InTransaction
  BY WaitsOK DEF SearchInv, SearchTypeOK, FailSearch, Finish, InTransaction
<1>2. SearchBecomes(c, Waits) /\ UNCHANGED <<runtime, names, streak>>
  BY DEF FailSearch, Finish, SearchBecomes
<1> QED
  BY <1>1, <1>2, WaitsOK, SearchConstants, SearchWritten

\* A transaction begins with what the last one committed.
LEMMA BeginStep ==
    ASSUME SearchInv, NEW c \in Client, Begin(c)
    PROVE  SearchInv'
<1> DEFINE r == Normalized(runtime)
           s == search[c]
<1>1. /\ s \in SearchRecord /\ s.pc = "lock" /\ s.live = "no" /\ s.name \in Name
      /\ UNCHANGED <<runtime, names, streak>>
  BY DEF SearchInv, RequestOK, Begin, SearchAt
<1>2. searchLock = Nobody /\ searchLock' = c
  BY DEF Begin
<1>3. /\ r \in RuntimeState /\ AlertKept(r) /\ r.blocked = streak /\ r.next = runtime.next
      /\ Refuses(r) <=> Refuses(runtime)
  BY NormalizedKeeps DEF SearchInv, SearchTypeOK
<1>4. streak < BlockThreshold /\ streak \in Nat /\ r.next \in 0..MinInterval
  BY <1>3 DEF SearchInv, SearchTypeOK, RuntimeState
<1>5. PICK new \in Opening(c, r) : SearchBecomes(c, new)
  BY DEF Begin
<1> HIDE DEF r
<1>6. new \in SearchRecord /\ RequestOK(new) /\ new.pc \in InTransaction
  <2>1. CASE Refuses(r)
    <3> DEFINE k == Counted(r)
    <3>1. k \in RuntimeState /\ AlertKept(k) /\ k.blocked = streak
      BY <1>3, <2>1, CountedKeeps
    <3>2. new = [[s EXCEPT !.copy = r, !.pc = "commit"] EXCEPT !.copy = k]
      BY <1>5, <2>1 DEF Opening
    <3> HIDE DEF s, k
    <3>3. /\ new \in SearchRecord /\ new.pc = "commit" /\ new.copy = k /\ new.live = "no"
          /\ new.name = s.name
      BY <1>1, <3>1, <3>2 DEF SearchRecord, InTransaction
    <3> QED
      BY <1>1, <1>4, <3>1, <3>3 DEF RequestOK, CountAfter, InTransaction
  <2>2. CASE ~Refuses(r) /\ Usable(s.name)
    <3>1. new = [s EXCEPT !.copy = r, !.pc = "commit"]
      BY <1>5, <2>2 DEF Opening
    <3> HIDE DEF s
    <3>2. /\ new \in SearchRecord /\ new.pc = "commit" /\ new.copy = r /\ new.live = "no"
          /\ new.name = s.name
      BY <1>1, <1>3, <3>1 DEF SearchRecord, InTransaction
    <3> QED
      BY <1>1, <1>3, <1>4, <3>2 DEF RequestOK, CountAfter, InTransaction
  <2>3. CASE ~Refuses(r) /\ ~Usable(s.name)
    <3>1. PICK j \in 0..Jitter :
             new = [[s EXCEPT !.copy = r, !.pc = "commit"] EXCEPT !.pc = "sleep", !.wait = r.next + j]
      BY <1>5, <2>3 DEF Opening
    <3> DEFINE w == r.next + j
    <3>2. w \in 0..(MinInterval + Jitter) /\ w >= runtime.next
      BY <1>3, <1>4, <3>1, SearchConstants
    <3>3. new = [[s EXCEPT !.copy = r, !.pc = "commit"] EXCEPT !.pc = "sleep", !.wait = w]
      BY <3>1
    <3> HIDE DEF s, w
    <3>4. /\ new \in SearchRecord /\ new.pc = "sleep" /\ new.copy = r /\ new.live = "no"
          /\ new.name = s.name /\ new.wait = w
      BY <1>1, <1>3, <3>2, <3>3 DEF SearchRecord, InTransaction
    <3> QED
      BY <1>1, <1>3, <1>4, <2>3, <3>2, <3>4 DEF RequestOK, CountAfter, InTransaction
  <2> QED
    BY <2>1, <2>2, <2>3
<1>7. \A d \in Client \ {c} : searchLock' = d <=> searchLock = d
  BY <1>2, SearchConstants
<1> QED
  BY <1>1, <1>2, <1>5, <1>6, <1>7, SearchWritten

LEMMA FetchStep ==
    ASSUME SearchInv, NEW c \in Client, SendSearch(c) \/ RetrySearch(c)
    PROVE  SearchInv'
<1> DEFINE s == search[c]
<1>1. s \in SearchRecord /\ RequestOK(s) /\ s.pc \in {"sleep", "fetch"}
      /\ UNCHANGED <<runtime, names, searchLock, streak>>
  BY DEF SearchInv, SendSearch, RetrySearch, SearchAt
<1>2. \E new \in SearchRecord :
         /\ SearchBecomes(c, new) /\ new.pc = "fetch"
         /\ new.copy = s.copy /\ new.live = s.live /\ new.name = s.name
  <2>1. CASE SendSearch(c)
    <3>1. SearchBecomes(c, [s EXCEPT !.pc = "fetch"])
      BY <2>1 DEF SendSearch
    <3> HIDE DEF s
    <3> QED
      BY <1>1, <3>1 DEF SearchRecord, InTransaction
  <2>2. CASE RetrySearch(c)
    <3> DEFINE k == s.tries + 1
    <3>1. SearchBecomes(c, [s EXCEPT !.tries = k]) /\ s.pc = "fetch" /\ s.tries < Retries
      BY <2>2 DEF RetrySearch, SearchAt
    <3>2. k \in 0..Retries
      BY <1>1, <3>1, SearchConstants DEF SearchRecord
    <3> HIDE DEF s, k
    <3> QED
      BY <1>1, <3>1, <3>2 DEF SearchRecord
  <2> QED
    BY <1>1, <2>1, <2>2
<1>3. PICK new \in SearchRecord :
         /\ SearchBecomes(c, new) /\ new.pc = "fetch"
         /\ new.copy = s.copy /\ new.live = s.live /\ new.name = s.name
  BY <1>2
<1>4. RequestOK(new)
  BY <1>1, <1>3 DEF RequestOK, CountAfter, InTransaction
<1> QED
  BY <1>1, <1>3, <1>4, SearchMoves DEF InTransaction

\* The answer is judged on the copy, which is what the row still holds.
LEMMA ReceiveStep ==
    ASSUME SearchInv, NEW c \in Client, Receive(c)
    PROVE  SearchInv'
<1> DEFINE s == search[c]
<1>1. /\ s \in SearchRecord /\ RequestOK(s) /\ s.pc = "fetch"
      /\ UNCHANGED <<runtime, names, searchLock, streak>>
  BY DEF SearchInv, Receive, SearchAt
<1>2. /\ s.copy \in RuntimeState /\ AlertKept(s.copy) /\ ~Refuses(s.copy)
      /\ s.copy.blocked = streak /\ s.live = "no" /\ s.name \in Name
  BY <1>1 DEF RequestOK, CountAfter, InTransaction, SearchRecord
<1> DEFINE judged(o) == Judge([s.copy EXCEPT !.next = MinInterval], o)
           live(o) == IF judged(o).cool = LongestCooldown THEN "armed"
                      ELSE IF o = "blocked" THEN "blocked" ELSE "answered"
           entry(o) == [outcome |-> o, left |-> LifeOf(o)]
<1>3. PICK o \in Outcome :
         SearchBecomes(c, [s EXCEPT !.pc = "commit", !.copy = judged(o), !.live = live(o),
                                    !.entry = entry(o)])
  BY DEF Receive
<1>4. /\ judged(o) \in RuntimeState /\ AlertKept(judged(o)) /\ judged(o).blocked < BlockThreshold
      /\ judged(o).blocked = IF judged(o).cool # LongestCooldown /\ o = "blocked"
                             THEN s.copy.blocked + 1 ELSE 0
  BY <1>2, JudgeKeeps
<1>5. entry(o) \in [outcome : Outcome, left : 0..AnswerTtl]
  <2>1. LifeOf(o) \in 0..AnswerTtl
    BY SearchConstants DEF LifeOf
  <2> QED
    BY <2>1
<1> DEFINE j == judged(o)
           l == live(o)
           e == entry(o)
           new == [s EXCEPT !.pc = "commit", !.copy = j, !.live = l, !.entry = e]
<1>6. /\ l \in {"answered", "blocked", "armed"}
      /\ j.blocked = IF l = "blocked" THEN streak + 1 ELSE 0
  <2> HIDE DEF j
  <2>1. j.blocked = IF j.cool # LongestCooldown /\ o = "blocked" THEN streak + 1 ELSE 0
    BY <1>2, <1>4 DEF j
  <2>2. l = IF j.cool = LongestCooldown THEN "armed"
            ELSE IF o = "blocked" THEN "blocked" ELSE "answered"
    BY DEF j
  <2> HIDE DEF l
  <2>3. CASE j.cool = LongestCooldown
    <3>1. l = "armed" /\ j.blocked = 0
      BY <2>1, <2>2, <2>3
    <3> QED
      BY <3>1
  <2>4. CASE j.cool # LongestCooldown /\ o = "blocked"
    <3>1. l = "blocked" /\ j.blocked = streak + 1
      BY <2>1, <2>2, <2>4
    <3> QED
      BY <3>1
  <2>5. CASE j.cool # LongestCooldown /\ o # "blocked"
    <3>1. l = "answered" /\ j.blocked = 0
      BY <2>1, <2>2, <2>5
    <3> QED
      BY <3>1
  <2> QED
    BY <2>3, <2>4, <2>5
<1>7. SearchBecomes(c, new)
  BY <1>3
<1>8. j \in RuntimeState /\ AlertKept(j) /\ j.blocked < BlockThreshold
  BY <1>4
<1> HIDE DEF s, judged, live, entry, j, l, e
<1>9. e \in [outcome : Outcome, left : 0..AnswerTtl]
  BY <1>5 DEF e
<1>10. /\ new \in SearchRecord /\ new.pc = "commit" /\ new.copy = j /\ new.live = l
       /\ new.name = s.name
  BY <1>1, <1>6, <1>8, <1>9 DEF SearchRecord, InTransaction
<1> HIDE DEF new
<1>11. RequestOK(new)
  BY <1>2, <1>6, <1>8, <1>10 DEF RequestOK, CountAfter
<1> QED
  BY <1>1, <1>7, <1>10, <1>11, SearchMoves DEF s, InTransaction

\* What is stored is the entry, and entries that were there.
LEMMA StoredTyped ==
    ASSUME SearchInv, NEW n \in Name, NEW entry \in [outcome : Outcome, left : 0..AnswerTtl],
           NEW after \in Stored(n, entry)
    PROVE  /\ DOMAIN after \subseteq Name
           /\ \A m \in DOMAIN after : after[m].outcome \in Outcome /\ after[m].left \in 0..AnswerTtl
<1> DEFINE alive == {m \in DOMAIN names : names[m].left > 0} \ {n}
<1>1. PICK old \in SUBSET alive :
         after = [m \in (alive \ old) \cup {n} |-> IF m = n THEN entry ELSE names[m]]
  BY DEF Stored
<1>2. \A m \in alive : m \in Name /\ names[m].outcome \in Outcome /\ names[m].left \in 0..AnswerTtl
  BY DEF SearchInv, SearchTypeOK
<1> HIDE DEF alive
<1> QED
  BY <1>1, <1>2

\* The row that is committed is the copy, which has counted its own answer.
LEMMA StoreStep ==
    ASSUME SearchInv, NEW c \in Client, CommitSearch(c)
    PROVE  SearchInv'
<1> DEFINE s == search[c]
<1>1. s \in SearchRecord /\ RequestOK(s) /\ s.pc = "commit" /\ searchLock = c
  BY DEF SearchInv, SearchTypeOK, CommitSearch, SearchAt, InTransaction
<1>2. /\ s.copy \in RuntimeState /\ AlertKept(s.copy) /\ s.copy.blocked < BlockThreshold
      /\ s.copy.blocked = CountAfter(s) /\ s.name \in Name
      /\ s.entry \in [outcome : Outcome, left : 0..AnswerTtl]
  BY <1>1 DEF RequestOK, InTransaction, SearchRecord
<1>3. /\ runtime' = s.copy /\ streak' = CountAfter(s) /\ searchLock' = Nobody
      /\ search' = [search EXCEPT ![c] = Waits]
      /\ names' = names \/ names' \in Stored(s.name, s.entry)
  BY DEF CommitSearch, StreakAfter, CountAfter, Finish
<1> HIDE DEF s
<1>4. /\ search' \in [Client -> SearchRecord] /\ search'[c] = Waits
      /\ \A d \in Client \ {c} : search'[d] = search[d]
  BY <1>3, WaitsOK DEF SearchInv
<1>5. \A d \in Client : search'[d].pc \notin InTransaction /\ searchLock' # d
  <2>1. \A d \in Client \ {c} : search[d].pc \notin InTransaction
    BY <1>1 DEF SearchInv, SearchTypeOK
  <2> QED
    BY <1>3, <1>4, <2>1, WaitsOK, SearchConstants DEF InTransaction
<1>6. ASSUME NEW d \in Client
      PROVE  RequestOK(search[d])'
  <2>1. RequestOK(search'[d])
    BY <1>4, WaitsOK DEF SearchInv
  <2> QED
    BY <1>5, <2>1 DEF RequestOK, InTransaction
<1>7. DOMAIN names' \subseteq Name
      /\ \A m \in DOMAIN names' : names'[m].outcome \in Outcome /\ names'[m].left \in 0..AnswerTtl
  <2>1. CASE names' = names
    BY <2>1 DEF SearchInv, SearchTypeOK
  <2>2. CASE names' \in Stored(s.name, s.entry)
    BY <1>2, <2>2, StoredTyped
  <2> QED
    BY <1>3, <2>1, <2>2
<1>8. streak' \in Nat
  BY <1>2, <1>3, SearchConstants DEF RuntimeState
<1>9. SearchTypeOK'
  BY <1>2, <1>3, <1>4, <1>5, <1>7, <1>8 DEF SearchTypeOK, SearchRecord
<1> QED
  BY <1>2, <1>3, <1>4, <1>6, <1>9 DEF SearchInv

LEMMA SearchTickStep == ASSUME SearchInv, SearchTick PROVE SearchInv'
<1>1. runtime \in RuntimeState /\ AlertKept(runtime) /\ runtime' = Elapsed(runtime)
      /\ UNCHANGED <<searchLock, streak>>
  BY DEF SearchInv, SearchTypeOK, SearchTick
<1>2. /\ runtime' \in RuntimeState /\ AlertKept(runtime') /\ runtime'.blocked = runtime.blocked
      /\ runtime'.next = Shorter(runtime.next) /\ (~Refuses(runtime) => ~Refuses(runtime'))
  BY <1>1, ElapsedKeeps
<1> DEFINE on(c) == [search[c] EXCEPT !.copy = Elapsed(@), !.wait = Shorter(@),
                                      !.entry.left = Shorter(@)]
<1>3. \A b \in Nat : \A n \in 0..b : Shorter(n) \in 0..b
  BY DEF Shorter
<1>4. ASSUME NEW c \in Client
      PROVE  /\ on(c) \in SearchRecord /\ on(c).pc = search[c].pc /\ on(c).live = search[c].live
             /\ on(c).name = search[c].name /\ on(c).copy = Elapsed(search[c].copy)
             /\ on(c).wait = Shorter(search[c].wait)
  <2> DEFINE s == search[c]
             k == Elapsed(s.copy)
             w == Shorter(s.wait)
             l == Shorter(s.entry.left)
             e == [s.entry EXCEPT !.left = l]
  <2>1. /\ s \in SearchRecord /\ s.copy \in RuntimeState /\ AlertKept(s.copy)
        /\ s.wait \in 0..(MinInterval + Jitter)
        /\ s.entry \in [outcome : Outcome, left : 0..AnswerTtl]
    BY DEF SearchInv, RequestOK, SearchRecord
  <2>2. k \in RuntimeState
    BY <2>1, ElapsedKeeps
  <2>3. w \in 0..(MinInterval + Jitter)
    BY <1>3, <2>1, SearchConstants
  <2>4. l \in 0..AnswerTtl
    BY <1>3, <2>1, SearchConstants
  <2>5. on(c) = [s EXCEPT !.copy = k, !.wait = w, !.entry = e]
    OBVIOUS
  <2> HIDE DEF on, s, k, w, l
  <2>6. e \in [outcome : Outcome, left : 0..AnswerTtl]
    BY <2>1, <2>4
  <2> HIDE DEF e
  <2>7. /\ on(c) \in SearchRecord /\ on(c).pc = s.pc /\ on(c).live = s.live
        /\ on(c).name = s.name /\ on(c).copy = k /\ on(c).wait = w
    BY <2>1, <2>2, <2>3, <2>5, <2>6 DEF SearchRecord
  <2> QED
    BY <2>7 DEF s, k, w
<1>5. search' = [c \in Client |-> on(c)]
  BY DEF SearchTick
<1> HIDE DEF on
<1>6. search' \in [Client -> SearchRecord] /\ \A c \in Client : search'[c] = on(c)
  BY <1>4, <1>5
<1>7. ASSUME NEW c \in Client
      PROVE  RequestOK(search[c])'
  <2>1. RequestOK(search[c]) /\ search[c] \in SearchRecord
    BY DEF SearchInv
  <2>2. /\ search'[c].pc = search[c].pc /\ search'[c].live = search[c].live
        /\ search'[c].name = search[c].name /\ search'[c].copy = Elapsed(search[c].copy)
        /\ search'[c].wait = Shorter(search[c].wait)
    BY <1>4, <1>6
  <2>3. /\ AlertKept(search'[c].copy) /\ search'[c].copy.blocked = search[c].copy.blocked
        /\ (~Refuses(search[c].copy) => ~Refuses(search'[c].copy))
    BY <2>1, <2>2, ElapsedKeeps DEF RequestOK, SearchRecord
  <2>4. search[c].wait >= runtime.next => search'[c].wait >= runtime'.next
    BY <1>1, <1>2, <2>1, <2>2, SearchConstants DEF SearchRecord, RuntimeState, Shorter
  <2> QED
    BY <1>1, <1>2, <2>1, <2>2, <2>3, <2>4 DEF RequestOK, CountAfter
<1>8. DOMAIN names' \subseteq Name
      /\ \A m \in DOMAIN names' : names'[m].outcome \in Outcome /\ names'[m].left \in 0..AnswerTtl
  <2>1. ASSUME NEW m \in DOMAIN names
        PROVE  names'[m] = [names[m] EXCEPT !.left = Shorter(names[m].left)]
    BY <2>1 DEF SearchTick
  <2>2. DOMAIN names' = DOMAIN names /\ DOMAIN names \subseteq Name
    BY DEF SearchTick, SearchInv, SearchTypeOK
  <2>3. ASSUME NEW m \in DOMAIN names
        PROVE  names'[m].outcome \in Outcome /\ names'[m].left \in 0..AnswerTtl
    <3> DEFINE e == names[m]
               l == Shorter(e.left)
    <3>1. l \in 0..AnswerTtl /\ e.outcome \in Outcome
      BY <1>3, SearchConstants DEF SearchInv, SearchTypeOK
    <3>2. names'[m] = [e EXCEPT !.left = l]
      BY <2>1
    <3> HIDE DEF e, l
    <3> QED
      BY <3>1, <3>2
  <2> QED
    BY <2>2, <2>3
<1>9. SearchTypeOK'
  BY <1>1, <1>2, <1>4, <1>6, <1>8 DEF SearchInv, SearchTypeOK, SearchRecord
<1> QED
  BY <1>1, <1>2, <1>6, <1>7, <1>9 DEF SearchInv

LEMMA SearchInductive == SearchInv /\ [SearchNext]_searchVars => SearchInv'
<1> SUFFICES ASSUME SearchInv, [SearchNext]_searchVars
             PROVE  SearchInv'
  OBVIOUS
<1>1. ASSUME NEW c \in Client, SearchStep(c) \/ FailSearch(c)
      PROVE  SearchInv'
  BY <1>1, BeginStep, FetchStep, ReceiveStep, StoreStep, FailStep DEF SearchStep
<1>2. ASSUME NEW c \in Client, NEW n \in Name, Ask(c, n)
      PROVE  SearchInv'
  BY <1>2, AskOneStep
<1>3. CASE SearchTick
  BY <1>3, SearchTickStep
<1>4. CASE UNCHANGED searchVars
  BY <1>4 DEF searchVars, SearchInv, SearchTypeOK, RequestOK, CountAfter
<1> QED
  BY <1>1, <1>2, <1>3, <1>4 DEF SearchNext

LEMMA SearchSpecInv == SearchSpec => []SearchInv
BY SearchInitInv, SearchInductive, PTL DEF SearchSpec

\* Every state of the searches is well typed, and the advisory lock is held
\* by exactly the search that is in its transaction (author_search.py:521-580).
THEOREM SearchTypeCorrect == SearchSpec => []SearchTypeOK
<1>1. SearchInv => SearchTypeOK
  BY DEF SearchInv
<1> QED
  BY <1>1, SearchSpecInv, PTL

\* As many blocked answers in a row as the threshold says always begin a
\* cooldown, whatever searches ran at the same time (author_search.py:364-400).
THEOREM BlockedAnswersTrip == SearchSpec => []BreakerTrips
<1>1. SearchInv => BreakerTrips
  BY DEF SearchInv, BreakerTrips
<1> QED
  BY <1>1, SearchSpecInv, PTL

\* The alert of a cooldown is its own, and it is on exactly when enough
\* searches were refused (author_search.py:119-182).
THEOREM AlertIsOfThisCooldown == SearchSpec => []AlertIsThisCooldowns
<1>1. SearchInv => AlertIsThisCooldowns
  BY DEF SearchInv, AlertKept, AlertIsThisCooldowns
<1> QED
  BY <1>1, SearchSpecInv, PTL

\* A search goes out only after the interval and outside a cooldown, as they
\* are when it is sent and not only when it looked (author_search.py:414-456).
THEOREM SearchesAreSpaced == SearchSpec => SearchesSpaced
<1>1. ASSUME SearchInv, [SearchNext]_searchVars, NEW c \in Client, IsSent(c)
      PROVE  runtime.next = 0 /\ ~Refuses(runtime)
  <2>1. search[c].pc = "sleep" /\ search'[c].pc = "fetch" /\ search \in [Client -> SearchRecord]
    BY <1>1 DEF IsSent, SearchInv
  <2>2. \A d \in Client : \A new : SearchBecomes(d, new) => d = c \/ search'[c] = search[c]
    BY <2>1 DEF SearchBecomes
  <2>3. ~UNCHANGED searchVars
    BY <2>1 DEF searchVars
  <2>4. ~SearchTick
    <3> SUFFICES ASSUME SearchTick PROVE FALSE
      OBVIOUS
    <3> DEFINE s == search[c]
               k == Elapsed(s.copy)
               w == Shorter(s.wait)
               l == Shorter(s.entry.left)
    <3>1. s \in SearchRecord /\ s.pc = "sleep" /\ search'[c].pc = "fetch"
      BY <2>1
    <3>2. search'[c] = [s EXCEPT !.copy = k, !.wait = w, !.entry.left = l]
      BY DEF SearchTick
    <3> HIDE DEF s, k, w, l
    <3> QED
      BY <3>1, <3>2 DEF SearchRecord
  <2>5. ASSUME NEW d \in Client, NEW n \in Name, Ask(d, n)
        PROVE  FALSE
    BY <2>1, <2>2, <2>5 DEF Ask, SearchAt
  <2>6. ASSUME NEW d \in Client, CommitSearch(d) \/ FailSearch(d)
        PROVE  FALSE
    BY <2>1, <2>6, WaitsOK DEF CommitSearch, FailSearch, Finish
  <2>7. ASSUME NEW d \in Client, Begin(d) \/ RetrySearch(d) \/ Receive(d)
        PROVE  FALSE
    BY <2>1, <2>2, <2>7 DEF Begin, RetrySearch, Receive, SearchAt
  <2>8. \E d \in Client : SendSearch(d)
    BY <1>1, <2>3, <2>4, <2>5, <2>6, <2>7 DEF SearchNext, SearchStep
  <2>9. search[c].wait = 0
    BY <2>1, <2>2, <2>8 DEF SendSearch
  <2>10. RequestOK(search[c]) /\ runtime.next \in 0..MinInterval
    BY <1>1 DEF SearchInv, SearchTypeOK, RuntimeState
  <2> QED
    BY <2>1, <2>9, <2>10, SearchConstants DEF RequestOK
<1>2. SearchInv /\ [SearchNext]_searchVars =>
         \A c \in Client : IsSent(c) => runtime.next = 0 /\ ~Refuses(runtime)
  BY <1>1
<1> QED
  BY <1>2, SearchSpecInv, PTL DEF SearchSpec, SearchesSpaced

-----------------------------------------------------------------------------
(***************************************************************************)
(* The searches implement PacedRequests.  The lock makes the transaction   *)
(* whose request is out, or answered, the only one; what it has of the     *)
(* pause and the cooldown is what the row still says, until an answer      *)
(* changes the copy, which the commit then makes the row.                  *)
(***************************************************************************)
\* A transaction without an answer has the pause and the cooldown of the row.
CopiesCurrent ==
    \A c \in Client : search[c].pc \in InTransaction /\ search[c].live = "no" =>
        /\ search[c].copy.next = runtime.next
        /\ RestLeft(search[c].copy) = RestLeft(runtime)

CurrentInv == SearchInv /\ CopiesCurrent

\* One transaction at a time.
LEMMA OneTransaction ==
    ASSUME SearchInv, NEW c \in Client, NEW d \in Client,
           search[c].pc \in InTransaction, search[d].pc \in InTransaction
    PROVE  c = d
BY DEF SearchInv, SearchTypeOK

LEMMA RestOfCounted ==
    ASSUME NEW r \in RuntimeState
    PROVE  Counted(r).next = r.next /\ RestLeft(Counted(r)) = RestLeft(r)
<1> DEFINE k == IF r.rejections < AlertAt THEN r.rejections + 1 ELSE AlertAt
           on == r.alerted \/ k = AlertAt
           n == [r EXCEPT !.rejections = k, !.alerted = on]
<1>1. Counted(r) = n
  BY DEF Counted
<1> HIDE DEF k, on
<1>2. n.next = r.next /\ n.cool = r.cool
  BY DEF RuntimeState
<1> HIDE DEF n
<1> QED
  BY <1>1, <1>2 DEF RestLeft, Refuses

LEMMA RestOfNormalized ==
    ASSUME NEW r \in RuntimeState
    PROVE  /\ Normalized(r) \in RuntimeState /\ Normalized(r).next = r.next
           /\ RestLeft(Normalized(r)) = RestLeft(r)
<1>1. CASE r.cool = Over
  <2> DEFINE n == [r EXCEPT !.cool = Unset, !.rejections = 0, !.alerted = FALSE]
  <2>1. Unset \in Unset..LongestCooldown /\ 0 \in 0..AlertAt
    BY SearchConstants DEF Unset, LongestCooldown, LastSecond
  <2>2. n \in RuntimeState /\ n.next = r.next /\ n.cool = Unset
    BY <2>1 DEF RuntimeState
  <2>3. Normalized(r) = n
    BY <1>1 DEF Normalized
  <2> HIDE DEF n
  <2> QED
    BY <1>1, <2>2, <2>3 DEF RestLeft, Refuses, Over, Unset, LastSecond
<1>2. CASE r.cool # Over
  BY <1>2 DEF Normalized
<1> QED
  BY <1>1, <1>2

LEMMA RestOfElapsed ==
    ASSUME NEW r \in RuntimeState
    PROVE  /\ Elapsed(r).next = Shorter(r.next)
           /\ RestLeft(Elapsed(r)) = Shorter(RestLeft(r))
<1> DEFINE k == IF r.cool > Over THEN r.cool - 1 ELSE r.cool
           n == Shorter(r.next)
           e == [r EXCEPT !.cool = k, !.next = n]
<1>1. Elapsed(r) = e
  BY DEF Elapsed
<1>2. r.cool \in Nat
  BY SearchConstants DEF RuntimeState, Unset, LongestCooldown, LastSecond
<1>3. (IF k > LastSecond THEN k - LastSecond ELSE 0)
         = Shorter(IF r.cool > LastSecond THEN r.cool - LastSecond ELSE 0)
  BY <1>2 DEF Shorter, Over, LastSecond
<1> HIDE DEF k, n
<1>4. e.next = n /\ e.cool = k
  BY DEF RuntimeState
<1> HIDE DEF e
<1> QED
  BY <1>1, <1>3, <1>4 DEF n, RestLeft, Refuses

\* An answer sets the pause, and leaves the cooldown or begins one.
LEMMA RestOfJudged ==
    ASSUME NEW r \in RuntimeState, NEW o \in Outcome
    PROVE  LET j == Judge([r EXCEPT !.next = MinInterval], o) IN
           j.next = MinInterval /\ RestLeft(j) \in {RestLeft(r), CooldownTime}
<1> DEFINE q == [r EXCEPT !.next = MinInterval]
           j == Judge(q, o)
<1>1. q.next = MinInterval /\ q.cool = r.cool
      /\ q = [cool |-> r.cool, blocked |-> r.blocked, rejections |-> r.rejections,
              alerted |-> r.alerted, next |-> MinInterval]
  BY DEF RuntimeState
<1>2. \/ j = [q EXCEPT !.blocked = 0]
      \/ j = [q EXCEPT !.blocked = q.blocked + 1]
      \/ j = [q EXCEPT !.cool = LongestCooldown, !.blocked = 0,
                       !.rejections = 0, !.alerted = FALSE]
  BY DEF Judge
<1> HIDE DEF q, j
<1>3. j.next = MinInterval /\ j.cool \in {r.cool, LongestCooldown}
  BY <1>1, <1>2
<1>4. (IF LongestCooldown > LastSecond THEN LongestCooldown - LastSecond ELSE 0) = CooldownTime
  BY SearchConstants DEF LongestCooldown, LastSecond
<1>5. RestLeft(j) \in {RestLeft(r), CooldownTime}
  BY <1>3, <1>4 DEF RestLeft, Refuses
<1> QED
  BY <1>3, <1>5 DEF j, q

\* What one search does to the others: nothing.
LEMMA OthersStay ==
    ASSUME SearchInv, NEW c \in Client, SearchStep(c) \/ FailSearch(c) \/ \E n \in Name : Ask(c, n)
    PROVE  \A d \in Client \ {c} : search'[d] = search[d]
<1>1. \E new : search' = [search EXCEPT ![c] = new]
  <2>1. ASSUME NEW new, SearchBecomes(c, new)
        PROVE  search' = [search EXCEPT ![c] = new]
    BY <2>1 DEF SearchBecomes
  <2>2. CASE Begin(c) \/ SendSearch(c) \/ RetrySearch(c) \/ Receive(c) \/ \E n \in Name : Ask(c, n)
    BY <2>1, <2>2 DEF Begin, SendSearch, RetrySearch, Receive, Ask
  <2>3. CASE CommitSearch(c) \/ FailSearch(c)
    BY <2>3 DEF CommitSearch, FailSearch, Finish
  <2> QED
    BY <2>2, <2>3 DEF SearchStep
<1> QED
  BY <1>1 DEF SearchInv

\* A step that leaves the row alone keeps the copies current, if it does of c.
LEMMA StaysCurrent ==
    ASSUME CurrentInv, NEW c \in Client, UNCHANGED runtime,
           \A d \in Client \ {c} : search'[d] = search[d],
           search'[c].pc \in InTransaction /\ search'[c].live = "no" =>
               /\ search'[c].copy.next = runtime.next
               /\ RestLeft(search'[c].copy) = RestLeft(runtime)
    PROVE  CopiesCurrent'
BY DEF CurrentInv, CopiesCurrent, RestLeft, Refuses

LEMMA CurrentBegin ==
    ASSUME CurrentInv, NEW c \in Client, Begin(c)
    PROVE  /\ CopiesCurrent' /\ UNCHANGED runtime
           /\ search'[c].pc \in {"sleep", "commit"} /\ search'[c].live = "no"
<1> DEFINE r == Normalized(runtime)
           s == search[c]
<1>1. /\ s \in SearchRecord /\ s.live = "no" /\ UNCHANGED runtime
  BY DEF CurrentInv, SearchInv, RequestOK, Begin, SearchAt
<1>2. r \in RuntimeState /\ r.next = runtime.next /\ RestLeft(r) = RestLeft(runtime)
  BY RestOfNormalized DEF CurrentInv, SearchInv, SearchTypeOK
<1>3. PICK new \in Opening(c, r) : SearchBecomes(c, new)
  BY DEF Begin
<1>4. search'[c] = new
  BY <1>3 DEF SearchBecomes, CurrentInv, SearchInv
<1> HIDE DEF r
<1> DEFINE k == Counted(r)
<1>5. k.next = r.next /\ RestLeft(k) = RestLeft(r)
  BY <1>2, RestOfCounted
<1>7. new.pc \in {"sleep", "commit"} /\ new.live = "no" /\ new.copy \in {r, k}
  <2>1. CASE Refuses(r)
    <3>1. new = [[s EXCEPT !.copy = r, !.pc = "commit"] EXCEPT !.copy = k]
      BY <1>3, <2>1 DEF Opening
    <3> HIDE DEF s, k
    <3> QED
      BY <1>1, <3>1 DEF SearchRecord
  <2>2. CASE ~Refuses(r) /\ Usable(s.name)
    <3>1. new = [s EXCEPT !.copy = r, !.pc = "commit"]
      BY <1>3, <2>2 DEF Opening
    <3> HIDE DEF s
    <3> QED
      BY <1>1, <3>1 DEF SearchRecord
  <2>3. CASE ~Refuses(r) /\ ~Usable(s.name)
    <3>1. PICK j \in 0..Jitter :
             new = [[s EXCEPT !.copy = r, !.pc = "commit"] EXCEPT !.pc = "sleep", !.wait = r.next + j]
      BY <1>3, <2>3 DEF Opening
    <3> DEFINE w == r.next + j
    <3>2. new = [[s EXCEPT !.copy = r, !.pc = "commit"] EXCEPT !.pc = "sleep", !.wait = w]
      BY <3>1
    <3> HIDE DEF s, w
    <3> QED
      BY <1>1, <3>2 DEF SearchRecord
  <2> QED
    BY <2>1, <2>2, <2>3
<1> HIDE DEF s, k
<1>8. \A d \in Client \ {c} : search'[d] = search[d]
  BY OthersStay DEF SearchStep, CurrentInv
<1> QED
  BY <1>1, <1>2, <1>4, <1>5, <1>7, <1>8, StaysCurrent

\* The other steps of a transaction, seen from the row and the search.
LEMMA CurrentMoves ==
    ASSUME CurrentInv, NEW c \in Client, SendSearch(c) \/ RetrySearch(c)
    PROVE  /\ CopiesCurrent' /\ UNCHANGED runtime
           /\ search'[c].pc = "fetch" /\ search[c].live = "no" /\ search'[c].live = "no"
           /\ search'[c].copy = search[c].copy
<1> DEFINE s == search[c]
<1>1. /\ s \in SearchRecord /\ s.pc \in {"sleep", "fetch"} /\ s.live = "no" /\ UNCHANGED runtime
      /\ \E t : search' = [search EXCEPT ![c] = t]
                /\ t \in {[s EXCEPT !.pc = "fetch"], [s EXCEPT !.tries = s.tries + 1]}
                /\ t.pc = "fetch"
  <2>1. s \in SearchRecord /\ RequestOK(s)
    BY DEF CurrentInv, SearchInv
  <2>2. CASE SendSearch(c)
    <3>1. SearchBecomes(c, [s EXCEPT !.pc = "fetch"]) /\ s.pc = "sleep" /\ UNCHANGED runtime
      BY <2>2 DEF SendSearch, SearchAt
    <3> HIDE DEF s
    <3>2. [s EXCEPT !.pc = "fetch"].pc = "fetch"
      BY <2>1 DEF SearchRecord
    <3> QED
      BY <2>1, <3>1, <3>2 DEF RequestOK, SearchBecomes
  <2>3. CASE RetrySearch(c)
    <3>1. SearchBecomes(c, [s EXCEPT !.tries = s.tries + 1]) /\ s.pc = "fetch" /\ UNCHANGED runtime
      BY <2>3 DEF RetrySearch, SearchAt
    <3> HIDE DEF s
    <3>2. [s EXCEPT !.tries = s.tries + 1].pc = "fetch"
      BY <2>1, <3>1 DEF SearchRecord
    <3> QED
      BY <2>1, <3>1, <3>2 DEF RequestOK, SearchBecomes
  <2> QED
    BY <2>2, <2>3
<1>2. /\ s.copy.next = runtime.next /\ RestLeft(s.copy) = RestLeft(runtime)
  BY <1>1 DEF CurrentInv, CopiesCurrent, InTransaction
<1>3. PICK t : /\ search' = [search EXCEPT ![c] = t] /\ t.pc = "fetch"
               /\ t \in {[s EXCEPT !.pc = "fetch"], [s EXCEPT !.tries = s.tries + 1]}
  BY <1>1
<1>4. search'[c] = t /\ \A d \in Client \ {c} : search'[d] = search[d]
  BY <1>3 DEF CurrentInv, SearchInv
<1> HIDE DEF s
<1>5. t.copy = s.copy /\ t.live = s.live
  BY <1>1, <1>3 DEF SearchRecord
<1>6. CopiesCurrent'
  BY <1>1, <1>2, <1>4, <1>5, StaysCurrent
<1> QED
  BY <1>1, <1>3, <1>4, <1>5, <1>6 DEF s

LEMMA CurrentReceive ==
    ASSUME CurrentInv, NEW c \in Client, Receive(c)
    PROVE  /\ CopiesCurrent' /\ UNCHANGED runtime /\ search[c].pc = "fetch"
           /\ search'[c].pc = "commit" /\ search'[c].live # "no"
           /\ search'[c].copy.next = MinInterval
           /\ RestLeft(search'[c].copy) \in {RestLeft(runtime), CooldownTime}
<1> DEFINE s == search[c]
           judged(o) == Judge([s.copy EXCEPT !.next = MinInterval], o)
           live(o) == IF judged(o).cool = LongestCooldown THEN "armed"
                      ELSE IF o = "blocked" THEN "blocked" ELSE "answered"
           entry(o) == [outcome |-> o, left |-> LifeOf(o)]
<1>1. s \in SearchRecord /\ RequestOK(s) /\ s.pc = "fetch" /\ UNCHANGED runtime
  BY DEF CurrentInv, SearchInv, Receive, SearchAt
<1>2. /\ s.copy.next = runtime.next /\ RestLeft(s.copy) = RestLeft(runtime)
      /\ s.copy \in RuntimeState
  BY <1>1 DEF CurrentInv, CopiesCurrent, RequestOK, InTransaction, SearchRecord
<1>3. PICK o \in Outcome :
         SearchBecomes(c, [s EXCEPT !.pc = "commit", !.copy = judged(o), !.live = live(o),
                                    !.entry = entry(o)])
  BY DEF Receive
<1>4. judged(o).next = MinInterval /\ RestLeft(judged(o)) \in {RestLeft(runtime), CooldownTime}
  BY <1>2, RestOfJudged
<1>5. live(o) # "no"
  OBVIOUS
<1> DEFINE j == judged(o)
           l == live(o)
           e == entry(o)
           new == [s EXCEPT !.pc = "commit", !.copy = j, !.live = l, !.entry = e]
<1>6. SearchBecomes(c, new)
  BY <1>3
<1>7. j.next = MinInterval /\ RestLeft(j) \in {RestLeft(runtime), CooldownTime} /\ l # "no"
  BY <1>4, <1>5
<1> HIDE DEF s, judged, live, entry, j, l, e
<1>8. new.pc = "commit" /\ new.copy = j /\ new.live = l
  BY <1>1 DEF SearchRecord
<1> HIDE DEF new
<1>9. search'[c] = new /\ \A d \in Client \ {c} : search'[d] = search[d]
  BY <1>6 DEF SearchBecomes, CurrentInv, SearchInv
<1>10. CopiesCurrent'
  BY <1>1, <1>7, <1>8, <1>9, StaysCurrent
<1> QED
  BY <1>1, <1>7, <1>8, <1>9, <1>10 DEF s

\* A transaction ends: nobody is in one.
LEMMA CurrentEnd ==
    ASSUME CurrentInv, NEW c \in Client, CommitSearch(c) \/ FailSearch(c)
    PROVE  CopiesCurrent' /\ \A d \in Client : search'[d].pc \notin InTransaction
<1>1. search' = [search EXCEPT ![c] = Waits] /\ search[c].pc \in InTransaction
  BY DEF CommitSearch, FailSearch, Finish, SearchAt, InTransaction
<1>2. search'[c] = Waits /\ \A d \in Client \ {c} : search'[d] = search[d]
  BY <1>1 DEF CurrentInv, SearchInv
<1>3. \A d \in Client : search'[d].pc \notin InTransaction
  BY <1>1, <1>2, OneTransaction, WaitsOK DEF CurrentInv, InTransaction
<1> QED
  BY <1>3 DEF CopiesCurrent

LEMMA CurrentAsk ==
    ASSUME CurrentInv, NEW c \in Client, NEW n \in Name, Ask(c, n)
    PROVE  /\ CopiesCurrent' /\ UNCHANGED runtime
           /\ search[c].pc \notin InTransaction /\ search'[c].pc \notin InTransaction
<1> DEFINE new == [Waits EXCEPT !.pc = "lock", !.name = n]
<1>1. new.pc = "lock"
  BY WaitsOK DEF SearchRecord
<1>2. SearchBecomes(c, new) /\ search[c].pc = "idle" /\ UNCHANGED runtime
  BY DEF Ask, SearchAt
<1> HIDE DEF new
<1>3. search'[c] = new /\ \A d \in Client \ {c} : search'[d] = search[d]
  BY <1>2 DEF SearchBecomes, CurrentInv, SearchInv
<1>4. search'[c].pc \notin InTransaction /\ search[c].pc \notin InTransaction
  BY <1>1, <1>2, <1>3 DEF InTransaction
<1> QED
  BY <1>2, <1>3, <1>4, StaysCurrent

LEMMA CurrentTick ==
    ASSUME CurrentInv, SearchTick
    PROVE  /\ CopiesCurrent' /\ runtime' = Elapsed(runtime)
           /\ \A c \in Client : /\ search'[c].pc = search[c].pc
                                /\ search'[c].live = search[c].live
                                /\ search'[c].copy = Elapsed(search[c].copy)
<1>1. ASSUME NEW c \in Client
      PROVE  /\ search'[c].pc = search[c].pc
             /\ search'[c].live = search[c].live
             /\ search'[c].copy = Elapsed(search[c].copy)
             /\ search[c].copy \in RuntimeState
  <2> DEFINE s == search[c]
             k == Elapsed(s.copy)
             w == Shorter(s.wait)
             l == Shorter(s.entry.left)
  <2>1. s \in SearchRecord
    BY DEF CurrentInv, SearchInv
  <2>2. search'[c] = [s EXCEPT !.copy = k, !.wait = w, !.entry.left = l]
    BY DEF SearchTick
  <2> HIDE DEF s, k, w, l
  <2>3. /\ search'[c].pc = s.pc /\ search'[c].live = s.live /\ search'[c].copy = k
        /\ s.copy \in RuntimeState
    BY <2>1, <2>2 DEF SearchRecord
  <2> QED
    BY <2>3 DEF s, k
<1>2. runtime' = Elapsed(runtime) /\ runtime \in RuntimeState
  BY DEF SearchTick, CurrentInv, SearchInv, SearchTypeOK
<1>3. ASSUME NEW c \in Client, search'[c].pc \in InTransaction, search'[c].live = "no"
      PROVE  /\ search'[c].copy.next = runtime'.next
             /\ RestLeft(search'[c].copy) = RestLeft(runtime')
  <2>1. search[c].copy.next = runtime.next /\ RestLeft(search[c].copy) = RestLeft(runtime)
    BY <1>1, <1>3 DEF CurrentInv, CopiesCurrent
  <2> QED
    BY <1>1, <1>2, <2>1, RestOfElapsed
<1>4. CopiesCurrent'
  BY <1>3 DEF CopiesCurrent, RestLeft, Refuses
<1> QED
  BY <1>1, <1>2, <1>4

LEMMA CurrentSpecInv == SearchSpec => []CurrentInv
<1>1. SearchInit => CurrentInv
  BY SearchInitInv, WaitsOK DEF SearchInit, CurrentInv, CopiesCurrent, InTransaction
<1>2. CurrentInv /\ [SearchNext]_searchVars => CopiesCurrent'
  <2> SUFFICES ASSUME CurrentInv, [SearchNext]_searchVars
               PROVE  CopiesCurrent'
    OBVIOUS
  <2>1. ASSUME NEW c \in Client, SearchStep(c) \/ FailSearch(c) \/ \E n \in Name : Ask(c, n)
        PROVE  CopiesCurrent'
    BY <2>1, CurrentBegin, CurrentMoves, CurrentReceive, CurrentEnd, CurrentAsk DEF SearchStep
  <2>2. CASE SearchTick
    BY <2>2, CurrentTick
  <2>3. CASE UNCHANGED searchVars
    BY <2>3 DEF searchVars, CurrentInv, CopiesCurrent, RestLeft, Refuses
  <2> QED
    BY <2>1, <2>2, <2>3 DEF SearchNext
<1>3. CurrentInv /\ [SearchNext]_searchVars => CurrentInv'
  BY <1>2, SearchInductive DEF CurrentInv
<1> QED
  BY <1>1, <1>3, PTL DEF SearchSpec

\* What Scholar sees, as the one transaction that can be at it has it.
Unseen == SearchRequest = "none" /\ SearchDraft = [pause |-> 0, cool |-> 0]

SeenSent == SearchRequest = "sent" /\ SearchDraft = [pause |-> 0, cool |-> 0]

SeenAnswered(c) ==
    /\ SearchRequest = "answered"
    /\ SearchDraft = [pause |-> search[c].copy.next, cool |-> RestLeft(search[c].copy)]

View ==
    /\ (\A c \in Client : ~SearchAt(c, "fetch") /\ ~Answered(c)) => Unseen
    /\ \A c \in Client : /\ SearchAt(c, "fetch") => SeenSent
                         /\ Answered(c) => SeenAnswered(c)

LEMMA ViewOfOne == SearchInv => View
<1> SUFFICES ASSUME SearchInv
             PROVE  View
  OBVIOUS
<1>1. ASSUME \A c \in Client : ~SearchAt(c, "fetch") /\ ~Answered(c)
      PROVE  Unseen
  <2>1. SearchRequest = "none"
    BY <1>1 DEF SearchRequest
  <2> QED
    BY <2>1 DEF Unseen, SearchDraft
<1>2. ASSUME NEW c \in Client, SearchAt(c, "fetch")
      PROVE  SeenSent
  <2>1. \A d \in Client : ~Answered(d)
    BY <1>2, OneTransaction DEF Answered, SearchAt, InTransaction
  <2>2. SearchRequest = "sent"
    BY <1>2, <2>1 DEF SearchRequest
  <2> QED
    BY <2>2 DEF SeenSent, SearchDraft
<1>3. ASSUME NEW c \in Client, Answered(c)
      PROVE  SeenAnswered(c)
  <2>1. \A d \in Client : SearchAt(d, "fetch") \/ Answered(d) => d = c
    BY <1>3, OneTransaction DEF Answered, SearchAt, InTransaction
  <2>2. \A d \in Client : ~SearchAt(d, "fetch")
    BY <1>3, <2>1 DEF Answered, SearchAt
  <2>3. SearchRequest = "answered"
    BY <1>3, <2>2 DEF SearchRequest
  <2>4. (CHOOSE d \in Client : Answered(d)) = c
    BY <1>3, <2>1
  <2> QED
    BY <2>3, <2>4 DEF SeenAnswered, SearchDraft
<1> QED
  BY <1>1, <1>2, <1>3 DEF View

LEMMA ViewAfter == SearchInv' => View'
BY ViewOfOne, PTL

\* Who is in a transaction is the only one that can be seen.
LEMMA NobodyElse ==
    ASSUME SearchInv, NEW c \in Client, search[c].pc \in InTransaction
    PROVE  \A d \in Client \ {c} : ~SearchAt(d, "fetch") /\ ~Answered(d)
BY OneTransaction DEF Answered, SearchAt, InTransaction

LEMMA NobodyElseAfter ==
    ASSUME SearchInv, NEW c \in Client, search[c].pc \in InTransaction,
           \A d \in Client \ {c} : search'[d] = search[d]
    PROVE  \A d \in Client \ {c} : ~SearchAt(d, "fetch")' /\ ~Answered(d)'
BY NobodyElse DEF Answered, SearchAt

\* The requests as Scholar sees them, one lemma per step it sees.
LEMMA ScholarSent ==
    ASSUME CurrentInv, CurrentInv', NEW c \in Client, SendSearch(c)
    PROVE  ScholarPace!Send
<1>1. search[c].pc = "sleep" /\ search[c].wait = 0 /\ RequestOK(search[c])
  BY DEF SendSearch, SearchAt, CurrentInv, SearchInv
<1>2. search'[c].pc = "fetch" /\ UNCHANGED runtime
  BY CurrentMoves
<1>3. ~SearchAt(c, "fetch") /\ ~Answered(c)
  BY <1>1 DEF SearchAt, Answered
<1>4. Unseen
  BY <1>1, <1>3, NobodyElse, ViewOfOne DEF CurrentInv, View, InTransaction
<1>5. SeenSent'
  BY <1>2, ViewAfter DEF CurrentInv, View, SearchAt
<1>6. ~Refuses(runtime) /\ runtime.next \in 0..MinInterval /\ 0 >= runtime.next
  BY <1>1 DEF RequestOK, CurrentInv, SearchInv, SearchTypeOK, RuntimeState
<1>7. RestLeft(runtime) = 0 /\ runtime.next = 0
  BY <1>6, SearchConstants DEF RestLeft
<1> QED
  BY <1>2, <1>4, <1>5, <1>7 DEF ScholarPace!Send, Unseen, SeenSent, RestLeft, Refuses

LEMMA ScholarAnswered ==
    ASSUME CurrentInv, CurrentInv', NEW c \in Client, Receive(c)
    PROVE  ScholarPace!Answer
<1>1. /\ UNCHANGED runtime /\ search[c].pc = "fetch"
      /\ search'[c].pc = "commit" /\ search'[c].live # "no"
      /\ search'[c].copy.next = MinInterval
      /\ RestLeft(search'[c].copy) \in {RestLeft(runtime), CooldownTime}
  BY CurrentReceive
<1>2. SeenSent
  BY <1>1, ViewOfOne DEF CurrentInv, View, SearchAt
<1>3. SeenAnswered(c)'
  BY <1>1, ViewAfter DEF CurrentInv, View, Answered, SearchAt
<1>4. /\ SearchRequest' = "answered"
      /\ SearchDraft' = [pause |-> search'[c].copy.next, cool |-> RestLeft(search'[c].copy)]
  BY <1>3 DEF SeenAnswered, RestLeft, Refuses
<1>5. SearchDraft' \in {[pause |-> MinInterval, cool |-> k] : k \in {RestLeft(runtime), CooldownTime}}
  BY <1>1, <1>4
<1>6. RestLeft(runtime)' = RestLeft(runtime)
  BY <1>1 DEF RestLeft, Refuses
<1> QED
  BY <1>1, <1>2, <1>4, <1>5, <1>6 DEF ScholarPace!Answer, SeenSent

LEMMA ScholarNoted ==
    ASSUME CurrentInv, CurrentInv', NEW c \in Client, CommitSearch(c)
    PROVE  [ScholarPace!PacedNext]_(ScholarPace!pacedVars)
<1>1. search[c].pc = "commit" /\ runtime' = search[c].copy
  BY DEF CommitSearch, SearchAt
<1>2. Unseen'
  BY CurrentEnd, ViewAfter DEF CurrentInv, View, SearchAt, Answered, InTransaction
<1>3. RestLeft(runtime)' = RestLeft(search[c].copy)
  BY <1>1 DEF RestLeft, Refuses
<1>4. CASE search[c].live = "no"
  <2>1. ~SearchAt(c, "fetch") /\ ~Answered(c)
    BY <1>1, <1>4 DEF SearchAt, Answered
  <2>2. Unseen
    BY <1>1, <2>1, NobodyElse, ViewOfOne DEF CurrentInv, View, InTransaction
  <2>3. runtime'.next = runtime.next /\ RestLeft(runtime)' = RestLeft(runtime)
    BY <1>1, <1>3, <1>4 DEF CurrentInv, CopiesCurrent, InTransaction
  <2> QED
    BY <1>2, <2>2, <2>3 DEF Unseen, ScholarPace!pacedVars
<1>5. CASE search[c].live # "no"
  <2>1. SeenAnswered(c)
    BY <1>1, <1>5, ViewOfOne DEF CurrentInv, View, Answered, SearchAt
  <2>2. ScholarPace!Note
    BY <1>1, <1>2, <1>3, <2>1 DEF SeenAnswered, Unseen, ScholarPace!Note, ScholarPace!NoDraft
  <2> QED
    BY <2>2 DEF ScholarPace!PacedNext
<1> QED
  BY <1>4, <1>5

LEMMA ScholarLost ==
    ASSUME CurrentInv, CurrentInv', NEW c \in Client, FailSearch(c)
    PROVE  [ScholarPace!PacedNext]_(ScholarPace!pacedVars)
<1>1. search[c].pc \in InTransaction /\ UNCHANGED runtime
  BY DEF FailSearch
<1>2. Unseen'
  BY CurrentEnd, ViewAfter DEF CurrentInv, View, SearchAt, Answered, InTransaction
<1>3. RestLeft(runtime)' = RestLeft(runtime)
  BY <1>1 DEF RestLeft, Refuses
<1>4. CASE SearchAt(c, "fetch") \/ Answered(c)
  <2>1. SearchRequest # "none"
    BY <1>4, ViewOfOne DEF CurrentInv, View, SeenSent, SeenAnswered
  <2>2. ScholarPace!Lose
    BY <1>1, <1>2, <1>3, <2>1 DEF Unseen, ScholarPace!Lose, ScholarPace!NoDraft
  <2> QED
    BY <2>2 DEF ScholarPace!PacedNext
<1>5. CASE ~SearchAt(c, "fetch") /\ ~Answered(c)
  <2>1. Unseen
    BY <1>1, <1>5, NobodyElse, ViewOfOne DEF CurrentInv, View
  <2> QED
    BY <1>1, <1>2, <1>3, <2>1 DEF Unseen, ScholarPace!pacedVars
<1> QED
  BY <1>4, <1>5

\* Scholar does not see a search begin, nor one that tries again.
LEMMA ScholarUnaware ==
    ASSUME CurrentInv, CurrentInv', NEW c \in Client,
           Begin(c) \/ RetrySearch(c) \/ \E n \in Name : Ask(c, n)
    PROVE  UNCHANGED ScholarPace!pacedVars
<1>1. UNCHANGED runtime
  BY CurrentBegin, CurrentMoves, CurrentAsk
<1>2. RestLeft(runtime)' = RestLeft(runtime)
  BY <1>1 DEF RestLeft, Refuses
<1>3. \A d \in Client \ {c} : search'[d] = search[d]
  BY OthersStay DEF SearchStep, CurrentInv
<1>4. CASE RetrySearch(c)
  <2>1. search[c].pc = "fetch" /\ search'[c].pc = "fetch"
    BY <1>4, CurrentMoves DEF RetrySearch, SearchAt
  <2>2. SeenSent /\ SeenSent'
    BY <2>1, ViewOfOne, ViewAfter DEF CurrentInv, View, SearchAt
  <2> QED
    BY <1>1, <1>2, <2>2 DEF SeenSent, ScholarPace!pacedVars
<1>5. CASE Begin(c)
  <2>1. search'[c].pc \in {"sleep", "commit"} /\ search'[c].live = "no"
    BY <1>5, CurrentBegin
  <2>2. \A d \in Client : search[d].pc \notin InTransaction
    BY <1>5, SearchConstants DEF Begin, CurrentInv, SearchInv, SearchTypeOK
  <2>3. \A d \in Client : ~SearchAt(d, "fetch") /\ ~Answered(d)
    BY <2>2 DEF SearchAt, Answered, InTransaction
  <2>4. \A d \in Client : ~SearchAt(d, "fetch")' /\ ~Answered(d)'
    BY <1>3, <2>1, <2>3 DEF SearchAt, Answered
  <2>5. Unseen /\ Unseen'
    BY <2>3, <2>4, ViewOfOne, ViewAfter DEF CurrentInv, View
  <2> QED
    BY <1>1, <1>2, <2>5 DEF Unseen, ScholarPace!pacedVars
<1>6. ASSUME NEW n \in Name, Ask(c, n)
      PROVE  UNCHANGED ScholarPace!pacedVars
  <2>1. search[c].pc \notin InTransaction /\ search'[c].pc \notin InTransaction
    BY <1>6, CurrentAsk
  <2>2. \A d \in Client : /\ SearchAt(d, "fetch")' <=> SearchAt(d, "fetch")
                          /\ Answered(d)' <=> Answered(d)
    BY <1>3, <2>1 DEF SearchAt, Answered, InTransaction
  <2>3. CASE \E d \in Client : SearchAt(d, "fetch")
    <3>1. SeenSent /\ SeenSent'
      BY <2>2, <2>3, ViewOfOne, ViewAfter DEF CurrentInv, View
    <3> QED
      BY <1>1, <1>2, <3>1 DEF SeenSent, ScholarPace!pacedVars
  <2>4. CASE \E d \in Client : Answered(d)
    <3>1. PICK d \in Client : Answered(d)
      BY <2>4
    <3>2. SeenAnswered(d) /\ SeenAnswered(d)'
      BY <2>2, <3>1, ViewOfOne, ViewAfter DEF CurrentInv, View
    <3>3. search'[d] = search[d]
      BY <1>3, <2>1, <3>1 DEF Answered, SearchAt, InTransaction
    <3> QED
      BY <1>1, <1>2, <3>2, <3>3 DEF SeenAnswered, RestLeft, Refuses, ScholarPace!pacedVars
  <2>5. CASE \A d \in Client : ~SearchAt(d, "fetch") /\ ~Answered(d)
    <3>1. Unseen /\ Unseen'
      BY <2>2, <2>5, ViewOfOne, ViewAfter DEF CurrentInv, View
    <3> QED
      BY <1>1, <1>2, <3>1 DEF Unseen, ScholarPace!pacedVars
  <2> QED
    BY <2>3, <2>4, <2>5
<1> QED
  BY <1>4, <1>5, <1>6

LEMMA ScholarWaits ==
    ASSUME CurrentInv, CurrentInv', SearchTick
    PROVE  ScholarPace!Wait
<1>1. /\ runtime' = Elapsed(runtime) /\ runtime \in RuntimeState
      /\ \A c \in Client : /\ search'[c].pc = search[c].pc
                           /\ search'[c].live = search[c].live
                           /\ search'[c].copy = Elapsed(search[c].copy)
                           /\ search[c].copy \in RuntimeState
  BY CurrentTick DEF CurrentInv, SearchInv, SearchTypeOK
<1>2. \A n : Shorter(n) = ScholarPace!Less(n)
  BY DEF Shorter, ScholarPace!Less
<1>3. /\ runtime'.next = ScholarPace!Less(runtime.next)
      /\ RestLeft(runtime)' = ScholarPace!Less(RestLeft(runtime))
  <2>1. RestLeft(runtime)' = RestLeft(Elapsed(runtime))
    BY <1>1 DEF RestLeft, Refuses
  <2> QED
    BY <1>1, <1>2, <2>1, RestOfElapsed
<1>4. \A d \in Client : /\ SearchAt(d, "fetch")' <=> SearchAt(d, "fetch")
                        /\ Answered(d)' <=> Answered(d)
  BY <1>1 DEF SearchAt, Answered
<1>5. ScholarPace!Less(0) = 0
  BY DEF ScholarPace!Less
<1>6. CASE \E d \in Client : SearchAt(d, "fetch")
  <2>1. SeenSent /\ SeenSent'
    BY <1>4, <1>6, ViewOfOne, ViewAfter DEF CurrentInv, View
  <2> QED
    BY <1>3, <1>5, <2>1 DEF SeenSent, ScholarPace!Wait
<1>7. CASE \E d \in Client : Answered(d)
  <2>1. PICK d \in Client : Answered(d)
    BY <1>7
  <2>2. SeenAnswered(d) /\ SeenAnswered(d)'
    BY <1>4, <2>1, ViewOfOne, ViewAfter DEF CurrentInv, View
  <2>3. /\ SearchDraft = [pause |-> search[d].copy.next, cool |-> RestLeft(search[d].copy)]
        /\ SearchDraft' = [pause |-> Elapsed(search[d].copy).next,
                           cool |-> RestLeft(Elapsed(search[d].copy))]
    BY <1>1, <2>2 DEF SeenAnswered, RestLeft, Refuses
  <2>4. SearchDraft' = [pause |-> ScholarPace!Less(SearchDraft.pause),
                        cool |-> ScholarPace!Less(SearchDraft.cool)]
    BY <1>1, <1>2, <2>3, RestOfElapsed
  <2> QED
    BY <1>3, <2>2, <2>4 DEF SeenAnswered, ScholarPace!Wait
<1>8. CASE \A d \in Client : ~SearchAt(d, "fetch") /\ ~Answered(d)
  <2>1. Unseen /\ Unseen'
    BY <1>4, <1>8, ViewOfOne, ViewAfter DEF CurrentInv, View
  <2> QED
    BY <1>3, <1>5, <2>1 DEF Unseen, ScholarPace!Wait
<1> QED
  BY <1>6, <1>7, <1>8

\* The searches implement PacedRequests: whatever the requests of all the
\* processes do, Scholar is searched at its pace (author_search.py:364-580).
THEOREM SearchImplementsPace == SearchSpec => ScholarIsPaced
<1>1. ASSUME SearchInit
      PROVE  ScholarPace!PacedInit
  <2>1. \A c \in Client : ~SearchAt(c, "fetch") /\ ~Answered(c)
    BY <1>1, WaitsOK DEF SearchInit, SearchAt, Answered
  <2>2. Unseen
    BY <1>1, <2>1, SearchInitInv, ViewOfOne DEF View
  <2>3. runtime.next = 0 /\ RestLeft(runtime) = 0
    BY <1>1 DEF SearchInit, Waits, RestLeft, Refuses, Unset, LastSecond
  <2> QED
    BY <2>2, <2>3 DEF Unseen, ScholarPace!PacedInit, ScholarPace!NoDraft
<1>2. ASSUME CurrentInv, CurrentInv', [SearchNext]_searchVars
      PROVE  [ScholarPace!PacedNext]_(ScholarPace!pacedVars)
  <2>1. ASSUME NEW c \in Client, SearchStep(c) \/ FailSearch(c) \/ \E n \in Name : Ask(c, n)
        PROVE  [ScholarPace!PacedNext]_(ScholarPace!pacedVars)
    BY <1>2, <2>1, ScholarSent, ScholarAnswered, ScholarNoted, ScholarLost, ScholarUnaware
       DEF SearchStep, ScholarPace!PacedNext
  <2>2. CASE SearchTick
    BY <1>2, <2>2, ScholarWaits DEF ScholarPace!PacedNext
  <2>3. CASE UNCHANGED searchVars
    <3>1. UNCHANGED <<runtime, search>>
      BY <2>3 DEF searchVars
    <3> QED
      BY <3>1 DEF ScholarPace!pacedVars, SearchRequest, SearchDraft, RestLeft, Refuses, Answered, SearchAt
  <2> QED
    BY <1>2, <2>1, <2>2, <2>3 DEF SearchNext
<1> QED
  BY <1>1, <1>2, CurrentSpecInv, PTL DEF SearchSpec, ScholarIsPaced, ScholarPace!PacedSpec
=============================================================================
