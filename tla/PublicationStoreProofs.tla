------------------------ MODULE PublicationStoreProofs ------------------------
(***************************************************************************)
(* What the shared publications keep, for any number of sessions, scholars *)
(* and publications: the unique indexes decide every lookup, a scholar     *)
(* loses no link on its way along a chain of merges, and no identifier is  *)
(* lost with a duplicate.                                                  *)
(*                                                                         *)
(* The inductive invariant has a part about keys (KeysApart: the rows that *)
(* are committed, the rows of each transaction on top of them, and the     *)
(* uncommitted rows of two transactions), one about ids (IdsClaimed), one  *)
(* about what each transaction has done so far (Shaped, LinksFollowed) and *)
(* one that follows the identifiers of merged publications across the      *)
(* commits of the others (IdentifiersFollowed).                            *)
(***************************************************************************)
EXTENDS PublicationStore, FiniteSetTheorems, TLAPS

(***************************************************************************)
(* Types.                                                                  *)
(***************************************************************************)

Database == [pub : [Id -> Row \cup {NoRow}],
             link : SUBSET (Scholar \X Id), ident : SUBSET (Id \X Identifier)]

Rows == UNION {[D -> Row] : D \in SUBSET Id}

Writes == [row : Rows, del : SUBSET Id,
           link : SUBSET (Scholar \X Id), unlink : SUBSET (Scholar \X Id),
           ident : SUBSET (Id \X Identifier), unident : SUBSET (Id \X Identifier)]

Merging == [winner : Id, dup : Id, saw : SUBSET (Scholar \X Id)]

StoreKinds == {"page", "import"}
MergeKinds == {"sweep", "neardup"}

Transaction == [kind : StoreKinds \cup MergeKinds \cup {"repair", "none"}, pc : PC,
                scholar : Scholar \cup {None}, todo : Seq(Candidate),
                target : 0..MaxId, seen : Row \cup {NoRow}, plan : Seq(Id \X Id),
                merged : SUBSET Merging, links : SUBSET (Scholar \X Id),
                idents : SUBSET (Id \X Identifier), orphans : SUBSET Id,
                looked : SUBSET (Scholar \X Id), w : Writes]

StoreTyped ==
    /\ db \in Database
    /\ nextId \in 1..(MaxId + 1)
    /\ tx \in [Session -> Transaction]

(***************************************************************************)
(* Keys.                                                                   *)
(***************************************************************************)

\* No two rows have a key in common.
KeysUnique(pub) == \A i, j \in Id : i # j => ~SameKey(pub[i], pub[j])

\* The rows pub with the rows that a transaction has written.
Over(pub, rows) == [i \in Id |-> IF i \in DOMAIN rows THEN rows[i] ELSE pub[i]]

\* The uncommitted rows of two transactions are different rows, with different
\* keys.
RowsApart(rows, others) ==
    \A i \in DOMAIN rows, j \in DOMAIN others : i # j /\ ~SameKey(rows[i], others[j])

KeysApart ==
    /\ KeysUnique(db.pub)
    /\ \A s \in Session : KeysUnique(Over(db.pub, tx[s].w.row))
    /\ \A s \in Session : \A t \in Others(s) : RowsApart(tx[s].w.row, tx[t].w.row)

LEMMA NoRowIsNoRow == NoRow \notin Row
BY StoreAssumption DEF NoRow, Row

\* Keys are shared both ways.
LEMMA SameKeySymmetric ==
    ASSUME NEW r \in Row \cup {NoRow}, NEW q \in Row \cup {NoRow}, SameKey(r, q)
    PROVE  SameKey(q, r)
BY StoreAssumption DEF SameKey, NoRow, Row

\* A set of at most one publication is empty or that publication.
LEMMA AtMostOne ==
    ASSUME NEW S \in SUBSET Id, Cardinality(S) <= 1, S # {}
    PROVE  \E i \in Id : S = {i}
<1>1. IsFiniteSet(S)
  <2>1. IsFiniteSet(1..MaxId)
    BY StoreAssumption, FS_Interval
  <2> QED
    BY <2>1, FS_Subset DEF Id
<1>2. Cardinality(S) \in Nat /\ Cardinality(S) # 0
  BY <1>1, FS_CardinalityType, FS_EmptySet
<1>3. Cardinality(S) = 1
  BY <1>2
<1> QED
  BY <1>1, <1>3, FS_Singleton

\* A candidate that no lookup finds becomes a row that every lookup finds.
LEMMA StoredNew ==
    ASSUME StoreTyped, KeysUnique(db.pub), NEW kind \in StoreKinds, NEW sc \in Scholar,
           NEW c \in Candidate, NEW i \in Id, Matches(db, kind, sc, c) = {}
    PROVE  /\ \A j \in Id \ {i} : ~SameKey(NewRow(kind, c), db.pub[j])
           /\ Matches(Storing(sc, i, NewRow(kind, c)), kind, sc, c) = {i}
<1> DEFINE row == NewRow(kind, c)
           after == Storing(sc, i, row)
<1>1. ByCluster(db, c) = {} /\ ByFingerprint(db, c) = {}
  BY DEF Matches
<1>2. row.fp = c.fp /\ row.cluster = c.cluster
  BY DEF NewRow
<1>3. \A j \in Id \ {i} : ~SameKey(row, db.pub[j])
  <2> SUFFICES ASSUME NEW j \in Id \ {i}, SameKey(row, db.pub[j]) PROVE FALSE
    OBVIOUS
  <2>1. db.pub[j].fp # c.fp /\ (c.cluster # None => db.pub[j].cluster # c.cluster)
    BY <1>1 DEF ByCluster, ByFingerprint
  <2> QED
    BY <1>2, <2>1 DEF SameKey
<1>4. \A j \in Id : after.pub[j] = IF j = i THEN row ELSE db.pub[j]
  BY DEF StoreTyped, Database, Storing
<1> HIDE DEF row, after
<1>5. ByCluster(after, c) = IF c.cluster # None THEN {i} ELSE {}
  BY <1>1, <1>2, <1>4 DEF ByCluster
<1>6. ByFingerprint(after, c) = {i}
  BY <1>1, <1>2, <1>4 DEF ByFingerprint
<1>7. Matches(after, kind, sc, c) = {i}
  BY <1>5, <1>6 DEF Matches
<1> QED
  BY <1>3, <1>7 DEF row, after

\* A row that is found and updated keeps its fingerprint and hash; its cluster
\* is still its own, or the candidate's; an import sets its title.
LEMMA UpdateKeeps ==
    ASSUME NEW kind \in StoreKinds, NEW old \in Row, NEW seen \in Row \cup {NoRow},
           NEW c \in Candidate
    PROVE  /\ UpdatedRow(kind, old, seen, c) \in Row
           /\ UpdatedRow(kind, old, seen, c).fp = old.fp
           /\ UpdatedRow(kind, old, seen, c).hash = old.hash
           /\ UpdatedRow(kind, old, seen, c).title = IF kind = "page" THEN old.title ELSE c.title
           /\ UpdatedRow(kind, old, seen, c).cluster =
                IF kind = "page" THEN IF seen.cluster = None THEN c.cluster ELSE old.cluster
                ELSE IF c.cluster # None THEN c.cluster ELSE old.cluster
BY DEF UpdatedRow, StoreKinds, Row

\* A candidate that the lookups find as one row is found as that row again.
LEMMA StoredAgain ==
    ASSUME StoreTyped, KeysUnique(db.pub), NEW kind \in StoreKinds, NEW sc \in Scholar,
           NEW c \in Candidate, NEW i \in Id, Matches(db, kind, sc, c) = {i}
    PROVE  LET row == UpdatedRow(kind, db.pub[i], db.pub[i], c)
           IN  /\ \A j \in Id \ {i} : ~SameKey(row, db.pub[j])
               /\ Matches(Storing(sc, i, row), kind, sc, c) = {i}
<1> DEFINE old == db.pub[i]
           row == UpdatedRow(kind, old, old, c)
           after == Storing(sc, i, row)
<1>1. old \in Row
  <2>1. old # NoRow
    <3>1. c.fp # None /\ c.title # None
      BY StoreAssumption
    <3>2. \/ i \in ByCluster(db, c)
          \/ i \in ByFingerprint(db, c)
          \/ i \in ByTitle(db, kind, sc, c)
      BY DEF Matches
    <3> QED
      BY <3>1, <3>2 DEF ByCluster, ByFingerprint, ByTitle, NoRow
  <2> QED
    BY <2>1 DEF StoreTyped, Database
<1>2. /\ row.fp = old.fp /\ row.hash = old.hash
      /\ row.title = IF kind = "page" THEN old.title ELSE c.title
      /\ row.cluster = IF kind = "page" THEN IF old.cluster = None THEN c.cluster ELSE old.cluster
                       ELSE IF c.cluster # None THEN c.cluster ELSE old.cluster
  BY <1>1, UpdateKeeps
<1>3. \A j \in Id : after.pub[j] = IF j = i THEN row ELSE db.pub[j]
  BY DEF StoreTyped, Database, Storing
<1>4. after.link = db.link \cup {<<sc, i>>}
  BY DEF Storing, StoreTyped, Database
<1>5. \A j \in Id \ {i} : ~SameKey(old, db.pub[j])
  BY DEF KeysUnique
<1> HIDE DEF row, after, old
<1>6. CASE ByCluster(db, c) # {}
  <2>1. ByCluster(db, c) = {i}
    BY <1>6 DEF Matches
  <2>2. c.cluster # None /\ old.cluster = c.cluster
    BY <2>1 DEF ByCluster, old
  <2>3. row.cluster = c.cluster
    BY <1>2, <2>2
  <2>4. \A j \in Id \ {i} : ~SameKey(row, db.pub[j])
    BY <1>2, <1>5, <2>2, <2>3 DEF SameKey
  <2>5. ByCluster(after, c) = {i}
    BY <1>3, <2>1, <2>2, <2>3 DEF ByCluster
  <2> QED
    BY <2>4, <2>5 DEF Matches, row, after, old
<1>7. CASE ByCluster(db, c) = {}
  <2>1. \A j \in Id : c.cluster # None => db.pub[j].cluster # c.cluster
    BY <1>7 DEF ByCluster
  <2>2. row.cluster = old.cluster \/ row.cluster = c.cluster
    BY <1>2
  <2>3. \A j \in Id \ {i} : ~SameKey(row, db.pub[j])
    BY <1>2, <1>5, <2>1, <2>2 DEF SameKey
  <2>4. CASE row.cluster = c.cluster /\ c.cluster # None
    <3>1. ByCluster(after, c) = {i}
      BY <1>3, <2>1, <2>4 DEF ByCluster
    <3> QED
      BY <2>3, <3>1 DEF Matches, row, after, old
  <2>5. CASE ~(row.cluster = c.cluster /\ c.cluster # None)
    <3>1. ByCluster(after, c) = {}
      BY <1>3, <2>1, <2>5 DEF ByCluster
    <3>2. ByFingerprint(after, c) = ByFingerprint(db, c)
      BY <1>2, <1>3 DEF ByFingerprint, old
    <3>3. ByTitle(after, kind, sc, c) = {i} \/ ByFingerprint(db, c) # {}
      <4>1. SUFFICES ASSUME ByFingerprint(db, c) = {} PROVE ByTitle(after, kind, sc, c) = {i}
        OBVIOUS
      <4>2. ByTitle(db, kind, sc, c) = {i}
        BY <1>7, <4>1 DEF Matches
      <4>3. CASE kind = "page"
        BY <1>2, <1>3, <4>2, <4>3 DEF ByTitle, old
      <4>4. CASE kind # "page"
        <5> DEFINE linked(d) == {j \in Id : d.pub[j].title = c.title /\ <<sc, j>> \in d.link}
        <5>1. {j \in linked(db) : \A k \in linked(db) : j <= k} = {i}
          BY <4>2, <4>4 DEF ByTitle
        <5>2. linked(after) = linked(db)
          BY <1>2, <1>3, <1>4, <4>4, <5>1 DEF old
        <5> QED
          BY <4>4, <5>1, <5>2 DEF ByTitle
      <4> QED
        BY <4>3, <4>4
    <3>4. Matches(after, kind, sc, c) = {i}
      BY <1>7, <3>1, <3>2, <3>3 DEF Matches
    <3> QED
      BY <2>3, <3>4 DEF row, after, old
  <2> QED
    BY <2>4, <2>5
<1> QED
  BY <1>6, <1>7

LEMMA FoundAgain ==
    ASSUME StoreTyped, KeysUnique(db.pub)
    PROVE  StoredIsFound
<1> SUFFICES ASSUME NEW kind \in StoreKinds, NEW sc \in Scholar, NEW c \in Candidate
             PROVE  LET found == Matches(db, kind, sc, c)
                        i == IF found = {} THEN nextId ELSE CHOOSE j \in found : TRUE
                        row == IF found = {} THEN NewRow(kind, c)
                               ELSE UpdatedRow(kind, db.pub[i], db.pub[i], c)
                    IN  Cardinality(found) <= 1 /\ i <= MaxId =>
                            /\ \A j \in Id \ {i} : ~SameKey(row, db.pub[j])
                            /\ Matches(Storing(sc, i, row), kind, sc, c) = {i}
  BY DEF StoredIsFound, StoreKinds
<1> DEFINE found == Matches(db, kind, sc, c)
<1>1. CASE found = {}
  <2>1. nextId <= MaxId => nextId \in Id
    BY StoreAssumption DEF StoreTyped, Id
  <2> QED
    BY <1>1, <2>1, StoredNew
<1>2. CASE found # {}
  <2>1. found \in SUBSET Id
    BY DEF Matches, ByCluster, ByFingerprint, ByTitle
  <2> SUFFICES ASSUME Cardinality(found) <= 1
               PROVE  LET i == CHOOSE j \in found : TRUE
                          row == UpdatedRow(kind, db.pub[i], db.pub[i], c)
                      IN  /\ \A j \in Id \ {i} : ~SameKey(row, db.pub[j])
                          /\ Matches(Storing(sc, i, row), kind, sc, c) = {i}
    BY <1>2
  <2> HIDE DEF found
  <2>2. PICK i \in Id : found = {i}
    BY <1>2, <2>1, AtMostOne
  <2>3. i = CHOOSE j \in found : TRUE
    BY <2>2
  <2> QED
    BY <2>2, <2>3, StoredAgain DEF found
<1> QED
  BY <1>1, <1>2

(***************************************************************************)
(* What a transaction has done.                                            *)
(***************************************************************************)

\* No publication is merged into itself.
Distinct(plan) == \A k \in 1..Len(plan) : plan[k][1] # plan[k][2]

\* The transaction t of session s: what its kind and place in the code say of
\* the rest of it.
Shaped(s, t) ==
    /\ t.kind \in Kinds[s] \cup {"none"}
    /\ t.pc = "idle" => t = Idle
    /\ t.pc \in {"resolve", "write", "link"} =>
        t.kind \in StoreKinds /\ t.todo # <<>> /\ t.scholar \in Scholar
    /\ t.pc = "link" => t.target \in Id
    /\ t.pc = "pairs" => t.kind = "sweep"
    /\ t.pc \in {"merge", "delete"} => t.kind \in MergeKinds /\ t.plan # <<>>
    /\ t.pc = "gc" => t.kind = "repair" /\ t.w.del = {}
    /\ Distinct(t.plan)
    /\ t.kind \notin MergeKinds => t.merged = {} /\ t.w.unident = {}
    /\ t.kind \notin MergeKinds \cup {"repair"} => t.w.del = {} /\ t.w.unlink = {}
    /\ t.kind = "repair" =>
        /\ \A l \in t.w.unlink : l[1] = t.scholar
        /\ t.w.del \subseteq t.orphans
        /\ \A l \in t.looked : l[2] \in t.orphans => l[1] = t.scholar

\* A merging transaction deletes what it merged and nothing else.  A link that
\* it took away is by now a link to the winner: one it saw, one it took away in
\* its turn, or one it made, and then the winner is still there.  It took away
\* every link that it saw at a duplicate.  Between its reads and the move of
\* the links it knows of every link that it made.
LinksFollowed(t) ==
    t.kind # "repair" =>
        /\ t.w.del = {m.dup : m \in t.merged}
        /\ \A l \in t.w.unlink : \E m \in t.merged :
            /\ m.dup = l[2]
            /\ \/ <<l[1], m.winner>> \in m.saw \cup t.w.unlink
               \/ <<l[1], m.winner>> \in t.w.link /\ m.winner \notin t.w.del
        /\ \A m \in t.merged : \A l \in m.saw : l[2] = m.dup => l \in t.w.unlink
        /\ t.pc = "delete" =>
            /\ t.links = {l \in t.looked : l[2] \in {t.plan[1][1], t.plan[1][2]}}
            /\ \A l \in t.w.link : l[2] \notin t.w.del => l \in t.looked

\* A publication that is gone for good.
Dead(i) == db.pub[i] = NoRow /\ i < nextId /\ \A s \in Session : i \notin DOMAIN tx[s].w.row

\* Identifier x of publication i, if that is still there, is committed or an
\* uncommitted write of session s.
KeptFor(s, i, x) == <<i, x>> \in tx[s].w.ident \cup db.ident \/ Dead(i)

\* An identifier that the transaction took from a duplicate is kept for one of
\* its survivors; while the survivor is being merged away in its turn, it is
\* among the identifiers that were read.  What was read is kept until then.
IdentifiersFollowed(s) ==
    LET t == tx[s]
    IN  /\ \A x \in t.w.unident : x[1] \in t.w.del
        /\ \A x \in t.w.unident : \E i \in Survivors(s) :
            IF t.pc = "delete" /\ i = t.plan[1][2] THEN <<i, x[2]>> \in t.idents
            ELSE KeptFor(s, i, x[2])
        /\ t.pc = "delete" => \A x \in t.idents : KeptFor(s, x[1], x[2])

\* Ids are given out once, and no transaction writes a row that another one
\* deletes.
IdsClaimed ==
    /\ \A i \in Id : i >= nextId =>
        db.pub[i] = NoRow /\ \A s \in Session : i \notin DOMAIN tx[s].w.row \cup tx[s].w.del
    /\ \A s \in Session : \A t \in Others(s) : DOMAIN tx[s].w.row \cap tx[t].w.del = {}

StoreInv ==
    /\ StoreTyped
    /\ KeysApart
    /\ IdsClaimed
    /\ \A s \in Session :
        Shaped(s, tx[s]) /\ LinksFollowed(tx[s]) /\ IdentifiersFollowed(s)

(***************************************************************************)
(* Lemmas about writes.                                                    *)
(***************************************************************************)

LEMMA RowsTyped ==
    ASSUME NEW rows \in Rows
    PROVE  DOMAIN rows \subseteq Id /\ \A i \in DOMAIN rows : rows[i] \in Row
BY DEF Rows

LEMMA NoRows == <<>> \in Rows /\ DOMAIN <<>> = {}
<1>1. DOMAIN <<>> = {}
  OBVIOUS
<1>2. <<>> \in [{} -> Row]
  BY <1>1
<1> QED
  BY <1>1, <1>2 DEF Rows

LEMMA IdleTyped ==
    /\ Idle \in Transaction
    /\ Idle.w.row = <<>> /\ Idle.w.del = {}
    /\ \A s \in Session : Shaped(s, Idle)
    /\ LinksFollowed(Idle)
<1>1. NoWrites \in Writes
  BY NoRows DEF NoWrites, Writes
<1>2. Idle \in Transaction
  BY <1>1, StoreAssumption DEF Idle, Transaction, PC
<1>3. Idle.w.row = <<>> /\ Idle.w.del = {}
  BY DEF Idle, NoWrites
<1>4. \A s \in Session : Shaped(s, Idle)
  BY DEF Shaped, Idle, NoWrites, MergeKinds, Distinct
<1>5. LinksFollowed(Idle)
  BY DEF LinksFollowed, Idle, NoWrites
<1> QED
  BY <1>2, <1>3, <1>4, <1>5

LEMMA SessionsTyped ==
    ASSUME StoreTyped, NEW s \in Session
    PROVE  /\ tx[s] \in Transaction /\ tx[s].w \in Writes
           /\ DOMAIN tx[s].w.row \subseteq Id
           /\ \A i \in DOMAIN tx[s].w.row : tx[s].w.row[i] \in Row
<1>1. tx[s] \in Transaction
  BY DEF StoreTyped
<1>2. tx[s].w \in Writes
  BY <1>1 DEF Transaction
<1>3. tx[s].w.row \in Rows
  BY <1>2 DEF Writes
<1> QED
  BY <1>1, <1>2, <1>3, RowsTyped

\* What a session sees.
LEMMA ViewTyped ==
    ASSUME StoreTyped, NEW s \in Session
    PROVE  /\ View(s) \in Database
           /\ \A i \in Id :
                View(s).pub[i] = IF i \in tx[s].w.del THEN NoRow
                                 ELSE Over(db.pub, tx[s].w.row)[i]
           /\ \A l : l \in View(s).link <=>
                /\ l \in (db.link \ tx[s].w.unlink) \cup tx[s].w.link
                /\ l[2] \notin tx[s].w.del
           /\ \A x : x \in View(s).ident <=>
                /\ x \in (db.ident \ tx[s].w.unident) \cup tx[s].w.ident
                /\ x[1] \notin tx[s].w.del
<1>1. /\ DOMAIN tx[s].w.row \subseteq Id
      /\ \A i \in DOMAIN tx[s].w.row : tx[s].w.row[i] \in Row
      /\ tx[s].w \in Writes
  BY SessionsTyped
<1>2. \A i \in Id :
        View(s).pub[i] = IF i \in tx[s].w.del THEN NoRow ELSE Over(db.pub, tx[s].w.row)[i]
  BY DEF View, Applied, Over
<1>3. View(s).pub \in [Id -> Row \cup {NoRow}]
  <2>1. \A i \in Id : db.pub[i] \in Row \cup {NoRow}
    BY DEF StoreTyped, Database
  <2> QED
    BY <1>1, <2>1 DEF View, Applied
<1>4. \A l : l \in View(s).link <=>
        /\ l \in (db.link \ tx[s].w.unlink) \cup tx[s].w.link
        /\ l[2] \notin tx[s].w.del
  BY DEF View, Applied
<1>5. \A x : x \in View(s).ident <=>
        /\ x \in (db.ident \ tx[s].w.unident) \cup tx[s].w.ident
        /\ x[1] \notin tx[s].w.del
  BY DEF View, Applied
<1>6. View(s).link \subseteq Scholar \X Id /\ View(s).ident \subseteq Id \X Identifier
  BY <1>1, <1>4, <1>5 DEF StoreTyped, Database, Writes
<1>7. View(s) = [pub |-> View(s).pub, link |-> View(s).link, ident |-> View(s).ident]
  BY DEF View, Applied
<1>8. View(s) \in Database
  BY <1>3, <1>6, <1>7 DEF Database
<1> QED
  BY <1>2, <1>4, <1>5, <1>8

\* A step of session s leaves the transactions of the others alone.
LEMMA OnlyOne ==
    ASSUME StoreTyped, NEW s \in Session, NEW new, Becomes(s, new)
    PROVE  /\ tx'[s] = new
           /\ \A q \in Session : q # s => tx'[q] = tx[q]
BY DEF StoreTyped, Becomes

\* A step of one session that leaves the database alone keeps the invariant if
\* its new transaction does: it is shaped and followed, has the keys of its
\* rows to itself, and claims only rows that it had, or that are there or new
\* and no other transaction has locked.
LEMMA StepKeeps ==
    ASSUME StoreInv, NEW s \in Session, NEW new \in Transaction, Becomes(s, new),
           db' = db, nextId' \in 1..(MaxId + 1), nextId <= nextId',
           Shaped(s, new), LinksFollowed(new), IdentifiersFollowed(s)',
           KeysUnique(Over(db.pub, new.w.row)),
           \A i \in DOMAIN new.w.row :
                \/ i \in DOMAIN tx[s].w.row /\ new.w.row[i] = tx[s].w.row[i]
                \/ /\ ~Dead(i) /\ i < nextId' /\ ~RowLocked(s, i)
                   /\ \A t \in Others(s) : \A j \in DOMAIN tx[t].w.row :
                        ~SameKey(new.w.row[i], tx[t].w.row[j]),
           \A i \in new.w.del : i \in tx[s].w.del \/ (i < nextId' /\ ~RowLocked(s, i))
    PROVE  StoreInv'
<1>1. tx'[s] = new /\ \A q \in Session : q # s => tx'[q] = tx[q]
  BY OnlyOne DEF StoreInv
<1>2. tx' \in [Session -> Transaction]
  BY DEF StoreInv, StoreTyped, Becomes
<1>3. StoreTyped'
  BY <1>2 DEF StoreInv, StoreTyped
<1>4. ASSUME NEW q \in Session PROVE Shaped(q, tx[q])' /\ LinksFollowed(tx[q])'
  <2>1. CASE q = s
    BY <1>1, <2>1 DEF Shaped, LinksFollowed, Distinct, Idle, NoWrites, NoRow
  <2>2. CASE q # s
    <3>1. Shaped(q, tx[q]) /\ LinksFollowed(tx[q])
      BY DEF StoreInv
    <3>2. tx'[q] = tx[q]
      BY <1>1, <2>2
    <3>3. Shaped(q, tx[q])'
      BY <3>1, <3>2 DEF Shaped, Distinct, Idle, NoWrites, NoRow
    <3>4. LinksFollowed(tx[q])'
      BY <3>1, <3>2 DEF LinksFollowed
    <3> QED
      BY <3>3, <3>4
  <2> QED
    BY <2>1, <2>2
<1>5. new.w \in Writes /\ new.w.row \in Rows
  BY DEF Transaction, Writes
<1>6. DOMAIN new.w.row \subseteq Id /\ \A i \in DOMAIN new.w.row : new.w.row[i] \in Row
  BY <1>5, RowsTyped
<1>7. \A i \in DOMAIN new.w.row : i \in DOMAIN tx[s].w.row \/ ~RowLocked(s, i)
  OBVIOUS
<1>8. \A t \in Others(s) : RowsApart(new.w.row, tx[t].w.row)
  <2> SUFFICES ASSUME NEW t \in Others(s), NEW i \in DOMAIN new.w.row,
                      NEW j \in DOMAIN tx[t].w.row
               PROVE  i # j /\ ~SameKey(new.w.row[i], tx[t].w.row[j])
    BY DEF RowsApart
  <2>1. CASE i \in DOMAIN tx[s].w.row /\ new.w.row[i] = tx[s].w.row[i]
    BY <2>1 DEF StoreInv, KeysApart, RowsApart
  <2>2. CASE ~RowLocked(s, i) /\ ~SameKey(new.w.row[i], tx[t].w.row[j])
    BY <2>2 DEF RowLocked
  <2> QED
    BY <2>1, <2>2
<1>9. \A t \in Others(s) : RowsApart(tx[t].w.row, new.w.row)
  <2> SUFFICES ASSUME NEW t \in Others(s), NEW i \in DOMAIN tx[t].w.row,
                      NEW j \in DOMAIN new.w.row
               PROVE  i # j /\ ~SameKey(tx[t].w.row[i], new.w.row[j])
    BY DEF RowsApart
  <2>1. j # i /\ ~SameKey(new.w.row[j], tx[t].w.row[i])
    BY <1>8 DEF RowsApart
  <2>2. tx[t].w.row[i] \in Row
    BY SessionsTyped DEF StoreInv, Others
  <2> QED
    BY <1>6, <2>1, <2>2, SameKeySymmetric
<1>10. KeysApart'
  <2>1. KeysUnique(db.pub)'
    BY DEF StoreInv, KeysApart, KeysUnique, SameKey
  <2>2. ASSUME NEW q \in Session PROVE KeysUnique(Over(db.pub, tx[q].w.row))'
    <3>1. Over(db'.pub, tx'[q].w.row) = Over(db.pub, IF q = s THEN new.w.row ELSE tx[q].w.row)
      BY <1>1 DEF Over
    <3>2. KeysUnique(Over(db.pub, IF q = s THEN new.w.row ELSE tx[q].w.row))
      BY DEF StoreInv, KeysApart
    <3> QED
      BY <3>1, <3>2 DEF KeysUnique, SameKey
  <2>3. ASSUME NEW q \in Session, NEW t \in Others(q)
        PROVE  RowsApart(tx'[q].w.row, tx'[t].w.row)
    <3>1. t \in Session /\ t # q
      BY DEF Others
    <3>2. CASE q = s
      BY <1>1, <1>8, <3>1, <3>2
    <3>3. CASE t = s
      BY <1>1, <1>9, <3>1, <3>3 DEF Others
    <3>4. CASE q # s /\ t # s
      BY <1>1, <3>1, <3>4 DEF StoreInv, KeysApart
    <3> QED
      BY <3>2, <3>3, <3>4
  <2> QED
    BY <2>1, <2>2, <2>3 DEF KeysApart, Others, RowsApart, SameKey
<1>11. IdsClaimed'
  <2> USE DEF StoreInv, IdsClaimed
  <2>1. ASSUME NEW i \in Id, i >= nextId'
        PROVE  /\ db.pub[i] = NoRow
               /\ \A q \in Session : i \notin DOMAIN tx'[q].w.row \cup tx'[q].w.del
    <3>1. i >= nextId /\ ~(i < nextId')
      BY <2>1, StoreAssumption DEF Id, StoreTyped
    <3>2. db.pub[i] = NoRow /\ \A q \in Session : i \notin DOMAIN tx[q].w.row \cup tx[q].w.del
      BY <3>1
    <3>3. i \notin DOMAIN new.w.row \cup new.w.del
      BY <3>1, <3>2
    <3> QED
      BY <1>1, <3>2, <3>3
  <2>2. ASSUME NEW q \in Session, NEW t \in Others(q)
        PROVE  DOMAIN tx'[q].w.row \cap tx'[t].w.del = {}
    <3>1. t \in Session /\ t # q
      BY DEF Others
    <3>2. DOMAIN tx[q].w.row \cap tx[t].w.del = {}
      OBVIOUS
    <3>3. CASE q = s
      BY <1>1, <1>7, <3>1, <3>2, <3>3 DEF RowLocked
    <3>4. CASE t = s
      BY <1>1, <3>1, <3>2, <3>4 DEF RowLocked, Others
    <3>5. CASE q # s /\ t # s
      BY <1>1, <3>1, <3>2, <3>5
    <3> QED
      BY <3>3, <3>4, <3>5
  <2> QED
    BY <2>1, <2>2 DEF Others
<1>12. ASSUME NEW i \in Id, Dead(i) PROVE Dead(i)'
  <2>1. i < nextId'
    BY <1>12, StoreAssumption DEF Dead, Id, StoreInv, StoreTyped
  <2>2. \A q \in Session : i \notin DOMAIN tx'[q].w.row
    BY <1>1, <1>12 DEF Dead
  <2> QED
    BY <1>12, <2>1, <2>2 DEF Dead, NoRow
<1>13. ASSUME NEW q \in Session, q # s PROVE IdentifiersFollowed(q)'
  <2>1. tx'[q] = tx[q]
    BY <1>1, <1>13
  <2>2. \A i \in Id : \A x : KeptFor(q, i, x) => KeptFor(q, i, x)'
    BY <1>12, <2>1 DEF KeptFor
  <2>3. Survivors(q)' = Survivors(q)
    BY <2>1 DEF Survivors
  <2>4. Survivors(q) \subseteq Id /\ \A x \in tx[q].idents : x[1] \in Id
    BY SessionsTyped DEF StoreInv, Survivors, Transaction, Merging
  <2>5. IdentifiersFollowed(q)
    BY DEF StoreInv
  <2> QED
    BY <2>1, <2>2, <2>3, <2>4, <2>5 DEF IdentifiersFollowed
<1> QED
  BY <1>3, <1>4, <1>10, <1>11, <1>13 DEF StoreInv

\* Nothing to follow in a transaction that took no identifier away.
LEMMA NothingTaken ==
    ASSUME StoreTyped, NEW s \in Session, NEW new, Becomes(s, new),
           new.w.unident = {}, new.pc # "delete"
    PROVE  IdentifiersFollowed(s)'
BY OnlyOne DEF IdentifiersFollowed

\* The rows that session s sees of its own are those of its transaction, or
\* none after a rollback.
LEMMA SameRowsKeep ==
    ASSUME StoreInv, NEW s \in Session, NEW new \in Transaction, Becomes(s, new),
           db' = db, nextId' = nextId,
           Shaped(s, new), LinksFollowed(new), IdentifiersFollowed(s)',
           new.w.row = tx[s].w.row \/ new.w.row = <<>>,
           \A i \in new.w.del : i \in tx[s].w.del \/ (i < nextId /\ ~RowLocked(s, i))
    PROVE  StoreInv'
<1>1. KeysUnique(Over(db.pub, new.w.row))
  <2>1. CASE new.w.row = tx[s].w.row
    BY <2>1 DEF StoreInv, KeysApart
  <2>2. CASE new.w.row = <<>>
    <3>1. \A i \in Id : Over(db.pub, new.w.row)[i] = db.pub[i]
      BY <2>2, NoRows DEF Over
    <3> QED
      BY <3>1 DEF StoreInv, KeysApart, KeysUnique
  <2> QED
    BY <2>1, <2>2
<1>2. \A i \in DOMAIN new.w.row :
        i \in DOMAIN tx[s].w.row /\ new.w.row[i] = tx[s].w.row[i]
  BY NoRows
<1>3. nextId' \in 1..(MaxId + 1) /\ nextId <= nextId'
  BY StoreAssumption DEF StoreInv, StoreTyped
<1> QED
  BY <1>1, <1>2, <1>3, StepKeeps

LEMMA RefuseKeeps ==
    ASSUME StoreInv, NEW s \in Session, Refuse(s), db' = db, nextId' = nextId
    PROVE  StoreInv'
<1>1. Becomes(s, Idle)
  BY DEF Refuse
<1>2. Idle.w.unident = {} /\ Idle.pc # "delete"
  BY DEF Idle, NoWrites
<1>3. IdentifiersFollowed(s)'
  BY <1>1, <1>2, NothingTaken DEF StoreInv
<1> QED
  BY <1>1, <1>3, IdleTyped, SameRowsKeep

(***************************************************************************)
(* Storing a page, importing a file.                                       *)
(***************************************************************************)

LEMMA BeginStoreKeeps ==
    ASSUME StoreInv, NEW s \in Session, NEW kind \in {"page", "import"}, NEW sc \in Own[s],
           NEW page \in Page, BeginStore(s, kind, sc, page)
    PROVE  StoreInv'
<1> DEFINE new == [Idle EXCEPT !.kind = kind, !.pc = "resolve", !.scholar = sc, !.todo = page]
<1>1. Becomes(s, new) /\ db' = db /\ nextId' = nextId /\ kind \in Kinds[s]
  BY DEF BeginStore
<1>2. sc \in Scholar /\ page \in Seq(Candidate) /\ page # <<>>
  BY StoreAssumption
<1>3. new \in Transaction
  BY <1>2, IdleTyped DEF Transaction, StoreKinds, PC
<1>4. /\ new.kind = kind /\ new.pc = "resolve" /\ new.scholar = sc /\ new.todo = page
      /\ new.w = NoWrites /\ new.plan = <<>> /\ new.merged = {}
  BY DEF Idle
<1> HIDE DEF new
<1>5. Shaped(s, new)
  BY <1>1, <1>2, <1>4 DEF Shaped, StoreKinds, MergeKinds, NoWrites, Distinct
<1>6. LinksFollowed(new)
  BY <1>4 DEF LinksFollowed, NoWrites
<1>7. new.w.row = <<>> /\ new.w.del = {} /\ new.w.unident = {}
  BY <1>4 DEF NoWrites
<1>8. IdentifiersFollowed(s)'
  BY <1>1, <1>4, <1>7, NothingTaken DEF StoreInv
<1> QED
  BY <1>1, <1>3, <1>5, <1>6, <1>7, <1>8, SameRowsKeep

\* The candidate that a session is about to store.
LEMMA NextCandidate ==
    ASSUME StoreInv, NEW s \in Session, tx[s].pc \in {"resolve", "write", "link"}
    PROVE  /\ tx[s].kind \in StoreKinds /\ tx[s].scholar \in Scholar
           /\ tx[s].todo # <<>> /\ tx[s].todo \in Seq(Candidate)
           /\ Head(tx[s].todo) \in Candidate /\ Tail(tx[s].todo) \in Seq(Candidate)
           /\ tx[s].w.del = {} /\ tx[s].w.unlink = {} /\ tx[s].w.unident = {}
           /\ tx[s].merged = {}
<1>1. Shaped(s, tx[s])
  BY DEF StoreInv
<1>2. tx[s].kind \in StoreKinds /\ tx[s].todo # <<>> /\ tx[s].scholar \in Scholar
  BY <1>1 DEF Shaped
<1>3. tx[s].w.del = {} /\ tx[s].w.unlink = {} /\ tx[s].w.unident = {} /\ tx[s].merged = {}
  BY <1>1, <1>2 DEF Shaped, StoreKinds, MergeKinds
<1>4. tx[s].todo \in Seq(Candidate)
  BY SessionsTyped DEF StoreInv, Transaction
<1> QED
  BY <1>2, <1>3, <1>4

\* While it stores, a transaction stays shaped and followed.
LEMMA StoringShaped ==
    ASSUME StoreInv, NEW s \in Session, tx[s].pc \in {"resolve", "write", "link"},
           NEW new \in Transaction,
           new.kind = tx[s].kind, new.scholar = tx[s].scholar, new.plan = tx[s].plan,
           new.merged = {}, new.w.del = {}, new.w.unlink = {}, new.w.unident = {},
           new.pc \in {"resolve", "write", "link", "commit"},
           new.pc # "commit" => new.todo # <<>>,
           new.pc = "link" => new.target \in Id
    PROVE  Shaped(s, new) /\ LinksFollowed(new)
<1>1. Shaped(s, tx[s])
  BY DEF StoreInv
<1>2. tx[s].kind \in StoreKinds /\ tx[s].scholar \in Scholar
  BY NextCandidate
<1>3. Shaped(s, new)
  BY <1>1, <1>2 DEF Shaped, StoreKinds, MergeKinds
<1>4. LinksFollowed(new)
  BY DEF LinksFollowed
<1> QED
  BY <1>3, <1>4

LEMMA ResolveKeeps ==
    ASSUME StoreInv, NEW s \in Session, Resolve(s)
    PROVE  StoreInv'
<1> DEFINE c == Head(tx[s].todo)
           found == Matches(View(s), tx[s].kind, tx[s].scholar, c)
           seen(i) == IF i = 0 THEN NoRow ELSE View(s).pub[i]
           new(i) == [tx[s] EXCEPT !.pc = "write", !.target = i, !.seen = seen(i)]
<1>1. tx[s].pc = "resolve" /\ db' = db /\ nextId' = nextId
  BY DEF Resolve
<1>2. CASE Cardinality(found) > 1
  BY <1>1, <1>2, RefuseKeeps DEF Resolve
<1>3. CASE ~(Cardinality(found) > 1)
  <2>1. PICK i \in (IF found = {} THEN {0} ELSE found) : Becomes(s, new(i))
    BY <1>3 DEF Resolve
  <2>2. i = 0 \/ i \in Id
    BY DEF Matches, ByCluster, ByFingerprint, ByTitle
  <2>3. new(i) \in Transaction
    <3>1. seen(i) \in Row \cup {NoRow}
      BY <2>2, ViewTyped DEF StoreInv, Database
    <3>2. i \in 0..MaxId
      BY <2>2, StoreAssumption DEF Id
    <3>3. tx[s] \in Transaction
      BY SessionsTyped DEF StoreInv
    <3> HIDE DEF seen
    <3> QED
      BY <3>1, <3>2, <3>3 DEF Transaction, PC
  <2>4. /\ new(i).kind = tx[s].kind /\ new(i).scholar = tx[s].scholar
        /\ new(i).plan = tx[s].plan /\ new(i).merged = tx[s].merged
        /\ new(i).w = tx[s].w /\ new(i).pc = "write" /\ new(i).todo = tx[s].todo
    BY SessionsTyped DEF StoreInv, Transaction
  <2> HIDE DEF new
  <2>5. Shaped(s, new(i)) /\ LinksFollowed(new(i)) /\ new(i).w.unident = {}
    BY <1>1, <2>3, <2>4, NextCandidate, StoringShaped
  <2>6. IdentifiersFollowed(s)'
    BY <2>1, <2>4, <2>5, NothingTaken DEF StoreInv
  <2> QED
    BY <1>1, <2>1, <2>3, <2>4, <2>5, <2>6, SameRowsKeep
<1> QED
  BY <1>2, <1>3

LEMMA WrittenTyped ==
    ASSUME NEW rows \in Rows, NEW i \in Id, NEW row \in Row
    PROVE  /\ Written(rows, i, row) \in Rows
           /\ DOMAIN Written(rows, i, row) = DOMAIN rows \cup {i}
           /\ Written(rows, i, row)[i] = row
           /\ \A j \in DOMAIN rows : j # i => Written(rows, i, row)[j] = rows[j]
<1>1. DOMAIN rows \subseteq Id /\ \A j \in DOMAIN rows : rows[j] \in Row
  BY RowsTyped
<1>2. Written(rows, i, row) \in [DOMAIN rows \cup {i} -> Row]
  BY <1>1 DEF Written
<1>3. Written(rows, i, row) \in Rows
  BY <1>1, <1>2 DEF Rows
<1> QED
  BY <1>2, <1>3 DEF Written

\* A row whose keys no other row has may be written.
LEMMA WrittenUnique ==
    ASSUME NEW pub \in [Id -> Row \cup {NoRow}], NEW rows \in Rows, NEW i \in Id, NEW row \in Row,
           KeysUnique(Over(pub, rows)),
           \A j \in Id \ {i} : ~SameKey(row, Over(pub, rows)[j])
    PROVE  KeysUnique(Over(pub, Written(rows, i, row)))
<1> DEFINE before == Over(pub, rows)
           more == Written(rows, i, row)
           after == Over(pub, more)
<1>1. \A j \in Id : after[j] = IF j = i THEN row ELSE before[j]
  <2>1. /\ DOMAIN more = DOMAIN rows \cup {i} /\ more[i] = row
        /\ \A j \in DOMAIN rows : j # i => more[j] = rows[j]
    BY WrittenTyped
  <2> HIDE DEF more
  <2> QED
    BY <2>1 DEF Over
<1>2. \A j \in Id : before[j] \in Row \cup {NoRow}
  BY RowsTyped DEF Over
<1>3. \A j \in Id \ {i} : ~SameKey(row, before[j])
  OBVIOUS
<1>4. KeysUnique(before)
  OBVIOUS
<1> HIDE DEF before, after
<1>5. ASSUME NEW j \in Id, NEW k \in Id, j # k PROVE ~SameKey(after[j], after[k])
  <2>1. CASE j = i
    BY <1>1, <1>3, <1>5, <2>1
  <2>2. CASE k = i
    <3>1. ~SameKey(row, before[j])
      BY <1>3, <1>5, <2>2
    <3> QED
      BY <1>1, <1>2, <1>5, <2>2, <3>1, SameKeySymmetric
  <2>3. CASE j # i /\ k # i
    BY <1>1, <1>4, <1>5, <2>3 DEF KeysUnique
  <2> QED
    BY <2>1, <2>2, <2>3
<1> QED
  BY <1>5 DEF KeysUnique, after

\* A publication that a session sees.
LEMMA LiveView ==
    ASSUME StoreInv, NEW s \in Session, NEW i \in Live(View(s))
    PROVE  /\ i \in Id /\ i < nextId /\ ~Dead(i) /\ i \notin tx[s].w.del
           /\ View(s).pub[i] \in Row
           /\ View(s).pub[i] = Over(db.pub, tx[s].w.row)[i]
<1>1. i \in Id /\ View(s).pub[i] # NoRow
  BY DEF Live
<1>2. View(s).pub[i] \in Row
  BY <1>1, ViewTyped DEF StoreInv, Database
<1>3. i \notin tx[s].w.del /\ View(s).pub[i] = Over(db.pub, tx[s].w.row)[i]
  BY <1>1, ViewTyped DEF StoreInv
<1>4. i \in DOMAIN tx[s].w.row \/ db.pub[i] # NoRow
  BY <1>1, <1>3 DEF Over
<1>5. ~(i >= nextId)
  BY <1>1, <1>4 DEF StoreInv, IdsClaimed
<1>6. i < nextId
  BY <1>1, <1>5, StoreAssumption DEF StoreInv, StoreTyped, Id
<1> QED
  BY <1>1, <1>2, <1>3, <1>4, <1>6 DEF Dead

\* A step that writes one row.
LEMMA WriteKeeps ==
    ASSUME StoreInv, NEW s \in Session, NEW new \in Transaction, Becomes(s, new), db' = db,
           nextId' \in 1..(MaxId + 1), nextId <= nextId',
           Shaped(s, new), LinksFollowed(new), IdentifiersFollowed(s)',
           NEW i \in Id, NEW row \in Row,
           new.w.row = Written(tx[s].w.row, i, row), new.w.del = tx[s].w.del,
           ~Dead(i), i < nextId', ~RowLocked(s, i),
           \A j \in Id \ {i} : ~SameKey(row, Over(db.pub, tx[s].w.row)[j]),
           \A t \in Others(s) : \A j \in DOMAIN tx[t].w.row : ~SameKey(row, tx[t].w.row[j])
    PROVE  StoreInv'
<1>1. tx[s].w.row \in Rows
  BY SessionsTyped DEF StoreInv, Writes
<1>2. /\ DOMAIN new.w.row = DOMAIN tx[s].w.row \cup {i}
      /\ new.w.row[i] = row
      /\ \A j \in DOMAIN tx[s].w.row : j # i => new.w.row[j] = tx[s].w.row[j]
  <2> DEFINE more == Written(tx[s].w.row, i, row)
  <2>1. /\ DOMAIN more = DOMAIN tx[s].w.row \cup {i} /\ more[i] = row
        /\ \A j \in DOMAIN tx[s].w.row : j # i => more[j] = tx[s].w.row[j]
    BY <1>1, WrittenTyped
  <2>2. new.w.row = more
    OBVIOUS
  <2> HIDE DEF more
  <2> QED
    BY <2>1, <2>2
<1>3. KeysUnique(Over(db.pub, new.w.row))
  <2>1. KeysUnique(Over(db.pub, tx[s].w.row))
    BY DEF StoreInv, KeysApart
  <2>2. db.pub \in [Id -> Row \cup {NoRow}]
    BY DEF StoreInv, StoreTyped, Database
  <2> QED
    BY <1>1, <2>1, <2>2, WrittenUnique
<1>4. \A j \in DOMAIN new.w.row :
        \/ j \in DOMAIN tx[s].w.row /\ new.w.row[j] = tx[s].w.row[j]
        \/ /\ ~Dead(j) /\ j < nextId' /\ ~RowLocked(s, j)
           /\ \A t \in Others(s) : \A k \in DOMAIN tx[t].w.row :
                ~SameKey(new.w.row[j], tx[t].w.row[k])
  BY <1>2
<1>5. \A j \in new.w.del : j \in tx[s].w.del \/ (j < nextId' /\ ~RowLocked(s, j))
  OBVIOUS
<1> QED
  BY <1>3, <1>4, <1>5, StepKeeps

LEMMA NewRowTyped ==
    ASSUME NEW c \in Candidate, NEW kind
    PROVE  NewRow(kind, c) \in Row
BY DEF NewRow, Row

LEMMA FieldIdentifiersTyped ==
    ASSUME NEW c \in Candidate, NEW kind, NEW i \in Id
    PROVE  FieldIdentifiers(kind, i, c) \subseteq Id \X Identifier
BY DEF FieldIdentifiers, Identifier

LEMMA CreateKeeps ==
    ASSUME StoreInv, NEW s \in Session, Create(s)
    PROVE  StoreInv'
<1> DEFINE c == Head(tx[s].todo)
           w == tx[s].w
           row == NewRow(tx[s].kind, c)
           rows == Written(w.row, nextId, row)
           idents == w.ident \cup FieldIdentifiers(tx[s].kind, nextId, c)
           written == [w EXCEPT !.row = rows, !.ident = idents]
           new == [tx[s] EXCEPT !.pc = "link", !.target = nextId, !.w = written]
<1>1. tx[s].pc = "write" /\ ~KeyPending(s, 0, row) /\ db' = db
  BY DEF Create
<1>2. CASE KeyTaken(s, 0, row)
  BY <1>1, <1>2, RefuseKeeps DEF Create
<1>3. CASE ~KeyTaken(s, 0, row)
  <2>1. nextId <= MaxId /\ nextId' = nextId + 1 /\ Becomes(s, new)
    BY <1>3 DEF Create
  <2>2. nextId \in Id /\ nextId' \in 1..(MaxId + 1) /\ nextId <= nextId' /\ nextId < nextId'
    BY <2>1, StoreAssumption DEF StoreInv, StoreTyped, Id
  <2>3. tx[s] \in Transaction /\ w \in Writes /\ w.row \in Rows
    BY SessionsTyped DEF StoreInv, Writes
  <2>4. c \in Candidate /\ row \in Row
    BY <1>1, NextCandidate, NewRowTyped
  <2>5. rows \in Rows
    BY <2>2, <2>3, <2>4, WrittenTyped
  <2>6. idents \subseteq Id \X Identifier
    BY <2>2, <2>3, <2>4, FieldIdentifiersTyped DEF Writes
  <2>7. /\ written \in Writes /\ written.row = rows /\ written.del = w.del
        /\ written.unlink = w.unlink /\ written.unident = w.unident
    <3> HIDE DEF rows, idents, w
    <3> QED
      BY <2>3, <2>5, <2>6 DEF Writes
  <2> HIDE DEF written
  <2>8. new \in Transaction
    <3>1. nextId \in 0..MaxId
      BY <2>2, StoreAssumption DEF Id
    <3> QED
      BY <2>3, <2>7, <3>1 DEF Transaction, PC
  <2>9. /\ new.kind = tx[s].kind /\ new.scholar = tx[s].scholar /\ new.plan = tx[s].plan
        /\ new.merged = tx[s].merged /\ new.w = written /\ new.pc = "link"
        /\ new.todo = tx[s].todo /\ new.target = nextId
    BY <2>3 DEF Transaction
  <2> HIDE DEF new
  <2>10. Shaped(s, new) /\ LinksFollowed(new) /\ new.w.unident = {}
    BY <1>1, <2>2, <2>7, <2>8, <2>9, NextCandidate, StoringShaped
  <2>11. IdentifiersFollowed(s)'
    BY <2>1, <2>9, <2>10, NothingTaken DEF StoreInv
  <2>12. ~Dead(nextId) /\ ~RowLocked(s, nextId)
    <3>1. nextId >= nextId /\ ~(nextId < nextId)
      BY <2>2 DEF Id
    <3> QED
      BY <2>2, <3>1 DEF Dead, RowLocked, Others, StoreInv, IdsClaimed
  <2>13. \A j \in Id : ~SameKey(row, Over(db.pub, tx[s].w.row)[j])
    <3>1. tx[s].w.del = {}
      BY <1>1, NextCandidate
    <3>2. \A j \in Id : View(s).pub[j] = Over(db.pub, tx[s].w.row)[j]
      BY <3>1, ViewTyped DEF StoreInv
    <3>3. \A j \in Id : j # 0
      BY DEF Id
    <3> QED
      BY <1>3, <3>2, <3>3 DEF KeyTaken
  <2>14. \A t \in Others(s) : \A j \in DOMAIN tx[t].w.row : ~SameKey(row, tx[t].w.row[j])
    <3>1. \A t \in Others(s) : 0 \notin DOMAIN tx[t].w.row
      BY SessionsTyped DEF StoreInv, Others, Id
    <3> QED
      BY <1>1, <3>1 DEF KeyPending
  <2>15. new.w.row = Written(tx[s].w.row, nextId, row) /\ new.w.del = tx[s].w.del
    BY <2>7, <2>9
  <2> QED
    BY <1>1, <2>1, <2>2, <2>4, <2>8, <2>10, <2>11, <2>12, <2>13, <2>14, <2>15, WriteKeeps
<1> QED
  BY <1>2, <1>3

LEMMA UpdateKeepsInv ==
    ASSUME StoreInv, NEW s \in Session, NEW touch \in BOOLEAN, Update(s, touch)
    PROVE  StoreInv'
<1> DEFINE c == Head(tx[s].todo)
           i == tx[s].target
           w == tx[s].w
           old == View(s).pub[i]
           row == UpdatedRow(tx[s].kind, old, tx[s].seen, c)
           idents == FieldIdentifiers(tx[s].kind, i, c) \ View(s).ident
           writes == touch \/ row # old
           rows == IF writes THEN Written(w.row, i, row) ELSE w.row
           found == w.ident \cup idents
           written == [w EXCEPT !.row = rows, !.ident = found]
           new == [tx[s] EXCEPT !.pc = "link", !.w = written]
           refused == \/ (writes \/ idents # {}) /\ i \notin Live(View(s))
                      \/ writes /\ KeyTaken(s, i, row)
<1>1. /\ tx[s].pc = "write" /\ i # 0 /\ db' = db /\ nextId' = nextId
      /\ writes => ~RowLocked(s, i) /\ ~KeyPending(s, i, row)
  BY DEF Update
<1>2. CASE refused
  <2>1. Refuse(s)
    BY <1>2 DEF Update
  <2> QED
    BY <1>1, <2>1, RefuseKeeps
<1>3. CASE ~refused
  <2>1. Becomes(s, new)
    BY <1>3 DEF Update
  <2>2. tx[s] \in Transaction /\ w \in Writes /\ w.row \in Rows
    BY SessionsTyped DEF StoreInv, Writes
  <2>3. i \in Id /\ i \in 0..MaxId
    BY <1>1, <2>2 DEF Transaction, Id
  <2>4. /\ c \in Candidate /\ tx[s].kind \in StoreKinds /\ tx[s].seen \in Row \cup {NoRow}
        /\ w.del = {} /\ w.unlink = {} /\ w.unident = {}
    BY <1>1, <2>2, NextCandidate DEF Transaction
  <2>5. ASSUME writes
        PROVE  /\ row \in Row /\ i < nextId /\ ~Dead(i) /\ ~RowLocked(s, i)
               /\ \A j \in Id \ {i} : ~SameKey(row, Over(db.pub, w.row)[j])
               /\ \A t \in Others(s) : \A j \in DOMAIN tx[t].w.row :
                    ~SameKey(row, tx[t].w.row[j])
    <3>1. i \in Live(View(s)) /\ ~KeyTaken(s, i, row)
      BY <1>3, <2>5
    <3>2. i < nextId /\ ~Dead(i) /\ old \in Row
      BY <3>1, LiveView
    <3>3. row \in Row
      BY <2>4, <3>2, UpdateKeeps
    <3>4. \A j \in Id : View(s).pub[j] = Over(db.pub, w.row)[j]
      BY <2>4, ViewTyped DEF StoreInv
    <3>5. \A j \in Id \ {i} : ~SameKey(row, Over(db.pub, w.row)[j])
      BY <3>1, <3>4 DEF KeyTaken
    <3>6. \A t \in Others(s) : \A j \in DOMAIN tx[t].w.row : ~SameKey(row, tx[t].w.row[j])
      BY <1>1, <2>5 DEF KeyPending, RowLocked
    <3> QED
      BY <1>1, <2>5, <3>2, <3>3, <3>5, <3>6
  <2>6. rows \in Rows
    <3>1. CASE writes
      BY <2>2, <2>3, <2>5, <3>1, WrittenTyped
    <3>2. CASE ~writes
      BY <2>2, <3>2
    <3> QED
      BY <3>1, <3>2
  <2>7. found \subseteq Id \X Identifier
    BY <2>2, <2>3, <2>4, FieldIdentifiersTyped DEF Writes
  <2>8. /\ written \in Writes /\ written.row = rows /\ written.del = {}
        /\ written.unlink = {} /\ written.unident = {}
    <3> HIDE DEF rows, found, w
    <3> QED
      BY <2>2, <2>4, <2>6, <2>7 DEF Writes
  <2> HIDE DEF written
  <2>9. new \in Transaction
    BY <2>2, <2>8 DEF Transaction, PC
  <2>10. /\ new.kind = tx[s].kind /\ new.scholar = tx[s].scholar /\ new.plan = tx[s].plan
         /\ new.merged = tx[s].merged /\ new.w = written /\ new.pc = "link"
         /\ new.todo = tx[s].todo /\ new.target = i
    BY <2>2 DEF Transaction
  <2> HIDE DEF new
  <2>11. Shaped(s, new) /\ LinksFollowed(new) /\ new.w.unident = {}
    BY <1>1, <2>3, <2>8, <2>9, <2>10, NextCandidate, StoringShaped
  <2>12. IdentifiersFollowed(s)'
    BY <2>1, <2>10, <2>11, NothingTaken DEF StoreInv
  <2>13. nextId' \in 1..(MaxId + 1) /\ nextId <= nextId'
    BY <1>1, StoreAssumption DEF StoreInv, StoreTyped
  <2>14. new.w.row = rows /\ new.w.del = tx[s].w.del
    BY <2>4, <2>8, <2>10
  <2>15. CASE writes
    <3>1. new.w.row = Written(tx[s].w.row, i, row)
      BY <2>14, <2>15
    <3> HIDE DEF c, old, row, writes
    <3>2. i < nextId'
      BY <1>1, <2>5, <2>15
    <3> QED
      BY <1>1, <2>1, <2>3, <2>5, <2>9, <2>11, <2>12, <2>13, <2>14, <2>15, <3>1, <3>2, WriteKeeps
  <2>16. CASE ~writes
    <3>1. new.w.row = tx[s].w.row
      BY <2>14, <2>16
    <3> QED
      BY <1>1, <2>1, <2>9, <2>11, <2>12, <2>14, <3>1, SameRowsKeep
  <2> QED
    BY <2>15, <2>16
<1> QED
  BY <1>2, <1>3

LEMMA LinkKeeps ==
    ASSUME StoreInv, NEW s \in Session, Link(s)
    PROVE  StoreInv'
<1> DEFINE l == <<tx[s].scholar, tx[s].target>>
           fresh == l \notin View(s).link
           rest == Tail(tx[s].todo)
           pc == IF rest = <<>> THEN "commit" ELSE "resolve"
           links == IF fresh THEN tx[s].w.link \cup {l} ELSE tx[s].w.link
           new == [tx[s] EXCEPT !.pc = pc, !.todo = rest, !.target = 0, !.seen = NoRow,
                                !.w.link = links]
<1>1. tx[s].pc = "link" /\ db' = db /\ nextId' = nextId
  BY DEF Link
<1>2. CASE fresh /\ l[2] \notin Live(View(s))
  BY <1>1, <1>2, RefuseKeeps DEF Link
<1>3. CASE ~(fresh /\ l[2] \notin Live(View(s)))
  <2>1. Becomes(s, new)
    <3>1. Becomes(s, [tx[s] EXCEPT
                  !.pc = IF rest = <<>> THEN "commit" ELSE "resolve",
                  !.todo = rest, !.target = 0, !.seen = NoRow,
                  !.w.link = IF fresh THEN @ \cup {l} ELSE @])
      BY <1>3 DEF Link
    <3> QED
      BY <3>1
  <2>2. tx[s] \in Transaction /\ tx[s].w \in Writes
    BY SessionsTyped DEF StoreInv
  <2>3. rest \in Seq(Candidate) /\ tx[s].scholar \in Scholar /\ tx[s].target \in Id
    BY <1>1, NextCandidate DEF StoreInv, Shaped
  <2>4. links \subseteq Scholar \X Id /\ 0 \in 0..MaxId /\ pc \in PC
    BY <2>2, <2>3, StoreAssumption DEF Writes, PC
  <2>5. /\ new.pc = pc /\ new.kind = tx[s].kind /\ new.scholar = tx[s].scholar
        /\ new.plan = tx[s].plan /\ new.merged = tx[s].merged /\ new.todo = rest
        /\ new.w.row = tx[s].w.row /\ new.w.del = tx[s].w.del
        /\ new.w.unlink = tx[s].w.unlink /\ new.w.unident = tx[s].w.unident
    BY <2>2 DEF Transaction, Writes
  <2>6. new \in Transaction
    <3> HIDE DEF pc, rest, links
    <3> QED
      BY <2>2, <2>3, <2>4 DEF Transaction, Writes
  <2>7. pc = "commit" \/ (pc = "resolve" /\ rest # <<>>)
    OBVIOUS
  <2> HIDE DEF new
  <2>8. Shaped(s, new) /\ LinksFollowed(new) /\ new.w.unident = {}
    BY <1>1, <2>5, <2>6, <2>7, NextCandidate, StoringShaped
  <2>9. IdentifiersFollowed(s)'
    BY <2>1, <2>5, <2>7, <2>8, NothingTaken DEF StoreInv
  <2> QED
    BY <1>1, <2>1, <2>5, <2>6, <2>8, <2>9, SameRowsKeep
<1> QED
  BY <1>2, <1>3

(***************************************************************************)
(* Merging duplicates.                                                     *)
(***************************************************************************)

\* A session that changes none of its rows and identifiers outside of a merge
\* has as much to follow as before.
LEMMA FollowedStays ==
    ASSUME StoreInv, NEW s \in Session, NEW new \in Transaction, Becomes(s, new),
           db' = db, nextId' = nextId, tx[s].pc # "delete", new.pc # "delete",
           new.w = tx[s].w, new.merged = tx[s].merged
    PROVE  IdentifiersFollowed(s)'
<1>1. tx'[s] = new /\ \A q \in Session : q # s => tx'[q] = tx[q]
  BY OnlyOne DEF StoreInv
<1>2. \A q \in Session : tx'[q].w = tx[q].w
  BY <1>1
<1>3. \A i \in Id : Dead(i) => Dead(i)'
  BY <1>2 DEF Dead, NoRow
<1>4. Survivors(s)' = Survivors(s) /\ Survivors(s) \subseteq Id
  BY <1>1, SessionsTyped DEF StoreInv, Survivors, Transaction, Merging
<1>5. \A i \in Id : \A x : KeptFor(s, i, x) => KeptFor(s, i, x)'
  BY <1>2, <1>3 DEF KeptFor
<1>6. IdentifiersFollowed(s)
  BY DEF StoreInv
<1> QED
  BY <1>1, <1>4, <1>5, <1>6 DEF IdentifiersFollowed

LEMMA BeginSweepKeeps ==
    ASSUME StoreInv, NEW s \in Session, BeginSweep(s)
    PROVE  StoreInv'
<1> DEFINE new == [Idle EXCEPT !.kind = "sweep", !.pc = "pairs"]
<1>1. Becomes(s, new) /\ db' = db /\ nextId' = nextId /\ "sweep" \in Kinds[s]
  BY DEF BeginSweep
<1>2. new \in Transaction
  BY IdleTyped DEF Transaction, MergeKinds, PC
<1>3. /\ new.kind = "sweep" /\ new.pc = "pairs" /\ new.w = NoWrites
      /\ new.plan = <<>> /\ new.merged = {}
  BY DEF Idle
<1> HIDE DEF new
<1>4. Shaped(s, new) /\ LinksFollowed(new)
  BY <1>1, <1>3 DEF Shaped, StoreKinds, MergeKinds, LinksFollowed, NoWrites, Distinct
<1>5. new.w.row = <<>> /\ new.w.del = {} /\ new.w.unident = {}
  BY <1>3 DEF NoWrites
<1>6. IdentifiersFollowed(s)'
  BY <1>1, <1>3, <1>5, NothingTaken DEF StoreInv
<1> QED
  BY <1>1, <1>2, <1>4, <1>5, <1>6, SameRowsKeep

LEMMA DiscoverKeeps ==
    ASSUME StoreInv, NEW s \in Session, NEW i \in Id, NEW x \in Identifier,
           DiscoverIdentifier(s, i, x)
    PROVE  StoreInv'
<1> DEFINE found == {<<i, x>>}
           new == [tx[s] EXCEPT !.w.ident = found]
<1>1. /\ Becomes(s, new) /\ db' = db /\ nextId' = nextId
      /\ tx[s].pc = "pairs" /\ tx[s].w = NoWrites
  BY DEF DiscoverIdentifier
<1>2. tx[s] \in Transaction /\ tx[s].w \in Writes
  BY SessionsTyped DEF StoreInv
<1>3. new \in Transaction
  <2>1. found \subseteq Id \X Identifier
    OBVIOUS
  <2> HIDE DEF found
  <2> QED
    BY <1>2, <2>1 DEF Transaction, Writes
<1>4. /\ new.pc = tx[s].pc /\ new.kind = tx[s].kind /\ new.merged = tx[s].merged
      /\ new.plan = tx[s].plan /\ new.todo = tx[s].todo /\ new.scholar = tx[s].scholar
      /\ new.target = tx[s].target /\ new.orphans = tx[s].orphans
      /\ new.looked = tx[s].looked
      /\ new.w.row = tx[s].w.row /\ new.w.del = tx[s].w.del /\ new.w.link = tx[s].w.link
      /\ new.w.unlink = tx[s].w.unlink /\ new.w.unident = {}
  BY <1>1, <1>2 DEF Transaction, Writes, NoWrites
<1> HIDE DEF new
<1>5. Shaped(s, tx[s]) /\ LinksFollowed(tx[s])
  BY DEF StoreInv
<1>6. Shaped(s, new)
  BY <1>1, <1>4, <1>5 DEF Shaped
<1>7. LinksFollowed(new)
  BY <1>1, <1>4, <1>5 DEF LinksFollowed
<1>8. IdentifiersFollowed(s)'
  BY <1>1, <1>4, NothingTaken DEF StoreInv
<1> QED
  BY <1>1, <1>3, <1>4, <1>6, <1>7, <1>8, SameRowsKeep

\* The elements of a finite set in an order of their own.
LEMMA Ordered ==
    ASSUME NEW T, IsFiniteSet(T), NEW S \in SUBSET T, NEW order \in SetToSeqs(S)
    PROVE  /\ order \in Seq(T)
           /\ \A k \in 1..Len(order) : order[k] \in S
<1>1. IsFiniteSet(S)
  BY FS_Subset
<1>2. Cardinality(S) \in Nat
  BY <1>1, FS_CardinalityType
<1>3. order \in [1..Cardinality(S) -> S]
  BY DEF SetToSeqs
<1> DEFINE n == Cardinality(S)
<1>4. order \in [1..n -> S] /\ n \in Nat
  BY <1>2, <1>3
<1> HIDE DEF n
<1>5. order \in Seq(S)
  BY <1>4
<1> QED
  BY <1>5

LEMMA IdsFinite == IsFiniteSet(Id) /\ IsFiniteSet(Id \X Id)
<1>1. IsFiniteSet(Id)
  BY StoreAssumption, FS_Interval DEF Id
<1> QED
  BY <1>1, FS_Product

LEMMA ReadPairsKeeps ==
    ASSUME StoreInv, NEW s \in Session, ReadPairs(s)
    PROVE  StoreInv'
<1> DEFINE pc(order) == IF order = <<>> THEN "commit" ELSE "merge"
           new(order) == [tx[s] EXCEPT !.plan = order, !.pc = pc(order)]
<1>1. tx[s].pc = "pairs" /\ db' = db /\ nextId' = nextId
  BY DEF ReadPairs
<1>2. PICK order \in SetToSeqs(DuplicatePairs(View(s))) : Becomes(s, new(order))
  BY DEF ReadPairs
<1>3. order \in Seq(Id \X Id) /\ \A k \in 1..Len(order) : order[k] \in DuplicatePairs(View(s))
  <2>1. DuplicatePairs(View(s)) \in SUBSET (Id \X Id)
    BY DEF DuplicatePairs, Live
  <2> QED
    BY <2>1, IdsFinite, Ordered
<1>4. Distinct(order)
  BY <1>3 DEF Distinct, DuplicatePairs, Live, Id
<1>5. pc(order) \in PC
  BY DEF PC
<1>6. tx[s] \in Transaction /\ tx[s].w \in Writes
  BY SessionsTyped DEF StoreInv
<1>7. new(order) \in Transaction
  <2> HIDE DEF pc
  <2> QED
    BY <1>3, <1>5, <1>6 DEF Transaction
<1>8. /\ new(order).pc = pc(order) /\ new(order).kind = tx[s].kind
      /\ new(order).merged = tx[s].merged /\ new(order).plan = order
      /\ new(order).w = tx[s].w /\ new(order).orphans = tx[s].orphans
      /\ new(order).looked = tx[s].looked
  BY <1>6 DEF Transaction
<1> HIDE DEF new
<1>9. Shaped(s, tx[s]) /\ LinksFollowed(tx[s])
  BY DEF StoreInv
<1>10. Shaped(s, new(order))
  BY <1>1, <1>4, <1>8, <1>9 DEF Shaped, StoreKinds, MergeKinds
<1>11. LinksFollowed(new(order))
  BY <1>1, <1>8, <1>9 DEF LinksFollowed
<1>12. IdentifiersFollowed(s)'
  BY <1>1, <1>2, <1>7, <1>8, FollowedStays
<1> QED
  BY <1>1, <1>2, <1>7, <1>8, <1>10, <1>11, <1>12, SameRowsKeep

\* What is left of the pairs after the first.
LEMMA RestOfPlan ==
    ASSUME NEW plan \in Seq(Id \X Id), plan # <<>>, Distinct(plan)
    PROVE  /\ plan[1] \in Id \X Id /\ plan[1][1] # plan[1][2]
           /\ Tail(plan) \in Seq(Id \X Id) /\ Distinct(Tail(plan))
           /\ Len(plan) # 1 => Tail(plan) # <<>>
<1>1. Len(plan) \in Nat /\ Len(plan) >= 1
  OBVIOUS
<1>2. plan[1] \in Id \X Id /\ plan[1][1] # plan[1][2]
  BY <1>1 DEF Distinct
<1>3. Tail(plan) \in Seq(Id \X Id) /\ Len(Tail(plan)) = Len(plan) - 1
  OBVIOUS
<1>4. \A k \in 1..Len(Tail(plan)) : Tail(plan)[k] = plan[k + 1] /\ k + 1 \in 1..Len(plan)
  BY <1>1, <1>3
<1>5. Distinct(Tail(plan))
  BY <1>4 DEF Distinct
<1>6. ASSUME Tail(plan) = <<>> PROVE Len(plan) = 1
  <2> DEFINE rest == Tail(plan)
  <2>1. rest \in Seq(Id \X Id) /\ rest = <<>>
    BY <1>3, <1>6
  <2> HIDE DEF rest
  <2>2. Len(rest) = 0
    BY <2>1
  <2> QED
    BY <1>1, <1>3, <2>2 DEF rest
<1> QED
  BY <1>2, <1>3, <1>5, <1>6

\* The group of near duplicates of a publication exists: what every closed set
\* around it has in common.
LEMMA NearGroupThere ==
    ASSUME NEW d, NEW i \in Live(d)
    PROVE  NearGroup(d, i) \subseteq Live(d) /\ i \in NearGroup(d, i)
<1> DEFINE Closed(g) == \A j \in g, k \in Live(d) : Near(d, j, k) \/ Near(d, k, j) => k \in g
           common == {k \in Live(d) : \A g \in SUBSET Live(d) : i \in g /\ Closed(g) => k \in g}
           Group(g) == /\ i \in g
                       /\ Closed(g)
                       /\ \A h \in SUBSET g : (i \in h /\ Closed(h)) => h = g
<1>1. i \in common /\ common \in SUBSET Live(d)
  OBVIOUS
<1>2. Closed(common)
  OBVIOUS
<1>3. ASSUME NEW h \in SUBSET common, i \in h, Closed(h) PROVE h = common
  <2>1. h \in SUBSET Live(d)
    BY <1>1
  <2>2. ASSUME NEW k \in common PROVE k \in h
    BY <1>3, <2>1
  <2> QED
    BY <2>2
<1>4. Group(common)
  BY <1>1, <1>2, <1>3
<1>5. NearGroup(d, i) = CHOOSE g \in SUBSET Live(d) : Group(g)
  BY DEF NearGroup
<1> HIDE DEF Group, common
<1>6. NearGroup(d, i) \in SUBSET Live(d) /\ Group(NearGroup(d, i))
  BY <1>1, <1>4, <1>5
<1> QED
  BY <1>6 DEF Group

LEMMA BeginNearDuplicatesKeeps ==
    ASSUME StoreInv, NEW s \in Session, NEW i \in Id, BeginNearDuplicates(s, i)
    PROVE  StoreInv'
<1> DEFINE group == NearGroup(db, i)
           plan(winner, others) == [k \in 1..Len(others) |-> <<winner, others[k]>>]
           new(p) == [Idle EXCEPT !.kind = "neardup", !.pc = "merge", !.plan = p]
<1>1. /\ "neardup" \in Kinds[s] /\ i \in Live(db) /\ Cardinality(group) > 1
      /\ db' = db /\ nextId' = nextId
  BY DEF BeginNearDuplicates
<1>2. PICK winner \in group : \E o \in SetToSeqs(group \ {winner}) :
        Becomes(s, new(plan(winner, o)))
  BY DEF BeginNearDuplicates
<1>3. PICK others \in SetToSeqs(group \ {winner}) : Becomes(s, new(plan(winner, others)))
  BY <1>2
<1>4. group \in SUBSET Id /\ winner \in Id
  BY <1>1, <1>2, NearGroupThere DEF Live
<1>5. others \in Seq(Id) /\ \A k \in 1..Len(others) : others[k] \in group \ {winner}
  BY <1>4, IdsFinite, Ordered
<1> DEFINE p == plan(winner, others)
<1>6. p \in Seq(Id \X Id) /\ Len(p) = Len(others)
      /\ \A k \in 1..Len(p) : p[k] = <<winner, others[k]>>
  <2>1. Len(others) \in Nat /\ \A k \in 1..Len(others) : <<winner, others[k]>> \in Id \X Id
    BY <1>4, <1>5
  <2> QED
    BY <2>1
<1>7. Distinct(p)
  BY <1>5, <1>6 DEF Distinct
<1>8. p # <<>>
  <2>1. IsFiniteSet(group)
    BY <1>4, IdsFinite, FS_Subset
  <2>2. IsFiniteSet(group \ {winner})
        /\ Cardinality(group \ {winner}) = Cardinality(group) - 1
    BY <1>2, <2>1, FS_RemoveElement
  <2> DEFINE n == Cardinality(group \ {winner})
  <2>3. n \in Nat /\ n >= 1
    BY <1>1, <2>1, <2>2, FS_CardinalityType
  <2>4. others \in [1..n -> group \ {winner}]
    BY <1>3 DEF SetToSeqs
  <2> HIDE DEF n, p, group
  <2>5. Len(others) = n
    BY <1>5, <2>3, <2>4
  <2>6. Len(p) >= 1
    BY <1>6, <2>3, <2>5
  <2> QED
    BY <1>6, <2>6
<1> HIDE DEF plan, p
<1>9. new(p) \in Transaction
  BY <1>6, IdleTyped DEF Transaction, MergeKinds, PC
<1>10. /\ new(p).kind = "neardup" /\ new(p).pc = "merge" /\ new(p).w = NoWrites
       /\ new(p).plan = p /\ new(p).merged = {}
  BY DEF Idle
<1>11. Becomes(s, new(p))
  BY <1>3 DEF p
<1> HIDE DEF new
<1>12. Shaped(s, new(p)) /\ LinksFollowed(new(p))
  BY <1>1, <1>7, <1>8, <1>10 DEF Shaped, StoreKinds, MergeKinds, LinksFollowed, NoWrites
<1>13. new(p).w.row = <<>> /\ new(p).w.del = {} /\ new(p).w.unident = {}
  BY <1>10 DEF NoWrites
<1>14. IdentifiersFollowed(s)'
  BY <1>10, <1>11, <1>13, NothingTaken DEF StoreInv
<1> QED
  BY <1>1, <1>9, <1>11, <1>12, <1>13, <1>14, SameRowsKeep

\* The pair that a session is about to merge.
LEMMA NextPair ==
    ASSUME StoreInv, NEW s \in Session, tx[s].pc \in {"merge", "delete"}
    PROVE  LET plan == tx[s].plan
           IN  /\ tx[s].kind \in MergeKinds
               /\ plan \in Seq(Id \X Id) /\ plan # <<>>
               /\ plan[1][1] \in Id /\ plan[1][2] \in Id /\ plan[1][1] # plan[1][2]
               /\ Tail(plan) \in Seq(Id \X Id) /\ Distinct(Tail(plan))
               /\ Len(plan) # 1 => Tail(plan) # <<>>
<1> DEFINE plan == tx[s].plan
<1>1. tx[s].kind \in MergeKinds /\ plan # <<>> /\ Distinct(plan)
  BY DEF StoreInv, Shaped
<1>2. plan \in Seq(Id \X Id)
  BY SessionsTyped DEF StoreInv, Transaction
<1> HIDE DEF plan
<1>3. /\ plan[1] \in Id \X Id /\ plan[1][1] # plan[1][2]
      /\ Tail(plan) \in Seq(Id \X Id) /\ Distinct(Tail(plan))
      /\ Len(plan) # 1 => Tail(plan) # <<>>
  BY <1>1, <1>2, RestOfPlan
<1>4. plan[1][1] \in Id /\ plan[1][2] \in Id
  BY <1>3
<1> QED
  BY <1>1, <1>2, <1>3, <1>4 DEF plan

LEMMA SkipMergedKeeps ==
    ASSUME StoreInv, NEW s \in Session, SkipMerged(s)
    PROVE  StoreInv'
<1> DEFINE rest == Tail(tx[s].plan)
           pc == IF Len(tx[s].plan) = 1 THEN "commit" ELSE "merge"
           new == [tx[s] EXCEPT !.plan = rest, !.pc = pc]
<1>1. tx[s].pc = "merge" /\ Becomes(s, new) /\ db' = db /\ nextId' = nextId
  BY DEF SkipMerged
<1>2. /\ rest \in Seq(Id \X Id) /\ Distinct(rest) /\ tx[s].kind \in MergeKinds
      /\ Len(tx[s].plan) # 1 => rest # <<>>
  BY <1>1, NextPair
<1>3. pc \in PC /\ (pc = "commit" \/ (pc = "merge" /\ rest # <<>>))
  BY <1>2 DEF PC
<1>4. tx[s] \in Transaction /\ tx[s].w \in Writes
  BY SessionsTyped DEF StoreInv
<1>5. new \in Transaction
  <2> HIDE DEF pc, rest
  <2> QED
    BY <1>2, <1>3, <1>4 DEF Transaction
<1>6. /\ new.pc = pc /\ new.kind = tx[s].kind /\ new.merged = tx[s].merged
      /\ new.plan = rest /\ new.w = tx[s].w
  BY <1>4 DEF Transaction
<1> HIDE DEF new, pc, rest
<1>7. Shaped(s, tx[s]) /\ LinksFollowed(tx[s])
  BY DEF StoreInv
<1>8. Shaped(s, new)
  BY <1>2, <1>3, <1>6, <1>7 DEF Shaped, StoreKinds, MergeKinds
<1>9. LinksFollowed(new)
  BY <1>3, <1>6, <1>7 DEF LinksFollowed
<1>10. IdentifiersFollowed(s)'
  BY <1>1, <1>3, <1>5, <1>6, FollowedStays
<1> QED
  BY <1>1, <1>4, <1>5, <1>6, <1>8, <1>9, <1>10, SameRowsKeep

\* The winner keeps its keys: it takes over no cluster.
LEMMA MergedKeepsKeys ==
    ASSUME NEW winner \in Row, NEW dup \in Row, NEW longer \in Row,
           ~(winner.cluster = None /\ dup.cluster # None)
    PROVE  LET row == MergedRow(winner, dup, longer.title)
           IN  row \in Row /\ row.fp = winner.fp /\ row.cluster = winner.cluster
BY DEF MergedRow, Row

\* Between the writes of a merge nothing that it has to follow is lost: what it
\* reads of the duplicate is what it has kept for it.
LEMMA MergeFollowed ==
    ASSUME StoreInv, NEW s \in Session, NEW new \in Transaction, Becomes(s, new),
           db' = db, nextId' = nextId, tx[s].pc = "merge", new.pc = "delete",
           new.plan = tx[s].plan, new.merged = tx[s].merged,
           new.w.del = tx[s].w.del, new.w.ident = tx[s].w.ident,
           new.w.unident = tx[s].w.unident,
           NEW w \in Id, NEW d \in Id,
           w = tx[s].plan[1][1], d = tx[s].plan[1][2],
           {w, d} \subseteq Live(View(s)),
           DOMAIN new.w.row \subseteq DOMAIN tx[s].w.row \cup {w},
           new.idents = {x \in View(s).ident : x[1] \in {w, d}}
    PROVE  IdentifiersFollowed(s)'
<1>1. tx'[s] = new /\ \A q \in Session : q # s => tx'[q] = tx[q]
  BY OnlyOne DEF StoreInv
<1>2. ~Dead(w) /\ ~Dead(d) /\ d \notin tx[s].w.del
  BY LiveView
<1>3. ASSUME NEW i \in Id, Dead(i) PROVE Dead(i)'
  <2>1. i # w
    BY <1>2, <1>3
  <2>2. \A q \in Session : i \notin DOMAIN tx'[q].w.row
    BY <1>1, <1>3, <2>1 DEF Dead
  <2> QED
    BY <1>3, <2>2 DEF Dead, NoRow
<1>4. \A i \in Id : \A x : KeptFor(s, i, x) => KeptFor(s, i, x)'
  BY <1>1, <1>3 DEF KeptFor
<1>5. Survivors(s)' = Survivors(s) /\ Survivors(s) \subseteq Id
  BY <1>1, SessionsTyped DEF StoreInv, Survivors, Transaction, Merging
<1>6. IdentifiersFollowed(s)
  BY DEF StoreInv
<1>7. \A x \in new.w.unident : x[1] \in new.w.del
  BY <1>6 DEF IdentifiersFollowed
<1>8. ASSUME NEW x \in new.w.unident
      PROVE  \E i \in Survivors(s) :
                IF i = d THEN <<i, x[2]>> \in new.idents ELSE KeptFor(s, i, x[2])'
  <2>1. PICK i \in Survivors(s) : KeptFor(s, i, x[2])
    BY <1>6 DEF IdentifiersFollowed
  <2>2. CASE i # d
    BY <1>4, <1>5, <2>1, <2>2
  <2>3. CASE i = d
    <3>1. <<d, x[2]>> \in tx[s].w.ident \cup db.ident
      BY <1>2, <2>1, <2>3 DEF KeptFor
    <3>2. <<d, x[2]>> \notin tx[s].w.unident
      BY <1>2, <1>6 DEF IdentifiersFollowed
    <3>3. <<d, x[2]>> \in View(s).ident
      BY <1>2, <3>1, <3>2, ViewTyped DEF StoreInv
    <3> QED
      BY <2>3, <3>3
  <2> QED
    BY <2>2, <2>3
<1>9. ASSUME NEW x \in new.idents PROVE KeptFor(s, x[1], x[2])'
  <2>1. x \in View(s).ident /\ x[1] \in Id
    OBVIOUS
  <2>2. x \in tx[s].w.ident \cup db.ident /\ x = <<x[1], x[2]>>
    BY <2>1, ViewTyped DEF StoreInv, Database
  <2> QED
    BY <1>4, <2>1, <2>2 DEF KeptFor
<1> QED
  BY <1>1, <1>5, <1>7, <1>8, <1>9 DEF IdentifiersFollowed

LEMMA MergeKeeps ==
    ASSUME StoreInv, NEW s \in Session, NEW longer \in Id, Merge(s, longer)
    PROVE  StoreInv'
<1> DEFINE w == tx[s].plan[1][1]
           d == tx[s].plan[1][2]
           v == View(s)
           row == MergedRow(v.pub[w], v.pub[d], v.pub[longer].title)
           writes == row # v.pub[w]
           rows == IF writes THEN Written(tx[s].w.row, w, row) ELSE tx[s].w.row
           links == {l \in v.link : l[2] \in {w, d}}
           idents == {x \in v.ident : x[1] \in {w, d}}
           new == [tx[s] EXCEPT !.pc = "delete", !.links = links, !.idents = idents,
                                !.looked = v.link, !.w.row = rows]
<1>1. /\ tx[s].pc = "merge" /\ longer \in {w, d} /\ db' = db /\ nextId' = nextId
      /\ writes => ~RowLocked(s, w)
  BY DEF Merge
<1>2. CASE ~Mergeable(v, w, d)
  BY <1>1, <1>2, RefuseKeeps DEF Merge
<1>3. CASE Mergeable(v, w, d)
  <2>1. Becomes(s, new)
    <3>1. Becomes(s, [tx[s] EXCEPT
                  !.pc = "delete", !.links = links, !.idents = idents, !.looked = v.link,
                  !.w.row = IF row # v.pub[w] THEN Written(@, w, row) ELSE @])
      BY <1>3 DEF Merge
    <3> QED
      BY <3>1
  <2>2. tx[s] \in Transaction /\ tx[s].w \in Writes /\ tx[s].w.row \in Rows
    BY SessionsTyped DEF StoreInv, Writes
  <2>3. w \in Id /\ d \in Id /\ w # d /\ tx[s].kind \in MergeKinds
    BY <1>1, NextPair
  <2>4. {w, d} \subseteq Live(v) /\ ~(v.pub[w].cluster = None /\ v.pub[d].cluster # None)
    BY <1>3 DEF Mergeable
  <2>5. /\ w < nextId /\ ~Dead(w) /\ v.pub[w] \in Row /\ v.pub[d] \in Row
        /\ v.pub[longer] \in Row /\ v.pub[w] = Over(db.pub, tx[s].w.row)[w]
    BY <1>1, <2>4, LiveView
  <2>6. row \in Row /\ row.fp = v.pub[w].fp /\ row.cluster = v.pub[w].cluster
    BY <2>4, <2>5, MergedKeepsKeys
  <2>7. rows \in Rows /\ DOMAIN rows \subseteq DOMAIN tx[s].w.row \cup {w}
    <3> DEFINE more == Written(tx[s].w.row, w, row)
    <3>1. more \in Rows /\ DOMAIN more = DOMAIN tx[s].w.row \cup {w}
      <4>1. \A r \in Rows : \A q \in Row :
              Written(r, w, q) \in Rows /\ DOMAIN Written(r, w, q) = DOMAIN r \cup {w}
        <5> HIDE DEF w
        <5> QED
          BY <2>3, WrittenTyped
      <4> HIDE DEF w, row
      <4> QED
        BY <2>2, <2>6, <4>1
    <3>2. rows = more \/ rows = tx[s].w.row
      OBVIOUS
    <3> HIDE DEF rows, more
    <3>3. CASE rows = more
      BY <3>1, <3>3
    <3>4. CASE rows = tx[s].w.row
      BY <2>2, <3>4
    <3> QED
      BY <3>2, <3>3, <3>4
  <2>8. v.link \subseteq Scholar \X Id /\ links \subseteq Scholar \X Id
        /\ idents \subseteq Id \X Identifier
    BY ViewTyped DEF StoreInv, Database
  <2>9. new \in Transaction
    <3> HIDE DEF rows, links, idents, v
    <3> QED
      BY <2>2, <2>7, <2>8 DEF Transaction, Writes, PC
  <2>10. /\ new.pc = "delete" /\ new.kind = tx[s].kind /\ new.merged = tx[s].merged
         /\ new.plan = tx[s].plan /\ new.links = links /\ new.idents = idents
         /\ new.looked = v.link /\ new.w.row = rows /\ new.w.del = tx[s].w.del
         /\ new.w.link = tx[s].w.link /\ new.w.unlink = tx[s].w.unlink
         /\ new.w.ident = tx[s].w.ident /\ new.w.unident = tx[s].w.unident
    <3> HIDE DEF rows, links, idents, v
    <3> QED
      BY <2>2 DEF Transaction, Writes
  <2> HIDE DEF new
  <2>11. Shaped(s, tx[s]) /\ LinksFollowed(tx[s])
    BY DEF StoreInv
  <2>12. Shaped(s, new)
    <3>1. tx[s].plan # <<>>
      BY <1>1, NextPair
    <3> QED
      BY <1>1, <2>3, <2>10, <2>11, <3>1 DEF Shaped, StoreKinds, MergeKinds
  <2>13. LinksFollowed(new)
    <3>1. \A l \in tx[s].w.link : l[2] \notin tx[s].w.del => l \in v.link
      BY ViewTyped DEF StoreInv
    <3>2. new.links = {l \in new.looked : l[2] \in {new.plan[1][1], new.plan[1][2]}}
      BY <2>10
    <3> QED
      BY <2>10, <2>11, <3>1, <3>2 DEF LinksFollowed
  <2>14. IdentifiersFollowed(s)'
    BY <1>1, <2>1, <2>3, <2>4, <2>7, <2>9, <2>10, MergeFollowed
  <2>15. CASE writes
    <3>1. ~RowLocked(s, w) /\ new.w.row = Written(tx[s].w.row, w, row)
      BY <1>1, <2>10, <2>15
    <3>2. \A j \in Id \ {w} : ~SameKey(row, Over(db.pub, tx[s].w.row)[j])
      <4>1. \A j \in Id \ {w} : ~SameKey(v.pub[w], Over(db.pub, tx[s].w.row)[j])
        BY <2>3, <2>5 DEF StoreInv, KeysApart, KeysUnique
      <4> QED
        BY <2>6, <4>1 DEF SameKey
    <3>3. ASSUME NEW t \in Others(s), NEW j \in DOMAIN tx[t].w.row
          PROVE  ~SameKey(row, tx[t].w.row[j])
      <4>1. ~SameKey(v.pub[w], tx[t].w.row[j])
        <5>1. CASE w \in DOMAIN tx[s].w.row
          <6>1. v.pub[w] = tx[s].w.row[w]
            BY <2>3, <2>5, <5>1 DEF Over
          <6> QED
            BY <5>1, <6>1 DEF StoreInv, KeysApart, RowsApart
        <5>2. CASE w \notin DOMAIN tx[s].w.row
          <6>1. v.pub[w] = db.pub[w]
            BY <2>3, <2>5, <5>2 DEF Over
          <6>2. w \notin DOMAIN tx[t].w.row
            BY <3>1 DEF RowLocked
          <6>3. j \in Id /\ j # w /\ t \in Session
            BY <6>2, SessionsTyped DEF StoreInv, Others
          <6>4. ~SameKey(Over(db.pub, tx[t].w.row)[w], Over(db.pub, tx[t].w.row)[j])
            BY <2>3, <6>3 DEF StoreInv, KeysApart, KeysUnique
          <6>5. Over(db.pub, tx[t].w.row)[w] = db.pub[w]
            BY <2>3, <6>2 DEF Over
          <6>6. Over(db.pub, tx[t].w.row)[j] = tx[t].w.row[j]
            BY <6>3 DEF Over
          <6> QED
            BY <6>1, <6>4, <6>5, <6>6
        <5> QED
          BY <5>1, <5>2
      <4> QED
        BY <2>6, <4>1 DEF SameKey
    <3>4. nextId' \in 1..(MaxId + 1) /\ nextId <= nextId' /\ w < nextId'
      BY <1>1, <2>5, StoreAssumption DEF StoreInv, StoreTyped
    <3>5. new.w.del = tx[s].w.del
      BY <2>10
    <3> HIDE DEF w, row
    <3> QED
      BY <1>1, <2>1, <2>3, <2>5, <2>6, <2>9, <2>12, <2>13, <2>14, <3>1, <3>2, <3>3, <3>4,
         <3>5, WriteKeeps
  <2>16. CASE ~writes
    <3>1. new.w.row = tx[s].w.row /\ new.w.del = tx[s].w.del
      BY <2>10, <2>16
    <3> QED
      BY <1>1, <2>1, <2>9, <2>12, <2>13, <2>14, <3>1, SameRowsKeep
  <2> QED
    BY <2>15, <2>16
<1> QED
  BY <1>2, <1>3

\* The new transaction after the first pair of its plan was merged: what became
\* of its links, and of its identifiers.
LinksMoved(t, new) ==
    LET w == t.plan[1][1]
        d == t.plan[1][2]
        gone == {l \in t.links : l[2] = d}
    IN  /\ new.merged = t.merged \cup {[winner |-> w, dup |-> d, saw |-> t.looked]}
        /\ new.w.del = t.w.del \cup {d}
        /\ new.w.unlink = t.w.unlink \cup gone
        /\ new.w.link = (t.w.link \cup MovedLinks(t.links, w, d)) \ gone

IdentifiersMoved(t, new) ==
    LET w == t.plan[1][1]
        d == t.plan[1][2]
        dropped == {x \in t.idents : x[1] = d}
    IN  /\ \E m \in new.merged : m.winner = w /\ new.merged = t.merged \cup {m}
        /\ new.w.row = t.w.row
        /\ new.w.del = t.w.del \cup {d}
        /\ new.w.ident = (t.w.ident \cup MovedIdentifiers(t.idents, w, d)) \ dropped
        /\ new.w.unident = t.w.unident \cup dropped

\* The links of a duplicate, as they were read, are moved: one that is taken
\* away is a link to the winner by now, and one that an earlier merge had moved
\* to this duplicate is taken away in its turn.
LEMMA MovedLinksFollowed ==
    ASSUME NEW t \in Transaction, NEW new \in Transaction, LinksMoved(t, new),
           t.kind \in MergeKinds, t.pc = "delete", LinksFollowed(t),
           t.plan[1][1] \in Id, t.plan[1][2] \in Id, t.plan[1][1] # t.plan[1][2],
           t.plan[1][1] \notin t.w.del, t.plan[1][2] \notin t.w.del,
           new.kind = t.kind, new.pc # "delete"
    PROVE  LinksFollowed(new)
<1> DEFINE w == t.plan[1][1]
           d == t.plan[1][2]
           m0 == [winner |-> w, dup |-> d, saw |-> t.looked]
           moved == MovedLinks(t.links, w, d)
           gone == {l \in t.links : l[2] = d}
<1>0. /\ w \in Id /\ d \in Id /\ w # d /\ w \notin t.w.del /\ d \notin t.w.del
      /\ new.merged = t.merged \cup {m0} /\ new.w.del = t.w.del \cup {d}
      /\ new.w.unlink = t.w.unlink \cup gone
      /\ new.w.link = (t.w.link \cup moved) \ gone
  BY DEF LinksMoved
<1>1. /\ t.w.del = {m.dup : m \in t.merged}
      /\ \A l \in t.w.unlink : \E m \in t.merged :
          /\ m.dup = l[2]
          /\ \/ <<l[1], m.winner>> \in m.saw \cup t.w.unlink
             \/ <<l[1], m.winner>> \in t.w.link /\ m.winner \notin t.w.del
      /\ \A m \in t.merged : \A l \in m.saw : l[2] = m.dup => l \in t.w.unlink
      /\ t.links = {l \in t.looked : l[2] \in {w, d}}
      /\ \A l \in t.w.link : l[2] \notin t.w.del => l \in t.looked
  BY DEF LinksFollowed, MergeKinds
<1>2. m0 \in new.merged /\ m0.winner = w /\ m0.dup = d /\ m0.saw = t.looked
      /\ t.merged \subseteq new.merged
  BY <1>0
<1>3. \A m \in new.merged : m \in t.merged \/ m = m0
  BY <1>0
<1>4. t.looked \subseteq Scholar \X Id
  BY DEF Transaction
<1>5. gone = {l \in t.looked : l[2] = d}
  BY <1>1
<1> HIDE DEF m0, w, d
<1>6. new.w.del = {m.dup : m \in new.merged}
  BY <1>0, <1>1, <1>2, <1>3
<1>7. \A m \in new.merged : \A l \in m.saw : l[2] = m.dup => l \in new.w.unlink
  BY <1>0, <1>1, <1>2, <1>3, <1>5
<1>8. ASSUME NEW l \in new.w.unlink
      PROVE  \E m \in new.merged :
                /\ m.dup = l[2]
                /\ \/ <<l[1], m.winner>> \in m.saw \cup new.w.unlink
                   \/ <<l[1], m.winner>> \in new.w.link /\ m.winner \notin new.w.del
  <2>1. CASE l \in gone
    <3>1. l[2] = d /\ l \in t.links
      BY <2>1
    <3>2. CASE <<l[1], w>> \in t.looked
      BY <1>0, <1>2, <3>1, <3>2
    <3>3. CASE <<l[1], w>> \notin t.looked
      <4>1. <<l[1], w>> \in moved
        BY <1>1, <3>1, <3>3 DEF MovedLinks
      <4>2. <<l[1], w>> \in new.w.link /\ w \notin new.w.del
        BY <1>0, <4>1
      <4> QED
        BY <1>2, <3>1, <4>2
    <3> QED
      BY <3>2, <3>3
  <2>2. CASE l \in t.w.unlink
    <3>1. PICK m \in t.merged :
            /\ m.dup = l[2]
            /\ \/ <<l[1], m.winner>> \in m.saw \cup t.w.unlink
               \/ <<l[1], m.winner>> \in t.w.link /\ m.winner \notin t.w.del
      BY <1>1, <2>2
    <3>2. CASE <<l[1], m.winner>> \in m.saw \cup t.w.unlink
      BY <1>0, <1>2, <3>1, <3>2
    <3>3. CASE <<l[1], m.winner>> \in t.w.link /\ m.winner \notin t.w.del /\ m.winner = d
      <4>1. <<l[1], d>> \in gone
        BY <1>1, <1>5, <3>3
      <4> QED
        BY <1>0, <1>2, <3>1, <3>3, <4>1
    <3>4. CASE <<l[1], m.winner>> \in t.w.link /\ m.winner \notin t.w.del /\ m.winner # d
      <4>1. <<l[1], m.winner>> \in new.w.link /\ m.winner \notin new.w.del
        BY <1>0, <3>4
      <4> QED
        BY <1>2, <3>1, <4>1
    <3> QED
      BY <3>1, <3>2, <3>3, <3>4
  <2> QED
    BY <1>0, <2>1, <2>2
<1> QED
  BY <1>6, <1>7, <1>8 DEF LinksFollowed

\* The identifiers of a duplicate, as they were read, are moved to the winner.
LEMMA MovedIdentifiersFollowed ==
    ASSUME StoreInv, NEW s \in Session, NEW new \in Transaction, Becomes(s, new),
           db' = db, nextId' = nextId, tx[s].pc = "delete", new.pc # "delete",
           tx[s].plan[1][1] \in Id, tx[s].plan[1][2] \in Id,
           tx[s].plan[1][1] # tx[s].plan[1][2], tx[s].plan[1][1] \notin tx[s].w.del,
           IdentifiersMoved(tx[s], new)
    PROVE  IdentifiersFollowed(s)'
<1>a. PICK w \in Id, d \in Id :
        w = tx[s].plan[1][1] /\ d = tx[s].plan[1][2] /\ w # d /\ w \notin tx[s].w.del
  OBVIOUS
<1> DEFINE dropped == {x \in tx[s].idents : x[1] = d}
<1>0. /\ w \in Id /\ d \in Id /\ w # d /\ w \notin tx[s].w.del
      /\ \E m \in new.merged : m.winner = w /\ new.merged = tx[s].merged \cup {m}
      /\ new.w.row = tx[s].w.row /\ new.w.del = tx[s].w.del \cup {d}
      /\ new.w.unident = tx[s].w.unident \cup dropped
      /\ new.w.ident = (tx[s].w.ident \cup MovedIdentifiers(tx[s].idents, w, d)) \ dropped
  BY <1>a DEF IdentifiersMoved
<1>1. tx'[s] = new /\ \A q \in Session : q # s => tx'[q] = tx[q]
  BY OnlyOne DEF StoreInv
<1>2. \A i \in Id : Dead(i) => Dead(i)'
  BY <1>0, <1>1 DEF Dead, NoRow
<1>3. IdentifiersFollowed(s)
  BY DEF StoreInv
<1>4. tx[s].idents \subseteq Id \X Identifier
  BY SessionsTyped DEF StoreInv, Transaction
<1>5. Survivors(s)' = (Survivors(s) \cup {w}) \ {d}
  BY <1>0, <1>1 DEF Survivors
<1>6. Survivors(s) \subseteq Id
  BY SessionsTyped DEF StoreInv, Survivors, Transaction, Merging
<1>7. ASSUME NEW i \in Id, NEW x, i # d, KeptFor(s, i, x) PROVE KeptFor(s, i, x)'
  <2>1. <<i, x>> \notin dropped
    BY <1>7
  <2> QED
    BY <1>0, <1>1, <1>2, <1>7, <2>1 DEF KeptFor
<1>8. ASSUME NEW x \in dropped PROVE KeptFor(s, w, x[2])'
  <2>1. x \in tx[s].idents /\ x[1] = d
    OBVIOUS
  <2>2. CASE <<w, x[2]>> \in tx[s].idents
    <3>1. KeptFor(s, w, x[2])
      BY <1>3, <2>2 DEF IdentifiersFollowed
    <3> QED
      BY <1>0, <1>7, <3>1
  <2>3. CASE <<w, x[2]>> \notin tx[s].idents
    <3>1. <<w, x[2]>> \in MovedIdentifiers(tx[s].idents, w, d)
      BY <2>1, <2>3 DEF MovedIdentifiers
    <3>2. <<w, x[2]>> \in new.w.ident
      BY <1>0, <3>1
    <3> QED
      BY <1>1, <3>2 DEF KeptFor
  <2> QED
    BY <2>2, <2>3
<1>9. \A x \in new.w.unident : x[1] \in new.w.del
  BY <1>0, <1>3 DEF IdentifiersFollowed
<1>10. ASSUME NEW x \in new.w.unident
       PROVE  \E i \in Survivors(s)' : KeptFor(s, i, x[2])'
  <2>1. CASE x \in dropped
    BY <1>0, <1>5, <1>8, <2>1
  <2>2. CASE x \in tx[s].w.unident
    <3>1. PICK i \in Survivors(s) :
            IF i = d THEN <<i, x[2]>> \in tx[s].idents ELSE KeptFor(s, i, x[2])
      BY <1>a, <1>3, <2>2 DEF IdentifiersFollowed
    <3>2. CASE i = d
      <4>1. <<d, x[2]>> \in dropped
        BY <3>1, <3>2
      <4>2. KeptFor(s, w, <<d, x[2]>>[2])'
        BY <1>8, <4>1
      <4>3. KeptFor(s, w, x[2])'
        BY <4>2
      <4> QED
        BY <1>0, <1>5, <4>3
    <3>3. CASE i # d
      BY <1>5, <1>6, <1>7, <3>1, <3>3
    <3> QED
      BY <3>2, <3>3
  <2> QED
    BY <1>0, <2>1, <2>2
<1> QED
  BY <1>1, <1>9, <1>10 DEF IdentifiersFollowed

LEMMA DeleteKeeps ==
    ASSUME StoreInv, NEW s \in Session, Delete(s)
    PROVE  StoreInv'
<1> DEFINE w == tx[s].plan[1][1]
           d == tx[s].plan[1][2]
           mine == tx[s].w
           moved == MovedLinks(tx[s].links, w, d)
           kept == MovedIdentifiers(tx[s].idents, w, d)
           gone == {l \in tx[s].links : l[2] = d}
           dropped == {x \in tx[s].idents : x[1] = d}
           rest == Tail(tx[s].plan)
           pc == IF Len(tx[s].plan) = 1 THEN "commit" ELSE "merge"
           m0 == [winner |-> w, dup |-> d, saw |-> tx[s].looked]
           merged == tx[s].merged \cup {m0}
           link == (mine.link \cup moved) \ gone
           unlink == mine.unlink \cup gone
           ident == (mine.ident \cup kept) \ dropped
           unident == mine.unident \cup dropped
           del == mine.del \cup {d}
           written == [mine EXCEPT !.link = link, !.unlink = unlink, !.ident = ident,
                                   !.unident = unident, !.del = del]
           new == [tx[s] EXCEPT !.plan = rest, !.pc = pc, !.links = {}, !.idents = {},
                                !.looked = {}, !.merged = merged, !.w = written]
           refused == \/ {w, d} \ Live(View(s)) # {}
                      \/ moved \cap View(s).link # {}
                      \/ kept \cap View(s).ident # {}
                      \/ \E l \in gone \ View(s).link : <<l[1], w>> \in moved
<1>1. /\ tx[s].pc = "delete" /\ ~RowLocked(s, d) /\ db' = db /\ nextId' = nextId
  BY DEF Delete
<1>2. CASE refused
  <2>1. Refuse(s)
    BY <1>2 DEF Delete
  <2> QED
    BY <1>1, <2>1, RefuseKeeps
<1>3. CASE ~refused
  <2>1. Becomes(s, new)
    <3>1. Becomes(s, [tx[s] EXCEPT
                  !.plan = Tail(@), !.pc = pc, !.links = {}, !.idents = {}, !.looked = {},
                  !.merged = @ \cup {m0}, !.w = written])
      BY <1>3 DEF Delete
    <3> QED
      BY <3>1
  <2>2. tx[s] \in Transaction /\ mine \in Writes
    BY SessionsTyped DEF StoreInv
  <2>3. /\ w \in Id /\ d \in Id /\ w # d /\ tx[s].kind \in MergeKinds
        /\ rest \in Seq(Id \X Id) /\ Distinct(rest)
        /\ Len(tx[s].plan) # 1 => rest # <<>>
    BY <1>1, NextPair
  <2>4. w \in Live(View(s)) /\ d \in Live(View(s))
    BY <1>3
  <2>5. w \notin mine.del /\ d \notin mine.del /\ d < nextId
    BY <2>4, LiveView
  <2>6. pc \in PC /\ pc # "delete" /\ (pc = "commit" \/ (pc = "merge" /\ rest # <<>>))
    BY <2>3 DEF PC
  <2>7. tx[s].links \subseteq Scholar \X Id /\ tx[s].idents \subseteq Id \X Identifier
        /\ tx[s].looked \subseteq Scholar \X Id /\ tx[s].merged \subseteq Merging
    BY <2>2 DEF Transaction
  <2>8. moved \subseteq Scholar \X Id /\ kept \subseteq Id \X Identifier
    <3> HIDE DEF w, d
    <3> QED
      BY <2>3, <2>7 DEF MovedLinks, MovedIdentifiers
  <2>9. m0 \in Merging /\ m0.winner = w
    BY <2>3, <2>7 DEF Merging
  <2> HIDE DEF m0
  <2>10. /\ link \subseteq Scholar \X Id /\ unlink \subseteq Scholar \X Id
         /\ ident \subseteq Id \X Identifier /\ unident \subseteq Id \X Identifier
         /\ del \subseteq Id /\ merged \subseteq Merging
    <3> HIDE DEF w, d, moved, kept
    <3> QED
      BY <2>2, <2>3, <2>7, <2>8, <2>9 DEF Writes
  <2>11. /\ written \in Writes /\ written.row = mine.row /\ written.link = link
         /\ written.unlink = unlink /\ written.ident = ident /\ written.unident = unident
         /\ written.del = del
    <3> HIDE DEF mine, link, unlink, ident, unident, del
    <3> QED
      BY <2>2, <2>10 DEF Writes
  <2> HIDE DEF written
  <2>12. new \in Transaction
    <3> HIDE DEF rest, pc, merged
    <3> QED
      BY <2>2, <2>3, <2>6, <2>10, <2>11 DEF Transaction
  <2>13. /\ new.plan = rest /\ new.pc = pc /\ new.kind = tx[s].kind
         /\ new.merged = merged /\ new.w = written
    <3> HIDE DEF rest, pc, merged
    <3> QED
      BY <2>2 DEF Transaction
  <2> HIDE DEF new
  <2>14. Shaped(s, tx[s]) /\ LinksFollowed(tx[s])
    BY DEF StoreInv
  <2>15. Shaped(s, new)
    <3> HIDE DEF rest, pc
    <3> QED
      BY <2>3, <2>6, <2>13, <2>14 DEF Shaped, StoreKinds, MergeKinds
  <2>16. LinksFollowed(new)
    <3>1. LinksMoved(tx[s], new)
      BY <2>11, <2>13 DEF LinksMoved, m0
    <3> QED
      BY <1>1, <2>2, <2>3, <2>5, <2>6, <2>12, <2>13, <2>14, <3>1, MovedLinksFollowed
  <2>17. IdentifiersFollowed(s)'
    <3>1. IdentifiersMoved(tx[s], new)
      BY <2>9, <2>11, <2>13 DEF IdentifiersMoved
    <3> QED
      BY <1>1, <2>1, <2>3, <2>5, <2>6, <2>12, <2>13, <3>1, MovedIdentifiersFollowed
  <2>18. /\ new.w.row = tx[s].w.row
         /\ \A i \in new.w.del : i \in tx[s].w.del \/ (i < nextId /\ ~RowLocked(s, i))
    BY <1>1, <2>5, <2>11, <2>13
  <2> QED
    BY <1>1, <2>1, <2>12, <2>15, <2>16, <2>17, <2>18, SameRowsKeep
<1> QED
  BY <1>2, <1>3

(***************************************************************************)
(* Link repair.                                                            *)
(***************************************************************************)

LEMMA BeginRepairKeeps ==
    ASSUME StoreInv, NEW s \in Session, NEW sc \in Scholar, NEW gc \in BOOLEAN,
           BeginRepair(s, sc, gc)
    PROVE  StoreInv'
<1> DEFINE gone == RepairedLinks(db, sc)
           pc == IF gc THEN "gc" ELSE "commit"
           orphans == IF gc THEN Orphans([db EXCEPT !.link = @ \ gone]) ELSE {}
           new == [Idle EXCEPT !.kind = "repair", !.scholar = sc, !.w.unlink = gone,
                               !.pc = pc, !.looked = db.link, !.orphans = orphans]
<1>1. Becomes(s, new) /\ db' = db /\ nextId' = nextId /\ "repair" \in Kinds[s]
  BY DEF BeginRepair
<1>2. db \in Database
  BY DEF StoreInv, StoreTyped
<1>3. /\ gone \subseteq Scholar \X Id /\ db.link \subseteq Scholar \X Id
      /\ \A l \in gone : l[1] = sc
      /\ \A l \in db.link : l[1] # sc => l \notin gone
      /\ \A l \in db.link : l \notin gone => l[1] # sc
  BY <1>2 DEF Database, RepairedLinks
<1>4. orphans \subseteq Id /\ \A l \in db.link : l[2] \in orphans => l[1] = sc
  <2> DEFINE left == [db EXCEPT !.link = @ \ gone]
  <2>1. left.link = db.link \ gone
    BY <1>2 DEF Database
  <2> HIDE DEF left, gone
  <2>2. Orphans(left) \subseteq Id /\ \A l \in db.link \ gone : l[2] \notin Orphans(left)
    BY <2>1 DEF Orphans, Live
  <2> QED
    BY <1>3, <2>2 DEF left
<1>5. pc \in PC /\ pc # "delete" /\ pc \in {"gc", "commit"}
  BY DEF PC
<1> HIDE DEF gone, orphans, pc
<1>6. Idle \in Transaction /\ Idle.w \in Writes
  BY IdleTyped DEF Transaction
<1>7. new \in Transaction
  BY <1>3, <1>4, <1>5, <1>6 DEF Transaction, Writes
<1>8. /\ new.kind = "repair" /\ new.scholar = sc /\ new.pc = pc /\ new.looked = db.link
      /\ new.orphans = orphans /\ new.plan = <<>> /\ new.merged = {}
      /\ new.w.row = <<>> /\ new.w.del = {} /\ new.w.unlink = gone /\ new.w.unident = {}
  BY DEF Idle, NoWrites
<1> HIDE DEF new
<1>9. Shaped(s, new)
  BY <1>1, <1>3, <1>4, <1>5, <1>8 DEF Shaped, StoreKinds, MergeKinds, Distinct
<1>10. LinksFollowed(new)
  BY <1>8 DEF LinksFollowed
<1>11. IdentifiersFollowed(s)'
  BY <1>1, <1>5, <1>8, NothingTaken DEF StoreInv
<1> QED
  BY <1>1, <1>7, <1>8, <1>9, <1>10, <1>11, SameRowsKeep

LEMMA DeleteOrphansKeeps ==
    ASSUME StoreInv, NEW s \in Session, DeleteOrphans(s)
    PROVE  StoreInv'
<1> DEFINE dead == tx[s].orphans \cap Live(db)
           new == [tx[s] EXCEPT !.w.del = dead, !.pc = "commit"]
<1>1. /\ tx[s].pc = "gc" /\ Becomes(s, new) /\ db' = db /\ nextId' = nextId
      /\ \A i \in tx[s].orphans : ~RowLocked(s, i)
  BY DEF DeleteOrphans
<1>2. tx[s] \in Transaction /\ tx[s].w \in Writes
  BY SessionsTyped DEF StoreInv
<1>3. dead \subseteq Id /\ dead \subseteq tx[s].orphans
  BY DEF Live
<1>4. \A i \in dead : i < nextId
  BY StoreAssumption DEF Live, Id, StoreInv, StoreTyped, IdsClaimed
<1>5. Shaped(s, tx[s])
  BY DEF StoreInv
<1>6. tx[s].kind = "repair" /\ tx[s].merged = {} /\ tx[s].w.unident = {}
  BY <1>1, <1>5 DEF Shaped, MergeKinds
<1> HIDE DEF dead
<1>7. new \in Transaction
  <2>1. "commit" \in PC
    BY DEF PC
  <2> QED
    BY <1>2, <1>3, <2>1 DEF Transaction, Writes
<1>8. /\ new.kind = "repair" /\ new.scholar = tx[s].scholar /\ new.pc = "commit"
      /\ new.looked = tx[s].looked /\ new.orphans = tx[s].orphans
      /\ new.plan = tx[s].plan /\ new.merged = {} /\ new.w.row = tx[s].w.row
      /\ new.w.del = dead /\ new.w.unlink = tx[s].w.unlink /\ new.w.unident = {}
  BY <1>2, <1>6 DEF Transaction, Writes
<1> HIDE DEF new
<1>9. Shaped(s, new)
  BY <1>3, <1>5, <1>6, <1>8 DEF Shaped, StoreKinds, MergeKinds
<1>10. LinksFollowed(new)
  BY <1>8 DEF LinksFollowed
<1>11. IdentifiersFollowed(s)'
  BY <1>1, <1>8, NothingTaken DEF StoreInv
<1>12. \A i \in new.w.del : i < nextId /\ ~RowLocked(s, i)
  BY <1>1, <1>3, <1>4, <1>8
<1> QED
  BY <1>1, <1>7, <1>8, <1>9, <1>10, <1>11, <1>12, SameRowsKeep

(***************************************************************************)
(* Commits.                                                                *)
(***************************************************************************)

\* Rows that go take no key from another.
LEMMA FewerRowsUnique ==
    ASSUME NEW pub \in [Id -> Row \cup {NoRow}], KeysUnique(pub),
           NEW few \in [Id -> Row \cup {NoRow}], \A i \in Id : few[i] = NoRow \/ few[i] = pub[i]
    PROVE  KeysUnique(few)
<1> SUFFICES ASSUME NEW i \in Id, NEW j \in Id, i # j, SameKey(few[i], few[j])
             PROVE  FALSE
  BY DEF KeysUnique
<1>1. few[j] # NoRow /\ SameKey(few[j], few[i])
  BY SameKeySymmetric DEF SameKey
<1>2. few[i] # NoRow
  BY <1>1 DEF SameKey
<1> QED
  BY <1>1, <1>2 DEF KeysUnique

\* What a commit makes of the rows of the others.
LEMMA CommitKeepsKeys ==
    ASSUME StoreInv, NEW s \in Session, Commit(s)
    PROVE  KeysApart'
<1> DEFINE pub == db.pub
           mine == Over(pub, tx[s].w.row)
           after == View(s).pub
<1>1. db' = View(s) /\ Becomes(s, Idle) /\ db'.pub = after
  BY DEF Commit
<1>2. tx'[s] = Idle /\ \A q \in Session : q # s => tx'[q] = tx[q]
  BY <1>1, OnlyOne DEF StoreInv
<1>3. \A i \in Id : after[i] = NoRow \/ after[i] = mine[i]
  BY ViewTyped DEF StoreInv
<1>4. pub \in [Id -> Row \cup {NoRow}] /\ after \in [Id -> Row \cup {NoRow}]
  BY ViewTyped DEF StoreInv, StoreTyped, Database
<1>5. mine \in [Id -> Row \cup {NoRow}]
  BY <1>4, SessionsTyped DEF Over, StoreInv
<1>6. KeysUnique(after)
  <2> HIDE DEF mine, after
  <2>1. KeysUnique(mine)
    BY DEF StoreInv, KeysApart, mine
  <2> QED
    BY <1>3, <1>4, <1>5, <2>1, FewerRowsUnique
<1> HIDE DEF after
<1>7. ASSUME NEW q \in Session, q # s PROVE KeysUnique(Over(after, tx[q].w.row))
  <2> DEFINE rows == tx[q].w.row
             whole == Over(after, rows)
  <2>1. KeysUnique(Over(pub, rows))
    BY DEF StoreInv, KeysApart
  <2>2. DOMAIN rows \subseteq Id /\ \A i \in DOMAIN rows : rows[i] \in Row
    BY SessionsTyped DEF StoreInv
  <2>3. RowsApart(rows, tx[s].w.row)
    BY <1>7 DEF StoreInv, KeysApart, Others
  <2> HIDE DEF rows
  <2>4. \A i \in Id : whole[i] = IF i \in DOMAIN rows THEN rows[i] ELSE after[i]
    BY DEF Over
  <2>5. \A i \in Id : whole[i] \in Row \cup {NoRow}
    BY <1>4, <2>2, <2>4
  <2>6. ASSUME NEW i \in DOMAIN rows, NEW j \in Id \ DOMAIN rows
        PROVE  ~SameKey(rows[i], after[j])
    <3>1. CASE after[j] = NoRow
      BY <3>1 DEF SameKey
    <3>2. CASE after[j] = mine[j] /\ j \in DOMAIN tx[s].w.row
      BY <2>3, <3>2 DEF RowsApart, Over
    <3>3. CASE after[j] = mine[j] /\ j \notin DOMAIN tx[s].w.row
      <4>1. after[j] = pub[j] /\ i \in Id /\ i # j
        BY <2>2, <2>6, <3>3 DEF Over
      <4>2. Over(pub, rows)[i] = rows[i] /\ Over(pub, rows)[j] = pub[j]
        BY <2>6, <4>1 DEF Over
      <4>3. ~SameKey(Over(pub, rows)[i], Over(pub, rows)[j])
        BY <2>1, <4>1 DEF KeysUnique
      <4> QED
        BY <4>1, <4>2, <4>3
    <3> QED
      BY <1>3, <3>1, <3>2, <3>3
  <2>7. ASSUME NEW i \in Id, NEW j \in Id, i # j PROVE ~SameKey(whole[i], whole[j])
    <3>1. CASE i \in DOMAIN rows /\ j \in DOMAIN rows
      <4>1. ~SameKey(Over(pub, rows)[i], Over(pub, rows)[j])
        BY <2>1, <2>7 DEF KeysUnique
      <4> QED
        BY <3>1, <4>1 DEF Over
    <3>2. CASE i \in DOMAIN rows /\ j \notin DOMAIN rows
      BY <2>4, <2>6, <3>2
    <3>3. CASE i \notin DOMAIN rows /\ j \in DOMAIN rows
      <4>1. ~SameKey(whole[j], whole[i])
        BY <2>4, <2>6, <3>3
      <4> QED
        BY <2>5, <4>1, SameKeySymmetric
    <3>4. CASE i \notin DOMAIN rows /\ j \notin DOMAIN rows
      <4>1. ~SameKey(after[i], after[j])
        BY <1>6, <2>7 DEF KeysUnique
      <4> QED
        BY <2>4, <3>4, <4>1
    <3> QED
      BY <3>1, <3>2, <3>3, <3>4
  <2> QED
    BY <2>7 DEF KeysUnique, rows
<1>8. KeysUnique(db.pub)'
  BY <1>1, <1>6 DEF KeysUnique, SameKey, NoRow
<1>9. ASSUME NEW q \in Session PROVE KeysUnique(Over(db.pub, tx[q].w.row))'
  <2>1. CASE q = s
    <3>1. \A i \in Id : Over(db.pub, tx[q].w.row)'[i] = after[i]
      BY <1>1, <1>2, <2>1, IdleTyped, NoRows DEF Over
    <3> QED
      BY <1>6, <3>1 DEF KeysUnique, SameKey, NoRow
  <2>2. CASE q # s
    <3>1. Over(db.pub, tx[q].w.row)' = Over(after, tx[q].w.row)
      BY <1>1, <1>2, <2>2 DEF Over
    <3>2. KeysUnique(Over(after, tx[q].w.row))
      BY <1>7, <2>2
    <3> QED
      BY <3>1, <3>2 DEF KeysUnique, SameKey, NoRow
  <2> QED
    BY <2>1, <2>2
<1>10. ASSUME NEW q \in Session, NEW t \in Others(q)
       PROVE  RowsApart(tx'[q].w.row, tx'[t].w.row)
  <2>1. t \in Session /\ t # q
    BY DEF Others
  <2>2. CASE q = s \/ t = s
    BY <1>2, <2>2, IdleTyped, NoRows DEF RowsApart
  <2>3. CASE q # s /\ t # s
    BY <1>2, <2>1, <2>3 DEF StoreInv, KeysApart
  <2> QED
    BY <2>2, <2>3
<1> QED
  BY <1>8, <1>9, <1>10 DEF KeysApart, Others, RowsApart, SameKey, NoRow

\* What a commit takes from the identifiers belongs to publications that are
\* gone for good.
LEMMA CommitFollowed ==
    ASSUME StoreInv, NEW s \in Session, Commit(s), NEW q \in Session, q # s
    PROVE  IdentifiersFollowed(q)'
<1>1. db' = View(s) /\ Becomes(s, Idle) /\ nextId' = nextId
  BY DEF Commit
<1>2. tx'[s] = Idle /\ \A t \in Session : t # s => tx'[t] = tx[t]
  BY <1>1, OnlyOne DEF StoreInv
<1>3. \A i \in Id : View(s).pub[i] = IF i \in tx[s].w.del THEN NoRow
                                     ELSE Over(db.pub, tx[s].w.row)[i]
  BY ViewTyped DEF StoreInv
<1>4. ASSUME NEW i \in Id, Dead(i) PROVE Dead(i)'
  <2>1. i \notin DOMAIN tx[s].w.row /\ db.pub[i] = NoRow
    BY <1>4 DEF Dead
  <2>2. View(s).pub[i] = NoRow
    BY <1>3, <2>1 DEF Over
  <2>3. \A t \in Session : i \notin DOMAIN tx'[t].w.row
    BY <1>2, <1>4, IdleTyped, NoRows DEF Dead
  <2> QED
    BY <1>1, <1>4, <2>2, <2>3 DEF Dead, NoRow
<1>5. ASSUME NEW i \in Id, i \in tx[s].w.del PROVE Dead(i)'
  <2>1. View(s).pub[i] = NoRow
    BY <1>3, <1>5
  <2>2. i < nextId
    <3>1. ~(i >= nextId)
      BY <1>5 DEF StoreInv, IdsClaimed
    <3> QED
      BY <3>1, StoreAssumption DEF StoreInv, StoreTyped, Id
  <2>3. ASSUME NEW t \in Session PROVE i \notin DOMAIN tx'[t].w.row
    <3>1. CASE t = s
      BY <1>2, <3>1, IdleTyped, NoRows
    <3>2. CASE t # s
      BY <1>2, <1>5, <3>2 DEF StoreInv, IdsClaimed, Others
    <3> QED
      BY <3>1, <3>2
  <2> QED
    BY <1>1, <2>1, <2>2, <2>3 DEF Dead, NoRow
<1>6. ASSUME NEW i \in Id, NEW x, KeptFor(q, i, x) PROVE KeptFor(q, i, x)'
  <2>1. CASE <<i, x>> \in tx[q].w.ident
    BY <1>2, <2>1 DEF KeptFor
  <2>2. CASE Dead(i)
    BY <1>4, <2>2 DEF KeptFor
  <2>3. CASE <<i, x>> \in db.ident
    <3>1. CASE i \in tx[s].w.del
      BY <1>5, <3>1 DEF KeptFor
    <3>2. CASE i \notin tx[s].w.del
      <4>1. <<i, x>> \notin tx[s].w.unident
        BY <3>2 DEF StoreInv, IdentifiersFollowed
      <4>2. <<i, x>> \in View(s).ident
        BY <2>3, <3>2, <4>1, ViewTyped DEF StoreInv
      <4> QED
        BY <1>1, <4>2 DEF KeptFor
    <3> QED
      BY <3>1, <3>2
  <2> QED
    BY <1>6, <2>1, <2>2, <2>3 DEF KeptFor
<1>7. tx'[q] = tx[q]
  BY <1>2
<1>8. Survivors(q)' = Survivors(q) /\ Survivors(q) \subseteq Id
      /\ \A x \in tx[q].idents : x[1] \in Id
  BY <1>7, SessionsTyped DEF StoreInv, Survivors, Transaction, Merging
<1>9. IdentifiersFollowed(q)
  BY DEF StoreInv
<1> QED
  BY <1>6, <1>7, <1>8, <1>9 DEF IdentifiersFollowed

LEMMA CommitKeeps ==
    ASSUME StoreInv, NEW s \in Session, Commit(s)
    PROVE  StoreInv'
<1>1. db' = View(s) /\ Becomes(s, Idle) /\ nextId' = nextId
  BY DEF Commit
<1>2. tx'[s] = Idle /\ \A t \in Session : t # s => tx'[t] = tx[t]
  BY <1>1, OnlyOne DEF StoreInv
<1>3. StoreTyped'
  <2>1. tx' \in [Session -> Transaction]
    BY <1>1, IdleTyped DEF Becomes, StoreInv, StoreTyped
  <2>2. View(s) \in Database
    BY ViewTyped DEF StoreInv
  <2> QED
    BY <1>1, <2>1, <2>2 DEF StoreInv, StoreTyped
<1>4. KeysApart'
  BY CommitKeepsKeys
<1>5. IdsClaimed'
  <2> USE DEF StoreInv, IdsClaimed
  <2>1. ASSUME NEW i \in Id, i >= nextId'
        PROVE  /\ db'.pub[i] = NoRow
               /\ \A q \in Session : i \notin DOMAIN tx'[q].w.row \cup tx'[q].w.del
    <3>1. db.pub[i] = NoRow /\ \A q \in Session : i \notin DOMAIN tx[q].w.row \cup tx[q].w.del
      BY <1>1, <2>1
    <3>2. View(s).pub[i] = NoRow
      BY <3>1, ViewTyped DEF Over
    <3>3. i \notin DOMAIN Idle.w.row \cup Idle.w.del
      BY IdleTyped, NoRows
    <3> QED
      BY <1>1, <1>2, <3>1, <3>2, <3>3
  <2>2. ASSUME NEW q \in Session, NEW t \in Others(q)
        PROVE  DOMAIN tx'[q].w.row \cap tx'[t].w.del = {}
    <3>1. t \in Session /\ DOMAIN tx[q].w.row \cap tx[t].w.del = {}
      BY DEF Others
    <3>2. DOMAIN Idle.w.row = {} /\ Idle.w.del = {}
      BY IdleTyped, NoRows
    <3> QED
      BY <1>2, <3>1, <3>2
  <2> QED
    BY <2>1, <2>2 DEF Others, NoRow
<1>6. ASSUME NEW q \in Session
      PROVE  (Shaped(q, tx[q]) /\ LinksFollowed(tx[q]) /\ IdentifiersFollowed(q))'
  <2>1. CASE q = s
    <3>1. Shaped(q, tx[q])'
      BY <1>2, <2>1, IdleTyped DEF Shaped, Distinct, Idle, NoWrites, NoRow
    <3>2. LinksFollowed(tx[q])'
      BY <1>2, <2>1, IdleTyped DEF LinksFollowed
    <3>3. Idle.w.unident = {} /\ Idle.pc # "delete"
      BY DEF Idle, NoWrites
    <3>4. IdentifiersFollowed(q)'
      BY <1>1, <2>1, <3>3, NothingTaken DEF StoreInv
    <3> QED
      BY <3>1, <3>2, <3>4
  <2>2. CASE q # s
    <3>1. tx'[q] = tx[q] /\ Shaped(q, tx[q]) /\ LinksFollowed(tx[q])
      BY <1>2, <2>2 DEF StoreInv
    <3>2. Shaped(q, tx[q])'
      BY <3>1 DEF Shaped, Distinct, Idle, NoWrites, NoRow
    <3>3. LinksFollowed(tx[q])'
      BY <3>1 DEF LinksFollowed
    <3>4. IdentifiersFollowed(q)'
      BY <2>2, CommitFollowed
    <3> QED
      BY <3>2, <3>3, <3>4
  <2> QED
    BY <2>1, <2>2
<1> QED
  BY <1>3, <1>4, <1>5, <1>6 DEF StoreInv

(***************************************************************************)
(* The invariant, and what follows from it.                                *)
(***************************************************************************)

LEMMA StoreInit ==
    ASSUME Init
    PROVE  StoreInv
<1> USE DEF Init
<1>1. \A s \in Session : tx[s] = Idle
  OBVIOUS
<1>2. StoreTyped
  <2>1. db \in Database
    BY DEF Database
  <2>2. nextId \in 1..(MaxId + 1)
    BY StoreAssumption
  <2> QED
    BY <2>1, <2>2, IdleTyped DEF StoreTyped
<1>3. \A i \in Id : db.pub[i] = NoRow
  OBVIOUS
<1>4. DOMAIN Idle.w.row = {} /\ Idle.w.del = {} /\ Idle.w.unident = {} /\ Idle.pc # "delete"
  BY IdleTyped, NoRows DEF Idle, NoWrites
<1>5. KeysApart
  BY <1>1, <1>3, <1>4 DEF KeysApart, KeysUnique, SameKey, Over, RowsApart, Others
<1>6. IdsClaimed
  BY <1>1, <1>3, <1>4 DEF IdsClaimed, Others
<1>7. \A s \in Session : IdentifiersFollowed(s)
  BY <1>1, <1>4 DEF IdentifiersFollowed
<1> QED
  BY <1>1, <1>2, <1>5, <1>6, <1>7, IdleTyped DEF StoreInv

LEMMA StoreStep ==
    ASSUME StoreInv, [Next]_vars
    PROVE  StoreInv'
<1>1. CASE UNCHANGED vars
  <2>1. db' = db /\ nextId' = nextId /\ tx' = tx
    BY <1>1 DEF vars
  <2>2. StoreTyped' /\ IdsClaimed'
    BY <2>1 DEF StoreInv, StoreTyped, IdsClaimed, Others, NoRow
  <2>3. KeysApart'
    <3>1. KeysUnique(db.pub)'
      BY <2>1 DEF StoreInv, KeysApart, KeysUnique, SameKey, NoRow
    <3>2. ASSUME NEW s \in Session PROVE KeysUnique(Over(db.pub, tx[s].w.row))'
      <4>1. KeysUnique(Over(db.pub, tx[s].w.row))
        BY DEF StoreInv, KeysApart
      <4>2. Over(db.pub, tx[s].w.row)' = Over(db.pub, tx[s].w.row)
        BY <2>1 DEF Over
      <4> QED
        BY <4>1, <4>2 DEF KeysUnique, SameKey, NoRow
    <3>3. ASSUME NEW s \in Session, NEW t \in Others(s)
          PROVE  RowsApart(tx[s].w.row, tx[t].w.row)'
      BY <2>1 DEF StoreInv, KeysApart, RowsApart, SameKey, NoRow
    <3> QED
      BY <3>1, <3>2, <3>3 DEF KeysApart, Others
  <2>4. ASSUME NEW s \in Session
        PROVE  (Shaped(s, tx[s]) /\ LinksFollowed(tx[s]) /\ IdentifiersFollowed(s))'
    <3>1. Shaped(s, tx[s]) /\ LinksFollowed(tx[s]) /\ IdentifiersFollowed(s)
      BY DEF StoreInv
    <3>2. Shaped(s, tx[s])'
      BY <2>1, <3>1 DEF Shaped, Distinct, Idle, NoWrites, NoRow
    <3>3. LinksFollowed(tx[s])'
      BY <2>1, <3>1 DEF LinksFollowed
    <3>4. IdentifiersFollowed(s)'
      BY <2>1, <3>1 DEF IdentifiersFollowed, Survivors, KeptFor, Dead, NoRow
    <3> QED
      BY <3>2, <3>3, <3>4
  <2> QED
    BY <2>2, <2>3, <2>4 DEF StoreInv
<1>2. CASE Next
  <2> SUFFICES ASSUME NEW s \in Session,
        \/ \E kind \in {"page", "import"}, sc \in Own[s], page \in Page :
                BeginStore(s, kind, sc, page)
        \/ Resolve(s) \/ Create(s) \/ (\E touch \in BOOLEAN : Update(s, touch)) \/ Link(s)
        \/ BeginSweep(s)
        \/ \E i \in Id, x \in Identifier : DiscoverIdentifier(s, i, x)
        \/ ReadPairs(s) \/ SkipMerged(s) \/ (\E i \in Id : Merge(s, i)) \/ Delete(s)
        \/ \E i \in Id : BeginNearDuplicates(s, i)
        \/ \E sc \in Scholar, gc \in BOOLEAN : BeginRepair(s, sc, gc)
        \/ DeleteOrphans(s)
        \/ Commit(s) \/ Fail(s)
      PROVE StoreInv'
    BY <1>2 DEF Next
  <2>1. CASE \E kind \in {"page", "import"}, sc \in Own[s], page \in Page :
                BeginStore(s, kind, sc, page)
    BY <2>1, BeginStoreKeeps
  <2>2. CASE Resolve(s)
    BY <2>2, ResolveKeeps
  <2>3. CASE Create(s)
    BY <2>3, CreateKeeps
  <2>4. CASE \E touch \in BOOLEAN : Update(s, touch)
    BY <2>4, UpdateKeepsInv
  <2>5. CASE Link(s)
    BY <2>5, LinkKeeps
  <2>6. CASE BeginSweep(s)
    BY <2>6, BeginSweepKeeps
  <2>7. CASE \E i \in Id, x \in Identifier : DiscoverIdentifier(s, i, x)
    BY <2>7, DiscoverKeeps
  <2>8. CASE ReadPairs(s)
    BY <2>8, ReadPairsKeeps
  <2>9. CASE SkipMerged(s)
    BY <2>9, SkipMergedKeeps
  <2>10. CASE \E i \in Id : Merge(s, i)
    BY <2>10, MergeKeeps
  <2>11. CASE Delete(s)
    BY <2>11, DeleteKeeps
  <2>12. CASE \E i \in Id : BeginNearDuplicates(s, i)
    BY <2>12, BeginNearDuplicatesKeeps
  <2>13. CASE \E sc \in Scholar, gc \in BOOLEAN : BeginRepair(s, sc, gc)
    BY <2>13, BeginRepairKeeps
  <2>14. CASE DeleteOrphans(s)
    BY <2>14, DeleteOrphansKeeps
  <2>15. CASE Commit(s)
    BY <2>15, CommitKeeps
  <2>16. CASE Fail(s)
    <3>1. Refuse(s) /\ db' = db /\ nextId' = nextId
      BY <2>16 DEF Fail, Refuse
    <3> QED
      BY <3>1, RefuseKeeps
  <2> QED
    BY <2>1, <2>2, <2>3, <2>4, <2>5, <2>6, <2>7, <2>8, <2>9, <2>10, <2>11, <2>12, <2>13,
       <2>14, <2>15, <2>16
<1> QED
  BY <1>1, <1>2

LEMMA StoreInvariant == Spec => []StoreInv
<1>1. Init => StoreInv
  BY StoreInit
<1>2. StoreInv /\ [Next]_vars => StoreInv'
  BY StoreStep
<1> QED
  BY <1>1, <1>2, PTL DEF Spec

\* Publications, links and identifiers keep their types, and so do the
\* transactions, which run the kinds of work that their sessions may do.
THEOREM StoreTypeCorrect == Spec => []TypeOK
<1>1. ASSUME StoreInv PROVE TypeOK
  <2>1. ASSUME NEW s \in Session
        PROVE  /\ tx[s].pc \in PC
               /\ tx[s].kind \in Kinds[s] \cup {"none"}
               /\ tx[s].pc = "idle" => tx[s] = Idle
               /\ DOMAIN tx[s].w.row \subseteq Id
               /\ tx[s].w.del \subseteq Id
    <3>1. tx[s] \in Transaction /\ tx[s].w \in Writes /\ DOMAIN tx[s].w.row \subseteq Id
      BY <1>1, SessionsTyped DEF StoreInv
    <3>2. Shaped(s, tx[s])
      BY <1>1 DEF StoreInv
    <3> QED
      BY <3>1, <3>2 DEF Transaction, Writes, Shaped
  <2> QED
    BY <1>1, <2>1 DEF TypeOK, StoreInv, StoreTyped, Database
<1> QED
  BY <1>1, StoreInvariant, PTL

\* Whatever sessions, merges and repairs have made of the publications, a
\* candidate that is stored breaks no unique index and is found again as the
\* publication it was stored as (publication_upsert.py, resolve_publication).
THEOREM StoredCandidatesAreFound == Spec => []StoredIsFound
<1>1. StoreInv => StoredIsFound
  BY FoundAgain DEF StoreInv, KeysApart
<1> QED
  BY <1>1, StoreInvariant, PTL

LEMMA OnlyCommitsChange ==
    ASSUME StoreInv, [Next]_vars, db' # db
    PROVE  \E s \in Session : Commit(s) /\ Commits(s)
<1>1. Next
  BY DEF vars
<1>2. PICK s \in Session : Commit(s)
  <2> SUFFICES ASSUME \A s \in Session : ~Commit(s) PROVE db' = db
    OBVIOUS
  <2>1. ASSUME NEW s \in Session
        PROVE  /\ \A kind, sc, page : BeginStore(s, kind, sc, page) => db' = db
               /\ Resolve(s) \/ Create(s) \/ Link(s) => db' = db
               /\ \A touch : Update(s, touch) => db' = db
    BY DEF BeginStore, Resolve, Create, Link, Update
  <2>2. ASSUME NEW s \in Session
        PROVE  /\ BeginSweep(s) \/ ReadPairs(s) \/ SkipMerged(s) => db' = db
               /\ \A i, x : DiscoverIdentifier(s, i, x) => db' = db
               /\ \A i : BeginNearDuplicates(s, i) => db' = db
    BY DEF BeginSweep, ReadPairs, SkipMerged, DiscoverIdentifier, BeginNearDuplicates
  <2>3. ASSUME NEW s \in Session
        PROVE  /\ \A i : Merge(s, i) => db' = db
               /\ Delete(s) => db' = db
               /\ \A sc, gc : BeginRepair(s, sc, gc) => db' = db
               /\ DeleteOrphans(s) \/ Fail(s) => db' = db
    BY DEF Merge, Delete, BeginRepair, DeleteOrphans, Fail
  <2> QED
    BY <1>1, <2>1, <2>2, <2>3 DEF Next
<1>3. tx'[s] = Idle
  BY <1>2, OnlyOne DEF Commit, StoreInv
<1> QED
  BY <1>2, <1>3 DEF Commit, Commits

\* A scholar loses a link only to a repair that was asked for that scholar, or
\* to a merge that left the scholar linked to the winner, found it so, or moved
\* that link on in its turn, along chains of merges of any length
\* (dedup.py:148-169, dbops/application.py:154-199).
THEOREM LinksFollowTheMerges == Spec => LinksSurvive
<1>1. ASSUME StoreInv, [Next]_vars, NEW l \in db.link \ db'.link
      PROVE  \E s \in Session :
                Commits(s) /\ \A k \in {l} \cup tx[s].w.unlink : Honoured(s, k)
  <2>1. db' # db
    BY <1>1
  <2>2. PICK s \in Session : Commit(s) /\ Commits(s)
    BY <1>1, <2>1, OnlyCommitsChange
  <2>3. db' = View(s)
    BY <2>2 DEF Commit
  <2>4. Shaped(s, tx[s]) /\ LinksFollowed(tx[s])
    BY <1>1 DEF StoreInv
  <2>5. l \in tx[s].w.unlink \/ l[2] \in tx[s].w.del
    BY <1>1, <2>3, ViewTyped DEF StoreInv
  <2>6. CASE tx[s].kind = "repair"
    <3>1. \A k \in tx[s].w.unlink : Honoured(s, k)
      BY <2>4, <2>6 DEF Shaped, Honoured
    <3>2. Honoured(s, l)
      BY <2>4, <2>5, <2>6 DEF Shaped, Honoured
    <3> QED
      BY <2>2, <3>1, <3>2
  <2>7. CASE tx[s].kind # "repair"
    <3>1. ASSUME NEW k \in tx[s].w.unlink PROVE Honoured(s, k)
      <4>1. PICK m \in tx[s].merged :
              /\ m.dup = k[2]
              /\ \/ <<k[1], m.winner>> \in m.saw \cup tx[s].w.unlink
                 \/ <<k[1], m.winner>> \in tx[s].w.link /\ m.winner \notin tx[s].w.del
        BY <2>4, <2>7 DEF LinksFollowed
      <4>2. <<k[1], m.winner>> \in tx[s].w.link /\ m.winner \notin tx[s].w.del
              => <<k[1], m.winner>> \in db'.link
        BY <1>1, <2>3, ViewTyped DEF StoreInv
      <4> QED
        BY <4>1, <4>2 DEF Honoured
    <3>2. Honoured(s, l)
      <4>1. CASE l \in tx[s].w.unlink
        BY <3>1, <4>1
      <4>2. CASE l \notin tx[s].w.unlink
        <5>1. PICK m \in tx[s].merged : m.dup = l[2]
          BY <2>4, <2>5, <2>7, <4>2 DEF LinksFollowed
        <5>2. l \notin m.saw
          BY <2>4, <2>7, <4>2, <5>1 DEF LinksFollowed
        <5> QED
          BY <5>1, <5>2 DEF Honoured
      <4> QED
        BY <4>1, <4>2
    <3> QED
      BY <2>2, <3>1, <3>2
  <2> QED
    BY <2>6, <2>7
<1>2. StoreInv /\ [Next]_vars =>
        [\A l \in db.link \ db'.link : \E s \in Session :
            Commits(s) /\ \A k \in {l} \cup tx[s].w.unlink : Honoured(s, k)]_vars
  BY <1>1
<1> QED
  BY <1>2, StoreInvariant, PTL DEF Spec, LinksSurvive

\* An identifier is lost only with an orphan, or is a survivor's after the
\* merge, unless that survivor was deleted as an orphan meanwhile; or it was
\* committed after the merge had read those of the duplicate (dedup.py:172-221).
THEOREM IdentifiersFollowTheMerges == Spec => IdentifiersSurvive
<1>1. ASSUME StoreInv, [Next]_vars, NEW x \in db.ident \ db'.ident
      PROVE  \E s \in Session :
                /\ Commits(s)
                /\ \/ tx[s].kind = "repair" /\ x[1] \in tx[s].orphans
                   \/ \E w \in Survivors(s) : <<w, x[2]>> \in db'.ident \/ db.pub[w] = NoRow
                   \/ x[1] \in tx[s].w.del /\ x \notin tx[s].w.unident
  <2>1. db' # db
    BY <1>1
  <2>2. PICK s \in Session : Commit(s) /\ Commits(s)
    BY <1>1, <2>1, OnlyCommitsChange
  <2>3. db' = View(s)
    BY <2>2 DEF Commit
  <2>4. x \in tx[s].w.unident \/ x[1] \in tx[s].w.del
    BY <1>1, <2>3, ViewTyped DEF StoreInv
  <2>5. CASE x \notin tx[s].w.unident
    BY <2>2, <2>4, <2>5
  <2>6. CASE x \in tx[s].w.unident
    <3>1. IdentifiersFollowed(s) /\ tx[s].pc = "commit"
      BY <1>1, <2>2 DEF StoreInv, Commit
    <3>2. PICK w \in Survivors(s) : KeptFor(s, w, x[2])
      BY <2>6, <3>1 DEF IdentifiersFollowed
    <3>3. w \notin tx[s].w.del
      BY DEF Survivors
    <3>4. <<w, x[2]>> \notin tx[s].w.unident
      BY <3>1, <3>3 DEF IdentifiersFollowed
    <3>5. <<w, x[2]>> \in tx[s].w.ident \cup db.ident => <<w, x[2]>> \in db'.ident
      BY <1>1, <2>3, <3>3, <3>4, ViewTyped DEF StoreInv
    <3>6. <<w, x[2]>> \in db'.ident \/ db.pub[w] = NoRow
      BY <3>2, <3>5 DEF KeptFor, Dead
    <3> QED
      BY <2>2, <3>6
  <2> QED
    BY <2>5, <2>6
<1>2. StoreInv /\ [Next]_vars =>
        [\A x \in db.ident \ db'.ident : \E s \in Session :
            /\ Commits(s)
            /\ \/ tx[s].kind = "repair" /\ x[1] \in tx[s].orphans
               \/ \E w \in Survivors(s) : <<w, x[2]>> \in db'.ident \/ db.pub[w] = NoRow
               \/ x[1] \in tx[s].w.del /\ x \notin tx[s].w.unident]_vars
  BY <1>1
<1> QED
  BY <1>2, StoreInvariant, PTL DEF Spec, IdentifiersSurvive

=============================================================================
