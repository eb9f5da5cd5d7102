-------------------------- MODULE PublicationStore --------------------------
(***************************************************************************)
(* The publications that all accounts share, the links of scholars to them *)
(* and their identifiers, under the transactions that write them: storing  *)
(* a page of a profile, importing a file, sweeping duplicates after a run, *)
(* merging near duplicates and the link repair of an administrator.        *)
(*                                                                         *)
(* PostgreSQL runs them READ COMMITTED: a session sees what is committed   *)
(* plus what it wrote itself, a write that conflicts with an uncommitted   *)
(* one waits, a write that conflicts with a committed one is refused, and  *)
(* deleting a publication takes its links and identifiers along.           *)
(***************************************************************************)
EXTENDS Naturals, Sequences, FiniteSets, SequencesExt

CONSTANTS
    Scholar,    \* scholar_profiles
    Session,    \* database sessions
    Candidate,  \* what a page or file lists: [fp, cluster, title, ident]
    Page,       \* the sequences of candidates a page or file may hold
    MaxId,      \* bound on publications.id
    NearTitles, \* pairs of titles that pass _is_near_duplicate_pair
    Kinds,      \* per session, the kinds of transactions it runs
    Own,        \* per session, the scholars of the user it stores for
    None        \* NULL

ASSUME StoreAssumption ==
    /\ MaxId \in Nat
    /\ \A c \in Candidate : c.fp # None /\ c.title # None
    /\ Page \subseteq Seq(Candidate) \ {<<>>}
    /\ Own \in [Session -> SUBSET Scholar]
    /\ Kinds \in [Session -> SUBSET {"page", "import", "sweep", "neardup", "repair"}]

VARIABLES
    db,         \* committed: publications, scholar_publications, identifiers
    nextId,     \* the sequence behind publications.id
    tx          \* per session: what it does and its uncommitted writes

vars == <<db, nextId, tx>>

Id == 1..MaxId
NoRow == [fp |-> None, cluster |-> None, title |-> None, hash |-> None]
Identifier == UNION {c.ident : c \in Candidate}
Row == [fp : {c.fp : c \in Candidate},
        cluster : {c.cluster : c \in Candidate} \cup {None},
        title : {c.title : c \in Candidate},
        hash : {c.title : c \in Candidate} \cup {None}]

NoWrites == [row |-> <<>>, del |-> {}, link |-> {}, unlink |-> {},
             ident |-> {}, unident |-> {}]

Idle == [kind |-> "none", pc |-> "idle", scholar |-> None, todo |-> <<>>,
         target |-> 0, seen |-> NoRow, plan |-> <<>>, merged |-> {},
         links |-> {}, idents |-> {}, orphans |-> {}, looked |-> {}, w |-> NoWrites]

PC == {"idle", "resolve", "write", "link", "pairs", "merge", "delete",
       "gc", "commit"}

TypeOK ==
    /\ db.pub \in [Id -> Row \cup {NoRow}]
    /\ db.link \subseteq Scholar \X Id
    /\ db.ident \subseteq Id \X Identifier
    /\ nextId \in 1..(MaxId + 1)
    /\ \A s \in Session :
        /\ tx[s].pc \in PC
        /\ tx[s].kind \in Kinds[s] \cup {"none"}
        /\ tx[s].pc = "idle" => tx[s] = Idle
        /\ DOMAIN tx[s].w.row \subseteq Id
        /\ tx[s].w.del \subseteq Id

Init ==
    /\ db = [pub |-> [i \in Id |-> NoRow], link |-> {}, ident |-> {}]
    /\ nextId = 1
    /\ tx = [s \in Session |-> Idle]

-----------------------------------------------------------------------------
(* Transactions                                                            *)

\* The database d with the writes w; a deleted row takes what refers to it.
Applied(d, w) ==
    [pub |-> [i \in Id |-> IF i \in w.del THEN NoRow
                           ELSE IF i \in DOMAIN w.row THEN w.row[i] ELSE d.pub[i]],
     link |-> {l \in (d.link \ w.unlink) \cup w.link : l[2] \notin w.del},
     ident |-> {x \in (d.ident \ w.unident) \cup w.ident : x[1] \notin w.del}]

\* What session s sees.
View(s) == Applied(db, tx[s].w)

Live(d) == {i \in Id : d.pub[i] # NoRow}

Others(s) == Session \ {s}

\* Another session has written row i: an UPDATE or DELETE of it waits.
RowLocked(s, i) == \E t \in Others(s) : i \in DOMAIN tx[t].w.row \cup tx[t].w.del

\* Another session is deleting row i: an INSERT that refers to it waits.
BeingDeleted(s, i) == \E t \in Others(s) : i \in tx[t].w.del

\* Another session has inserted a row that refers to i: its DELETE waits.
ReferredTo(s, i) ==
    \E t \in Others(s) : \/ \E l \in tx[t].w.link : l[2] = i
                         \/ \E x \in tx[t].w.ident : x[1] = i

\* uq_publications_fingerprint and uq_publications_cluster_id_not_null for a
\* row that session s is about to write as i.
SameKey(row, r) == r # NoRow /\ (r.fp = row.fp \/ (r.cluster = row.cluster /\ r.cluster # None))

KeyTaken(s, i, row) == \E j \in Id \ {i} : SameKey(row, View(s).pub[j])

KeyPending(s, i, row) ==
    \E t \in Others(s) : \E j \in DOMAIN tx[t].w.row \ {i} : SameKey(row, tx[t].w.row[j])

Becomes(s, new) == tx' = [tx EXCEPT ![s] = new]

\* The rows a session has written, with one more.
Written(rows, i, row) == [j \in DOMAIN rows \cup {i} |-> IF j = i THEN row ELSE rows[j]]

\* An IntegrityError, StaleDataError, MultipleResultsFound or ValueError: the
\* session is rolled back.
Refuse(s) == Becomes(s, Idle)

\* The commit of any kind of transaction.
Commit(s) ==
    /\ tx[s].pc = "commit"
    /\ db' = View(s)
    /\ Becomes(s, Idle)
    /\ UNCHANGED nextId

\* A statement fails (deadlock, lost connection, cancel) or the commit does:
\* the caller rolls back.
Fail(s) ==
    /\ tx[s].pc # "idle"
    /\ Becomes(s, Idle)
    /\ UNCHANGED <<db, nextId>>

-----------------------------------------------------------------------------
(* Storing a page, importing a file. NoRow has no keys: no lookup finds it. *)

\* upsert_profile_publications begins with a page, import_user_data with the
\* publications of a file.
BeginStore(s, kind, sc, page) ==
    /\ tx[s].pc = "idle"
    /\ kind \in Kinds[s]
    /\ Becomes(s, [Idle EXCEPT !.kind = kind, !.pc = "resolve", !.scholar = sc, !.todo = page])
    /\ UNCHANGED <<db, nextId>>

\* find_publication_by_cluster
ByCluster(d, c) == {i \in Id : c.cluster # None /\ d.pub[i].cluster = c.cluster}

ByFingerprint_Forgotten(d, c) == {}     \* seeded fault: no such lookup

\* find_publication_by_fingerprint
ByFingerprint(d, c) == {i \in Id : d.pub[i].fp = c.fp}

\* find_publication_by_canonical_title_hash, and in an import the first
\* publication of the scholar with that title.
ByTitle(d, kind, sc, c) ==
    LET hashed == {i \in Id : d.pub[i].hash = c.title}
        linked == {i \in Id : d.pub[i].title = c.title /\ <<sc, i>> \in d.link}
    IN  IF kind = "page" THEN hashed ELSE {i \in linked : \A j \in linked : i <= j}

\* The order of the lookups of resolve_publication.
Matches(d, kind, sc, c) ==
    LET clustered == ByCluster(d, c)
        printed == ByFingerprint(d, c)
    IN  IF clustered # {} THEN clustered
        ELSE IF printed # {} THEN printed
        ELSE ByTitle(d, kind, sc, c)

\* The lookups of one candidate; scalar_one_or_none refuses two answers.
Resolve(s) ==
    /\ tx[s].pc = "resolve"
    /\ LET c == Head(tx[s].todo)
           found == Matches(View(s), tx[s].kind, tx[s].scholar, c)
       IN  IF Cardinality(found) > 1 THEN Refuse(s)
           ELSE \E i \in (IF found = {} THEN {0} ELSE found) :
                    Becomes(s, [tx[s] EXCEPT !.pc = "write", !.target = i,
                                   !.seen = IF i = 0 THEN NoRow ELSE View(s).pub[i]])
    /\ UNCHANGED <<db, nextId>>

\* create_publication hashes the title, the import does not.
NewRow(kind, c) ==
    [fp |-> c.fp, cluster |-> c.cluster, title |-> c.title,
     hash |-> IF kind = "page" THEN c.title ELSE None]

\* update_existing_publication fills an empty cluster; the import sets cluster
\* and title. The columns that lead to no other row are left out.
UpdatedRow(kind, row, seen, c) ==
    IF kind = "page"
    THEN [row EXCEPT !.cluster = IF seen.cluster = None THEN c.cluster ELSE @]
    ELSE [row EXCEPT !.cluster = IF c.cluster # None THEN c.cluster ELSE @,
                     !.title = c.title]

\* sync_identifiers_for_publication_fields, on pages only.
FieldIdentifiers(kind, i, c) == IF kind = "page" THEN {i} \X c.ident ELSE {}

\* create_publication with its flush.
Create(s) ==
    LET c == Head(tx[s].todo)
        w == tx[s].w
        row == NewRow(tx[s].kind, c)
    IN  /\ tx[s].pc = "write"
        /\ tx[s].target = 0
        /\ ~KeyPending(s, 0, row)
        /\ IF KeyTaken(s, 0, row) THEN Refuse(s) /\ UNCHANGED nextId
           ELSE /\ nextId <= MaxId
                /\ nextId' = nextId + 1
                /\ Becomes(s, [tx[s] EXCEPT
                     !.pc = "link", !.target = nextId,
                     !.w = [w EXCEPT
                        !.row = Written(w.row, nextId, row),
                        !.ident = w.ident \cup FieldIdentifiers(tx[s].kind, nextId, c)]])
        /\ UNCHANGED db

\* update_existing_publication with its flush: the row is written if a column
\* changes, the cluster here, others if "touch". A row that is gone is refused.
Update(s, touch) ==
    LET c == Head(tx[s].todo)
        i == tx[s].target
        w == tx[s].w
        old == View(s).pub[i]
        row == UpdatedRow(tx[s].kind, old, tx[s].seen, c)
        idents == FieldIdentifiers(tx[s].kind, i, c) \ View(s).ident
        writes == touch \/ row # old
    IN  /\ tx[s].pc = "write"
        /\ i # 0
        /\ writes => ~RowLocked(s, i) /\ ~KeyPending(s, i, row)
        /\ idents # {} => ~BeingDeleted(s, i)
        /\ \A t \in Others(s) : idents \cap tx[t].w.ident = {}
        /\ IF \/ (writes \/ idents # {}) /\ i \notin Live(View(s))
              \/ writes /\ KeyTaken(s, i, row)
           THEN Refuse(s)
           ELSE Becomes(s, [tx[s] EXCEPT
                  !.pc = "link",
                  !.w = [w EXCEPT !.row = IF writes THEN Written(w.row, i, row) ELSE w.row,
                                  !.ident = w.ident \cup idents]])
        /\ UNCHANGED <<db, nextId>>

\* The link of the scholar to the publication, unless there is one; then the
\* next candidate, or the commit.
Link(s) ==
    LET l == <<tx[s].scholar, tx[s].target>>
        new == l \notin View(s).link
        rest == Tail(tx[s].todo)
    IN  /\ tx[s].pc = "link"
        /\ new => ~BeingDeleted(s, l[2]) /\ \A t \in Others(s) : l \notin tx[t].w.link
        /\ IF new /\ l[2] \notin Live(View(s)) THEN Refuse(s)
           ELSE Becomes(s, [tx[s] EXCEPT
                  !.pc = IF rest = <<>> THEN "commit" ELSE "resolve",
                  !.todo = rest, !.target = 0, !.seen = NoRow,
                  !.w.link = IF new THEN @ \cup {l} ELSE @])
        /\ UNCHANGED <<db, nextId>>

-----------------------------------------------------------------------------
(* Merging duplicates                                                      *)

\* find_identifier_duplicate_pairs: the lower id wins.
DuplicatePairs(d) ==
    {p \in Live(d) \X Live(d) :
        /\ p[1] < p[2]
        /\ \E x \in Identifier : <<p[1], x>> \in d.ident /\ <<p[2], x>> \in d.ident}

\* enrich_pending_publications may find identifiers before it sweeps.
BeginSweep(s) ==
    /\ tx[s].pc = "idle"
    /\ "sweep" \in Kinds[s]
    /\ Becomes(s, [Idle EXCEPT !.kind = "sweep", !.pc = "pairs"])
    /\ UNCHANGED <<db, nextId>>

\* discover_and_sync_identifiers_for_publication: Crossref or arXiv answers.
DiscoverIdentifier(s, i, x) ==
    /\ tx[s].pc = "pairs"
    /\ tx[s].kind = "sweep"
    /\ tx[s].w = NoWrites
    /\ i \in Live(View(s))
    /\ <<i, x>> \notin View(s).ident
    /\ ~BeingDeleted(s, i)
    /\ \A t \in Others(s) : <<i, x>> \notin tx[t].w.ident
    /\ Becomes(s, [tx[s] EXCEPT !.w.ident = {<<i, x>>}])
    /\ UNCHANGED <<db, nextId>>

\* sweep_identifier_duplicates reads the pairs; DISTINCT returns any order.
ReadPairs(s) ==
    /\ tx[s].pc = "pairs"
    /\ \E order \in SetToSeqs(DuplicatePairs(View(s))) :
        Becomes(s, [tx[s] EXCEPT !.plan = order,
                                 !.pc = IF order = <<>> THEN "commit" ELSE "merge"])
    /\ UNCHANGED <<db, nextId>>

\* Groups of publications whose titles are linked by near duplicates, as
\* _cluster_candidate_groups unions them.
Near(d, i, j) ==
    \/ d.pub[i].title = d.pub[j].title
    \/ <<d.pub[i].title, d.pub[j].title>> \in NearTitles

NearGroup(d, i) ==
    CHOOSE g \in SUBSET Live(d) :
        /\ i \in g
        /\ \A j \in g, k \in Live(d) : Near(d, j, k) \/ Near(d, k, j) => k \in g
        /\ \A h \in SUBSET g :
            (i \in h /\ \A j \in h, k \in Live(d) : Near(d, j, k) \/ Near(d, k, j) => k \in h)
                => h = g

\* run_publication_near_duplicate_repair: an administrator has one group merged
\* into its most cited member, the others in the order of their ids.
BeginNearDuplicates(s, i) ==
    LET group == NearGroup(db, i)
    IN  /\ tx[s].pc = "idle"
        /\ "neardup" \in Kinds[s]
        /\ i \in Live(db)
        /\ Cardinality(group) > 1
        /\ \E winner \in group : \E others \in SetToSeqs(group \ {winner}) :
             /\ \A j, k \in DOMAIN others : j < k => others[j] < others[k]
             /\ Becomes(s, [Idle EXCEPT
                   !.kind = "neardup", !.pc = "merge",
                   !.plan = [k \in 1..Len(others) |-> <<winner, others[k]>>]])
        /\ UNCHANGED <<db, nextId>>

\* processed_dups: a publication that was merged already is skipped.
SkipMerged(s) ==
    /\ tx[s].pc = "merge"
    /\ tx[s].plan[1][2] \in tx[s].w.del
    /\ tx[s].kind = "sweep"
    /\ Becomes(s, [tx[s] EXCEPT !.plan = Tail(@),
                                !.pc = IF Len(tx[s].plan) = 1 THEN "commit" ELSE "merge"])
    /\ UNCHANGED <<db, nextId>>

\* _merge_publication_metadata, as far as keys go: an empty cluster or hash of
\* the winner is filled, the longer title is kept. The fingerprint of the
\* duplicate is dropped.
MergedRow(winner, dup, title) ==
    [winner EXCEPT !.cluster = IF @ = None THEN dup.cluster ELSE @,
                   !.hash = IF @ = None THEN dup.hash ELSE @,
                   !.title = title]

\* merge_duplicate_publication raises unless both exist. Its first read after
\* the change of the winner flushes it, while the duplicate still has its
\* cluster id: the unique index refuses to let the winner take it over.
Mergeable(v, w, d) ==
    /\ {w, d} \subseteq Live(v)
    /\ ~(v.pub[w].cluster = None /\ v.pub[d].cluster # None)

\* merge_duplicate_publication up to its reads of the links and identifiers.
Merge(s, longer) ==
    LET w == tx[s].plan[1][1]
        d == tx[s].plan[1][2]
        v == View(s)
        row == MergedRow(v.pub[w], v.pub[d], v.pub[longer].title)
    IN  /\ tx[s].pc = "merge"
        /\ longer \in {w, d}
        /\ ~(tx[s].kind = "sweep" /\ d \in tx[s].w.del)
        /\ row # v.pub[w] => ~RowLocked(s, w)
        /\ IF Mergeable(v, w, d)
           THEN Becomes(s, [tx[s] EXCEPT
                  !.pc = "delete",
                  !.links = {l \in v.link : l[2] \in {w, d}},
                  !.idents = {x \in v.ident : x[1] \in {w, d}},
                  !.looked = v.link,
                  !.w.row = IF row # v.pub[w] THEN Written(@, w, row) ELSE @])
           ELSE Refuse(s)
        /\ UNCHANGED <<db, nextId>>

MovedLinks_None(links, w, d) == {}      \* seeded fault: the links are not moved

\* _migrate_scholar_links: links to d become links to w, unless there is one.
MovedLinks(links, w, d) == {<<l[1], w>> : l \in {x \in links : x[2] = d}} \ links

MovedIdentifiers_None(idents, w, d) == {}   \* seeded fault: not moved

\* _migrate_identifiers
MovedIdentifiers(idents, w, d) == {<<w, x[2]>> : x \in {y \in idents : y[1] = d}} \ idents

\* The links and identifiers are moved as they were read, the duplicate is
\* deleted once nobody else has an uncommitted reference to it. A moved
\* link that exists by now is refused, and so is one that is gone.
Delete(s) ==
    LET w == tx[s].plan[1][1]
        d == tx[s].plan[1][2]
        moved == MovedLinks(tx[s].links, w, d)
        kept == MovedIdentifiers(tx[s].idents, w, d)
        gone == {l \in tx[s].links : l[2] = d}
        dropped == {x \in tx[s].idents : x[1] = d}
        mine == tx[s].w
    IN  /\ tx[s].pc = "delete"
        /\ ~RowLocked(s, d)
        /\ ~ReferredTo(s, d)
        /\ moved \cup kept # {} => ~BeingDeleted(s, w)
        /\ \A t \in Others(s) : /\ moved \cap tx[t].w.link = {}
                                /\ kept \cap tx[t].w.ident = {}
                                /\ gone \cap tx[t].w.unlink = {}
        /\ IF \/ {w, d} \ Live(View(s)) # {}
              \/ moved \cap View(s).link # {}
              \/ kept \cap View(s).ident # {}
              \/ \E l \in gone \ View(s).link : <<l[1], w>> \in moved
           THEN Refuse(s)
           ELSE Becomes(s, [tx[s] EXCEPT
                  !.plan = Tail(@),
                  !.pc = IF Len(tx[s].plan) = 1 THEN "commit" ELSE "merge",
                  !.links = {}, !.idents = {}, !.looked = {},
                  !.merged = @ \cup {[winner |-> w, dup |-> d, saw |-> tx[s].looked]},
                  !.w = [mine EXCEPT !.link = (mine.link \cup moved) \ gone,
                                     !.unlink = mine.unlink \cup gone,
                                     !.ident = (mine.ident \cup kept) \ dropped,
                                     !.unident = mine.unident \cup dropped,
                                     !.del = mine.del \cup {d}]])
        /\ UNCHANGED <<db, nextId>>

-----------------------------------------------------------------------------
(* Link repair                                                             *)

\* _delete_links_for_targets
RepairedLinks(d, sc) == {l \in d.link : l[1] = sc}

\* Publications without a link, as the statement of
\* _delete_orphan_publications sees them when it starts.
Orphans(d) == {i \in Live(d) : \A l \in d.link : l[2] # i}

\* run_publication_link_repair for one scholar, not a dry run.
BeginRepair(s, sc, gc) ==
    /\ tx[s].pc = "idle"
    /\ "repair" \in Kinds[s]
    /\ LET gone == RepairedLinks(db, sc)
       IN  /\ \A t \in Others(s) : gone \cap tx[t].w.unlink = {}
           /\ Becomes(s, [Idle EXCEPT
                   !.kind = "repair", !.scholar = sc, !.w.unlink = gone,
                   !.pc = IF gc THEN "gc" ELSE "commit", !.looked = db.link,
                   !.orphans = IF gc THEN Orphans([db EXCEPT !.link = @ \ gone]) ELSE {}])
    /\ UNCHANGED <<db, nextId>>

\* _delete_orphan_publications deletes what it found, after waiting for the
\* sessions that have locked some of it; a link committed meanwhile goes too.
DeleteOrphans(s) ==
    /\ tx[s].pc = "gc"
    /\ \A i \in tx[s].orphans : ~RowLocked(s, i) /\ ~ReferredTo(s, i)
    /\ Becomes(s, [tx[s] EXCEPT !.w.del = tx[s].orphans \cap Live(db), !.pc = "commit"])
    /\ UNCHANGED <<db, nextId>>

-----------------------------------------------------------------------------
Next ==
    \E s \in Session :
        \/ \E kind \in {"page", "import"}, sc \in Own[s], page \in Page :
                BeginStore(s, kind, sc, page)
        \/ Resolve(s) \/ Create(s) \/ (\E touch \in BOOLEAN : Update(s, touch)) \/ Link(s)
        \/ BeginSweep(s)
        \/ \E i \in Id, x \in Identifier : DiscoverIdentifier(s, i, x)
        \/ ReadPairs(s) \/ SkipMerged(s) \/ (\E i \in Id : Merge(s, i)) \/ Delete(s)
        \/ \E i \in Id : BeginNearDuplicates(s, i)
        \/ \E sc \in Scholar, gc \in BOOLEAN : BeginRepair(s, sc, gc)
        \/ DeleteOrphans(s)
        \/ Commit(s) \/ Fail(s)

Spec == Init /\ [][Next]_vars

-----------------------------------------------------------------------------
(* Properties                                                              *)

\* Session s commits in this step.
Commits(s) == tx[s].pc = "commit" /\ db' # db /\ tx'[s] = Idle

\* What a repair or a merge in the transaction of s owes to the link l that it
\* takes away: a repair was asked for that very scholar; a merge leaves the
\* scholar linked to the winner, found it so, or moved that link on in its
\* turn. Two races are known and excepted: a link committed after a repair
\* looked for orphans, or after a merge read the links of the duplicate, goes
\* with the publication.
Honoured(s, l) ==
    \/ tx[s].kind = "repair" /\ (l[1] = tx[s].scholar \/ l \notin tx[s].looked)
    \/ \E m \in tx[s].merged :
        /\ m.dup = l[2]
        /\ \/ l \notin m.saw
           \/ <<l[1], m.winner>> \in m.saw \cup tx[s].w.unlink \cup db'.link

\* A scholar loses a link only to a commit that honours it, with the links it
\* had made itself and moved on: no link is lost on its way along a chain of
\* merges (dedup.py:148-169, dbops/application.py:154-199).
LinksSurvive ==
    [][\A l \in db.link \ db'.link : \E s \in Session :
        Commits(s) /\ \A k \in {l} \cup tx[s].w.unlink : Honoured(s, k)]_vars

\* The winners of a transaction that it did not merge away in their turn.
Survivors(s) == {m.winner : m \in tx[s].merged} \ tx[s].w.del

\* An identifier is lost only with an orphan, or is a survivor's after the
\* merge (which a repair may have deleted as an orphan), or was committed
\* after the merge read those of the duplicate (dedup.py:172-221).
IdentifiersSurvive ==
    [][\A x \in db.ident \ db'.ident : \E s \in Session :
        /\ Commits(s)
        /\ \/ tx[s].kind = "repair" /\ x[1] \in tx[s].orphans
           \/ \E w \in Survivors(s) : <<w, x[2]>> \in db'.ident \/ db.pub[w] = NoRow
           \/ x[1] \in tx[s].w.del /\ x \notin tx[s].w.unident]_vars

\* The database after candidate c was stored as publication i with row.
Storing(sc, i, row) ==
    [db EXCEPT !.pub[i] = row, !.link = @ \cup {<<sc, i>>}]

\* Whatever sessions, merges and repairs have made of the database, a
\* candidate that is stored on its own breaks no unique index and is found
\* again as the publication it was stored as, so that a second run discovers
\* nothing new. (Two publications with one canonical title are refused.)
StoredIsFound ==
    \A kind \in {"page", "import"}, sc \in Scholar, c \in Candidate :
        LET found == Matches(db, kind, sc, c)
            i == IF found = {} THEN nextId ELSE CHOOSE j \in found : TRUE
            row == IF found = {} THEN NewRow(kind, c)
                   ELSE UpdatedRow(kind, db.pub[i], db.pub[i], c)
        IN  Cardinality(found) <= 1 /\ i <= MaxId =>
                /\ \A j \in Id \ {i} : ~SameKey(row, db.pub[j])
                /\ Matches(Storing(sc, i, row), kind, sc, c) = {i}

-----------------------------------------------------------------------------
(* A claim of the code that does not hold                                  *)

\* "Find publications sharing an identifier and merge duplicates into the
\* winner." (dedup.py): a sweep that nobody disturbs merges what it found.
SweepMerges ==
    \A s \in Session :
        tx[s].kind = "sweep" /\ tx[s].pc = "merge" /\ tx[s].plan[1][2] \notin tx[s].w.del =>
            Mergeable(View(s), tx[s].plan[1][1], tx[s].plan[1][2])
=============================================================================
