------------------------ MODULE MCPublicationStore -------------------------
(* Small instances of PublicationStore for TLC.  A behaviour has one of    *)
(* two casts: two sessions and two publications, or one session by itself  *)
(* and three publications, which a sweep finds to be the same.             *)
EXTENDS PublicationStore

CONSTANTS a, b, s1, s2

\* A preprint without a cluster id, the article it became, and the article as
\* a profile lists it that has its cluster but another fingerprint.
Preprint == [fp |-> "f1", cluster |-> None, title |-> "t1", ident |-> {"x"}]
Article == [fp |-> "f2", cluster |-> "k", title |-> "t2", ident |-> {"x"}]
Variant == [fp |-> "f1", cluster |-> "k", title |-> "t2", ident |-> {}]

\* The same work once more, for the session that is alone.
Reprint == [fp |-> "f3", cluster |-> None, title |-> "t3", ident |-> {"x"}]

Candidates == {Preprint, Article, Variant, Reprint}
Pages == {<<Preprint>>, <<Article>>, <<Variant, Preprint>>, <<Reprint>>}

TitlesNear == {<<"t1", "t2">>}
TwoSessions == {a, b}
TwoScholars == {s1, s2}

\* One session runs the maintenance and a page of one entry at times, the
\* other stores pages and files.
Maintenance == {"page", "sweep", "neardup", "repair"}
SplitKinds == [s \in {a, b} |-> IF s = a THEN Maintenance ELSE {"page", "import"}]
Users == [s \in {a, b} |-> IF s = a THEN {s1} ELSE {s2}]

VARIABLE cast

Stores(s, c) == c \in ToSet(tx'[s].todo)

MCInit == Init /\ cast \in {"pair", "alone"}

MCNext ==
    /\ Next
    /\ cast = "pair" => /\ nextId' <= 3
                        /\ \A s \in Session : ~Stores(s, Reprint)
                        /\ Len(tx'[a].todo) <= 1
    /\ cast = "alone" => tx'[b] = Idle /\ ~Stores(a, Variant)
    /\ UNCHANGED cast

MCSpec == MCInit /\ [][MCNext]_<<vars, cast>>
=============================================================================
