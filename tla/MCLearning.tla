----------------------------- MODULE MCLearning -----------------------------
(* Instances of Learning for TLC.  Two routes of one warehouse; a day has    *)
(* four steps, so that anchors and futures cross parts of a day.             *)
EXTENDS Learning

CONSTANTS wa

MCHome == [r \in {1, 2} |-> wa]

MCMaxPredictions == [r \in {1, 2} |-> IF r = 1 THEN 3 ELSE 1]

Table(rows) ==
    [r \in {1, 2} |-> [t \in Time |-> IF t \in rows[r] THEN [seen |-> t, label |-> t + 1] ELSE None]]

\* No dataset; one of both routes, where the second misses a step; one that ends
\* earlier for the second.
MCUploaded == {Table(<<{}, {}>>), Table(<<0..2, {0, 2}>>), Table(<<0..2, {0}>>)}

X(id, r, t) == [id |-> id, route |-> r, at |-> t]

\* In order, against the order of the ids, of two routes, and some that start
\* late, leave a step out or name a timestamp twice.
MCTemplate == {
    {X(1, 1, 3), X(2, 1, 4)},
    {X(1, 1, 5), X(2, 1, 4)},
    {X(1, 2, 3), X(2, 1, 4), X(3, 1, 3), X(4, 2, 4)},
    {X(1, 1, 4), X(2, 1, 6)},
    {X(1, 1, 4), X(2, 1, 4)},
    {X(1, 1, 4)}}
=============================================================================
