---------------------------- MODULE MCOperations ----------------------------
(* Instances of Operations for TLC.  Routes 1 and 2 leave from one warehouse *)
(* and route 3 from another; the dataset that is uploaded has route 1 only.  *)
(* Each scenario gives one question its events: their interleavings are      *)
(* complete, and the scenarios add up instead of multiplying.                *)
EXTENDS Operations

CONSTANTS wa, wb, v2, v3

MCHome == [r \in {1, 2, 3} |-> IF r = 3 THEN wb ELSE wa]

Measured(rs, ts) ==
    [r \in Route |-> [t \in Time |-> IF r \in rs /\ t \in ts THEN [seen |-> t, label |-> None]
                                     ELSE None]]

\* Two measured steps of route 1, the first of them labelled.
MCUploaded == [Measured({1}, {0, 1}) EXCEPT ![1][0].label = 2]

Nothing == [clients |-> 0, replays |-> 0, uploads |-> 0, promotes |-> 0, backfills |-> 0,
            faults |-> 0]

Start(rs, ts, n, budget) ==
    [rows |-> Measured(rs, ts), now |-> Max(ts), cycles |-> n, model |-> Seed,
     budget |-> [e \in DOMAIN Nothing |-> IF e \in DOMAIN budget THEN budget[e] ELSE 0]]

MCScenario == {
    \* two cycles in each other's way, one request or statement failing
    Start({1}, {0}, 2, [faults |-> 1]),
    Start({1, 3}, {0}, 1, [faults |-> 1]),
    \* challengers loaded, one half-way, and promoted under a prediction
    Start({1}, {0}, 1, [promotes |-> 3]),
    \* past cycles replayed over rows that are labelled and orders completed
    Start({1}, {0, 1, 3}, 0, [replays |-> 2, backfills |-> 1, faults |-> 1]),
    Start({1, 2}, {0}, 1, [clients |-> 1, backfills |-> 1]),
    \* the snapshot replaced under a cycle, or under clients and a backfill
    Start({1, 3}, {2}, 1, [uploads |-> 1]),
    Start({1, 3}, {0, 2}, 0, [uploads |-> 1, clients |-> 1, backfills |-> 1]),
    Start({1}, {0}, 0, [uploads |-> 1, promotes |-> 1, faults |-> 1]),
    \* no model, and no routes
    [Start({1}, {0}, 1, [clients |-> 1]) EXCEPT !.model = None],
    Start({}, {0}, 1, [uploads |-> 1])}
=============================================================================
