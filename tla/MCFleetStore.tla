---------------------------- MODULE MCFleetStore ----------------------------
(***************************************************************************)
(* A few snapshots: two of one site, a changed one under a used id, one    *)
(* captured in the future and one with an old observation of the site.     *)
(***************************************************************************)
EXTENDS FleetStore, TLC

CONSTANTS a, b, g, c1, c2, w1, w2

Snapshot(id, content, captured, observed, stamped) ==
    [id |-> id, site |-> g, content |-> content, captured |-> captured,
     observed |-> observed, stamped |-> stamped]

MCTimes == -2..2

StampedSnapshots ==
    {Snapshot(a, c1, 0, -1, TRUE), Snapshot(a, c2, 0, 0, TRUE),
     Snapshot(b, c1, 2, 1, TRUE)}

BareSnapshots == {Snapshot(a, c1, 0, 0, FALSE), Snapshot(b, c1, 0, 0, TRUE)}

WorkerSymmetry == Permutations({w1, w2})
=============================================================================
