------------------------------- MODULE MCTill -------------------------------
(***************************************************************************)
(* Small instances of Till for TLC.                                        *)
(***************************************************************************)
EXTENDS Till, TLC

CONSTANTS v1, v2

(* One unit of each: two carts compete for the last one. *)
MCInitialStock == (v1 :> 1) @@ (v2 :> 1)

Line(v, n) == [variant |-> v, qty |-> n]

(* Two carts that lock the same two variants in opposite orders. *)
MCCarts == {<<Line(v1, 1), Line(v2, 1)>>, <<Line(v2, 1), Line(v1, 1)>>}

Back(i) == [line |-> i, qty |-> 1]

(* The first line comes back, or both lines do, or the first one twice. *)
FirstLine == {<<Back(1)>>}
DistinctLines == {<<Back(1)>>, <<Back(2), Back(1)>>}
RepeatedLine == {<<Back(1), Back(1)>>}

(* Each shift is of a cashier of its own, or all are of one. *)
OwnCashier == [s \in Shift |-> s]
OneCashier == [s \in Shift |-> "ann"]

MCRef == Sale

(* Workers, sales and shifts of distinct cashiers are interchangeable. *)
TillSymmetry ==
    Permutations(Worker) \cup Permutations(Sale) \cup Permutations(Shift)
=============================================================================
