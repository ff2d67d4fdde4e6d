--------------------------- MODULE MCStockControl ---------------------------
(***************************************************************************)
(* Small instances of StockControl for TLC.                                *)
(***************************************************************************)
EXTENDS StockControl, TLC

CONSTANTS v1, v2

(* One variant is stocked, the other is new and empty. *)
MCInitialStock == (v1 :> 1) @@ (v2 :> 0)

(* A whole-catalogue stock take, and one of a category with no variant. *)
MCScopes == {Variant, {}}

MCDeltas == {-1}

(* The second line of the first batch is refused when v2 is empty. *)
MCBatches == {<<[variant |-> v1, delta |-> 1], [variant |-> v2, delta |-> -1]>>}

MCRef == Session

(* Worker processes are interchangeable. *)
WorkerSymmetry == Permutations(Worker)
=============================================================================
