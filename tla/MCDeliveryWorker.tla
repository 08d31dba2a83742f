------------------------- MODULE MCDeliveryWorker -------------------------
(* Small instances of DeliveryWorker for TLC. *)
EXTENDS DeliveryWorker, TLC

CONSTANTS d1, d2, t1, t2, b1, b2

OneThread == [d \in {d1, d2} |-> t1]
TwoThreads == d1 :> t1 @@ d2 :> t2
TwoSizes == b1 :> 1 @@ b2 :> 2
OneSize == [b \in {b1} |-> 1]
ProcessSymmetry == Permutations(Workers)
(* Sound where all activities belong to one thread. *)
SymmetryOfOneThread == ProcessSymmetry \cup Permutations(Deliveries)
=============================================================================
