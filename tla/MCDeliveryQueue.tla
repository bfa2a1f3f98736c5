-------------------------- MODULE MCDeliveryQueue --------------------------
(* Small instances of DeliveryQueue for TLC; workers are interchangeable. *)
EXTENDS DeliveryQueue, TLC

CONSTANTS w1, w2

MCWorkers == {w1, w2}
MCSymmetry == Permutations(MCWorkers)
=============================================================================
