--------------------------- MODULE MCOrderManager ---------------------------
(* Finite instances of OrderManager. *)
EXTENDS OrderManager, TLC

CONSTANT Seeded

(* seed_mock_data queues three orders where ten fit and puts three into the
   history; here it queues one where two fit. *)
OneSeed == <<[id |-> Seeded, status |-> "PENDING"]>>
NoSeed == <<>>

ActorSymmetry == Permutations(Actors)
=============================================================================
