--------------------------- MODULE MCConfiguration ---------------------------
(* Finite instances of Configuration. *)
EXTENDS Configuration, TLC

CONSTANTS latte

NoRows == <<>>
Seeded == <<latte>>

ClientSymmetry == Permutations(Clients)
=============================================================================
