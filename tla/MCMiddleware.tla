---------------------------- MODULE MCMiddleware ----------------------------
(* Finite instances of Middleware. *)
EXTENDS Middleware
=============================================================================
