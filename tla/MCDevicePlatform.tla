-------------------------- MODULE MCDevicePlatform --------------------------
(* Finite instances of DevicePlatform: the .cfg files give the constants model
   values, and this module the symmetry. *)
EXTENDS DevicePlatform, TLC

(* Connections, models and tenants are interchangeable as long as there are no
   uplinks: only resolving the tenant of an uplink reads DefaultTenant.  Used
   by the safety run only. *)
RequestSymmetry ==
    Permutations(Handlers) \cup Permutations(Models) \cup Permutations(Tenants)
=============================================================================
