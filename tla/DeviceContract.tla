--------------------------- MODULE DeviceContract ---------------------------
(***************************************************************************)
(* What the device service promises its clients, without threads, tables   *)
(* or tenants.  A device is served while the registry can find it.  A      *)
(* successful activation is a promise: the device is served until somebody *)
(* asks for its deletion, crashes of the service included.                 *)
(***************************************************************************)
EXTENDS Naturals

CONSTANT Devs

VARIABLES
    served,     \* devices the registry finds
    promised,   \* devices acknowledged and not deleted since
    epoch       \* incarnations of the service process

contractVars == <<served, promised, epoch>>

(* A heartbeat, or a registration nobody may rely on. *)
Discover(d) ==
    /\ served' = served \cup {d}
    /\ UNCHANGED <<promised, epoch>>

Promise(d) ==
    /\ served' = served \cup {d}
    /\ promised' = promised \cup {d}
    /\ UNCHANGED epoch

(* A deletion ends the promise; another copy may keep the device served. *)
Withdraw(d) ==
    /\ served' \in {served, served \ {d}}
    /\ promised' = promised \ {d}
    /\ UNCHANGED epoch

(* A new process serves at least what was promised. *)
Reborn ==
    /\ served' \in SUBSET Devs
    /\ promised \subseteq served'
    /\ epoch' = epoch + 1
    /\ UNCHANGED promised

ContractInit == served = {} /\ promised = {} /\ epoch = 0

ContractNext ==
    \/ \E d \in Devs : Discover(d) \/ Promise(d) \/ Withdraw(d)
    \/ Reborn

ContractSpec == ContractInit /\ [][ContractNext]_contractVars
=============================================================================
