---------------------------- MODULE FirmwareStore ----------------------------
(***************************************************************************)
(* The firmware directory and its two users: the route that looks for the  *)
(* latest file, which reads the directory and never asks the manager, and  *)
(* the routes of the manager.  What a file name means to each of them      *)
(* differs, so a behaviour follows one, which view says.                   *)
(***************************************************************************)
EXTENDS LatestFirmware, OtaManager

VARIABLE view

storeVars == <<view, latestVars, otaVars>>

StoreInit ==
    /\ view \in {"latest", "manager"}
    /\ LatestInit
    /\ view = "manager" => dir = {}
    /\ OtaInit

StoreNext ==
    \/ view = "latest" /\ LatestNext /\ UNCHANGED <<view, otaVars>>
    \/ view = "manager" /\ OtaNext /\ UNCHANGED <<view, latestVars>>

StoreSpec == StoreInit /\ [][StoreNext]_storeVars

=============================================================================
