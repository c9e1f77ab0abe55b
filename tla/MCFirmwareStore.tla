--------------------------- MODULE MCFirmwareStore ---------------------------
(* Finite instances of FirmwareStore.  The latest file: versions that differ in
   one number each, equal versions of different age, and names without a
   version.  The manager: the default names of two versions, either of which may
   be given to the file of the other. *)
EXTENDS FirmwareStore

File(n, a, b, c, t) == [name |-> n, major |-> a, minor |-> b, patch |-> c, mtime |-> t]

Released ==
    {File("v1.2.0", 1, 2, 0, 3), File("v2.1.0", 2, 1, 0, 1), File("hotfix_2.1.0", 2, 1, 0, 3),
     File("v0.9.0", 0, 9, 0, 2), File("v0.9.1", 0, 9, 1, 1), File("image", 0, 0, 0, 4)}

Names == {"1.bin", "2.bin"}
StemOfName == [n \in Names |-> IF n = "1.bin" THEN "1" ELSE "2"]
NameOfVersion == [v \in Versions |-> IF v = "1" THEN "1.bin" ELSE "2.bin"]

OtaSymmetry == Permutations(Clients)
=============================================================================
