--------------------------- MODULE LatestFirmware ---------------------------
(***************************************************************************)
(* GET /api/v1/ota/firmwares/latest (src/main.cpp): one pass over the      *)
(* files of a product directory keeps the newest so far.  The directory is *)
(* iterated in an order the operating system chooses, while uploads add    *)
(* files and the delete route removes them.                                *)
(*                                                                         *)
(* A file is its parsed version and its modification time; a name without  *)
(* an X.Y.Z parses as 0.0.0.  Size and checksum follow the chosen file.    *)
(***************************************************************************)
EXTENDS Integers

CONSTANTS
    Files,      \* files that may ever be in the directory
    NoFile      \* no file chosen

(* parse_version takes digits only and a file has been written some time. *)
ASSUME FilesAssumption ==
    /\ Files \subseteq [name : STRING, major : Nat, minor : Nat, patch : Nat,
                        mtime : Nat \ {0}]
    /\ NoFile \notin Files

Versioned(f) == f.major > 0 \/ f.minor > 0 \/ f.patch > 0

VARIABLES
    dir,        \* files in the product directory
    left,       \* entries the iteration has still to visit
    seen,       \* history: entries compared so far
    best,       \* best_file
    mark        \* best_major, best_minor, best_patch and best_mtime

latestVars == <<dir, left, seen, best, mark>>

Marks == [major : Int, minor : Nat, patch : Nat, mtime : Nat]
NoMark == [major |-> -1, minor |-> 0, patch |-> 0, mtime |-> 0]
MarkOf(f) == [major |-> f.major, minor |-> f.minor, patch |-> f.patch,
              mtime |-> f.mtime]

-----------------------------------------------------------------------------
(* Mutant: the minor number compared whatever the major one is. *)
MutMinorAlone(f) ==
    IF Versioned(f)
    THEN \/ f.major > mark.major
         \/ f.minor > mark.minor
         \/ f.major = mark.major /\ f.minor = mark.minor /\ f.patch > mark.patch
         \/ MarkOf(f) = [mark EXCEPT !.mtime = f.mtime] /\ f.mtime > mark.mtime
    ELSE mark.major < 1 /\ f.mtime > mark.mtime

(* is_newer: versions by their numbers, ties by time; an unversioned file only
   while the best so far has a major number below 1. *)
IsNewer(f) ==
    IF Versioned(f)
    THEN \/ f.major > mark.major
         \/ f.major = mark.major /\ f.minor > mark.minor
         \/ f.major = mark.major /\ f.minor = mark.minor /\ f.patch > mark.patch
         \/ MarkOf(f) = [mark EXCEPT !.mtime = f.mtime] /\ f.mtime > mark.mtime
    ELSE mark.major < 1 /\ f.mtime > mark.mtime

(* One turn of the loop. *)
Visit(f) ==
    /\ f \in left \cap dir
    /\ left' = left \ {f}
    /\ seen' = seen \cup {f}
    /\ IF IsNewer(f)
       THEN best' = f /\ mark' = MarkOf(f)
       ELSE UNCHANGED <<best, mark>>
    /\ UNCHANGED dir

(* stat fails for an entry that was removed since. *)
Skip(f) ==
    /\ f \in left \ dir
    /\ left' = left \ {f}
    /\ UNCHANGED <<dir, seen, best, mark>>

(* The delete and upload routes; whether an iteration under way returns a file
   added to the directory is up to the operating system. *)
DeleteFile(f) ==
    /\ f \in dir
    /\ dir' = dir \ {f}
    /\ UNCHANGED <<left, seen, best, mark>>

Add(f) ==
    /\ f \in Files \ dir
    /\ dir' = dir \cup {f}
    /\ left' \in {left, left \cup ({f} \ seen)}
    /\ UNCHANGED <<seen, best, mark>>

LatestInit ==
    /\ dir \in SUBSET Files
    /\ left = dir
    /\ seen = {}
    /\ best = NoFile
    /\ mark = NoMark

LatestNext == \E f \in Files : Visit(f) \/ Skip(f) \/ DeleteFile(f) \/ Add(f)

LatestSpec == LatestInit /\ [][LatestNext]_latestVars

-----------------------------------------------------------------------------
(* Reference: what "latest" means *)

(* f ranks above g: by version, and by time between equal versions.  0.0.0,
   the version of an unversioned file, ranks below every other. *)
Above(f, g) ==
    \/ f.major > g.major
    \/ f.major = g.major /\ f.minor > g.minor
    \/ f.major = g.major /\ f.minor = g.minor /\ f.patch > g.patch
    \/ /\ f.major = g.major /\ f.minor = g.minor /\ f.patch = g.patch
       /\ f.mtime > g.mtime

(* Whatever the order of the iteration and whatever comes and goes meanwhile,
   the answer is one of the files compared, and is missing only if there were
   none (the route's 404).  No file compared ranks above it, unless versions
   0.x met names without a version and nothing from 1.0.0 on was there: then
   the order of the directory decides, as UnversionedSkipped shows. *)
LatestIsHighest ==
    IF seen = {} THEN best = NoFile
    ELSE /\ best \in seen
         /\ \/ \E f \in seen : f.major >= 1
            \/ \A f \in seen : Versioned(f)
            \/ \A f \in seen : ~Versioned(f)
            => \A f \in seen : ~Above(f, best)

(* What the comment at main.cpp:1136 says of the loop, "If current is
   unversioned but best is versioned, skip": a versioned best is never replaced
   by a file without a version. *)
UnversionedSkipped ==
    [][best # NoFile /\ Versioned(best) => Versioned(best')]_latestVars

(* The inductive invariant: the running maximum describes the chosen file. *)
LatestInv ==
    /\ seen \subseteq Files
    /\ LatestIsHighest
    /\ mark = IF best = NoFile THEN NoMark ELSE MarkOf(best)
=============================================================================
