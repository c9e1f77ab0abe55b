------------------------------- MODULE LogFiles -------------------------------
(***************************************************************************)
(* The log files of the service and their rotation                         *)
(* (src/middleware/storage/log_manager.cpp).                               *)
(*                                                                         *)
(* write holds g_log_mutex throughout, the rotation included, so writers   *)
(* do not interleave; a crash may come between any two operations on the   *)
(* file system, and those are the steps of the model.  A line is its       *)
(* number, in the order of writing, and counts one towards the size of its *)
(* file.  Lines below min_level, or written while no file is open, change  *)
(* nothing.  Renaming a file succeeds.                                     *)
(*                                                                         *)
(* files[0] is dev-sys-cloud.log and files[i + 1] is dev-sys-cloud.log.i;  *)
(* a file that does not exist is the empty one.                            *)
(***************************************************************************)
EXTENDS Naturals, Sequences

CONSTANTS
    MaxFiles,       \* LogManager::Impl::max_files
    FileLimit,      \* max_file_size_mb, in lines; one line never fills a file
    MaxLines,       \* lines written per behaviour (bound)
    MaxCrashes      \* crashes per behaviour (bound)

ASSUME LogAssumption ==
    /\ MaxFiles \in Nat \ {0}
    /\ FileLimit \in Nat \ {0, 1}
    /\ MaxLines \in Nat
    /\ MaxCrashes \in Nat

VARIABLES
    files,      \* the files, by position
    pc,         \* where write is: "down", "up", "shift", "current", "reopen"
    slot,       \* the position that the loop of rotate looks at
    open,       \* file_stream.is_open()
    written,    \* lines written so far
    crashes     \* crashes so far

logVars == <<files, pc, slot, open, written, crashes>>

Slots == 0..MaxFiles

-----------------------------------------------------------------------------

(* Mutant: rotation at the exact size only. *)
MutIsFull(s) == Len(s) = FileLimit

(* The test of write for a rotation. *)
IsFull(s) == Len(s) >= FileLimit

(* write: the line goes to the current file; a full one is closed and rotated,
   starting at the oldest position. *)
AppendLine ==
    /\ written < MaxLines
    /\ written' = written + 1
    /\ files' = [files EXCEPT ![0] = Append(@, written')]
    /\ IF IsFull(files'[0])
       THEN pc' = "shift" /\ slot' = MaxFiles /\ open' = FALSE
       ELSE pc' = "up" /\ UNCHANGED slot /\ open' = TRUE

Write ==
    /\ pc = "up" /\ open
    /\ AppendLine
    /\ UNCHANGED crashes

(* One turn of the loop of rotate: the file is removed at the last position,
   and renamed to the next one elsewhere. *)
Shift ==
    /\ pc = "shift"
    /\ files' = IF slot = MaxFiles THEN [files EXCEPT ![slot] = <<>>]
                ELSE IF files[slot] = <<>> THEN files
                ELSE [files EXCEPT ![slot + 1] = files[slot], ![slot] = <<>>]
    /\ slot' = slot - 1
    /\ pc' = IF slot = 1 THEN "current" ELSE "shift"
    /\ UNCHANGED <<open, written, crashes>>

(* rotate ends with the current file becoming .0. *)
RenameCurrent ==
    /\ pc = "current"
    /\ files' = [files EXCEPT ![1] = files[0], ![0] = <<>>]
    /\ pc' = "reopen"
    /\ UNCHANGED <<slot, open, written, crashes>>

(* write opens a new file and writes the line again; or it cannot open it, and
   nothing is logged from then on. *)
Reopen ==
    /\ pc = "reopen"
    /\ pc' = "up"
    /\ \/ open' = TRUE /\ files' = [files EXCEPT ![0] = Append(@, written)]
       \/ UNCHANGED <<open, files>>
    /\ UNCHANGED <<slot, written, crashes>>

(* Mutant: the current file opened without std::ios::app. *)
MutStart ==
    /\ pc = "down"
    /\ written < MaxLines
    /\ written' = written + 1
    /\ files' = [files EXCEPT ![0] = <<written'>>]
    /\ pc' = "up" /\ open' = TRUE
    /\ UNCHANGED <<slot, crashes>>

(* init: the current file is opened for appending and gets a first line; its
   result is ignored. *)
Start ==
    /\ pc = "down"
    /\ \/ AppendLine
       \/ pc' = "up" /\ UNCHANGED <<files, slot, open, written>>
    /\ UNCHANGED crashes

Crash ==
    /\ pc # "down"
    /\ crashes < MaxCrashes
    /\ crashes' = crashes + 1
    /\ pc' = "down"
    /\ open' = FALSE
    /\ UNCHANGED <<files, slot, written>>

LogInit ==
    /\ files = [s \in Slots |-> <<>>]
    /\ pc = "down"
    /\ slot = 0
    /\ open = FALSE
    /\ written = 0
    /\ crashes = 0

LogNext == Write \/ Shift \/ RenameCurrent \/ Reopen \/ Start \/ Crash

LogSpec == LogInit /\ [][LogNext]_logVars

-----------------------------------------------------------------------------
(* Properties *)

(* k is the next older file that has lines after j. *)
Follows(j, k) ==
    /\ j < k
    /\ files[j] # <<>> /\ files[k] # <<>>
    /\ \A m \in Slots : j < m /\ m < k => files[m] = <<>>

(* Whatever rotations and crashes came before: read from the oldest file to the
   current one, the files have every line from some point on, in order; none is
   missing in between or at the end.  Only the line that filled a file may come
   twice, at its end and at the beginning of the next one. *)
NothingLostBetween ==
    /\ \A s \in Slots : \A i \in 1..(Len(files[s]) - 1) : files[s][i + 1] = files[s][i] + 1
    /\ \A j, k \in Slots : Follows(j, k) =>
          files[j][1] \in {files[k][Len(files[k])], files[k][Len(files[k])] + 1}
    /\ \A j \in Slots : files[j] # <<>> /\ (\A m \in Slots : m < j => files[m] = <<>>) =>
          files[j][Len(files[j])] = written

(* A file grows past its limit by one line for a crash at most, since init
   appends to the file that a crash kept from being rotated. *)
FilesBounded == \A s \in Slots : Len(files[s]) <= FileLimit + crashes

=============================================================================
