------------------------------ MODULE OtaManager ------------------------------
(***************************************************************************)
(* Firmware versions and upgrades: src/app/ota/ota_manager.cpp, the        *)
(* routes below /api/v1/ota in src/main.cpp that change something, and the *)
(* scan of ./firmware at the start.                                        *)
(*                                                                         *)
(* Registered versions live in memory only: nothing inserts into the       *)
(* firmwares table, so a new process knows what the scan finds.  A request *)
(* is interruptible between a call of the manager, which holds mutex_, and *)
(* an operation on the file system.  The pushes read firmware_versions_    *)
(* without the lock; a lookup that races a change of the vector has no     *)
(* defined outcome and is left out.                                        *)
(*                                                                         *)
(* There is one product.  A file has the name the client gives, or         *)
(* version.bin; the scan takes the name without its extension for the      *)
(* version (Stem), whatever version was uploaded under it.                 *)
(***************************************************************************)
EXTENDS Naturals, Sequences, FiniteSets, SequencesExt

CONSTANTS
    Versions,
    FileNames,
    Stem,           \* per file name: the version the scan derives from it
    DefaultName,    \* per version: version.bin
    Machines,       \* devices that upgrades are pushed to
    Clients,        \* requests under way at the same time (bound)
    MaxEntries,     \* versions registered at the same time (bound)
    MaxRestarts,    \* crashes per behaviour (bound)
    None

(* FirmwareVersion: file_name is None where it is empty. *)
Firmware == [version : Versions, file : FileNames \cup {None}]

(* Requests under way; name is the file that an upload wrote. *)
OtaCalls ==
    [pc : {"post", "delete", "unlink"}, fw : Firmware]
        \cup [pc : {"upload"}, fw : Firmware, name : FileNames]
        \cup [pc : {"group"}, fw : Firmware, left : SUBSET Machines]

ASSUME OtaAssumption ==
    /\ Stem \in [FileNames -> Versions]
    /\ DefaultName \in [Versions -> FileNames]
    /\ \A v \in Versions : Stem[DefaultName[v]] = v
    /\ None \notin Versions \cup FileNames
    /\ None \notin OtaCalls
    /\ MaxEntries \in Nat
    /\ MaxRestarts \in Nat

VARIABLES
    registry,   \* firmware_versions_
    disk,       \* the files in ./firmware
    records,    \* ota_records_: per machine, None where there is none
    call,       \* per client: the request under way, None between two
    restarts,   \* crashes so far
    claim,      \* history: uploads under way whose file is still theirs
    kept        \* history: uploads answered with success, neither deleted nor
                \* overwritten since

otaVars == <<registry, disk, records, call, restarts, claim, kept>>

(* find_if over the versions: the oldest entry, 0 if there is none. *)
FindFirmware(v) == SelectInSeq(registry, LAMBDA fw : fw.version = v)
Registered(v) == FindFirmware(v) # 0

Continue(h, pc, fw) == call' = [call EXCEPT ![h] = [pc |-> pc, fw |-> fw]]
Done(h) == call' = [call EXCEPT ![h] = None]
Room == Len(registry) < MaxEntries

-----------------------------------------------------------------------------
(* A file of this name was written or removed: it is no longer theirs. *)
Disown(name) ==
    /\ kept' = {u \in kept : u.file # name}
    /\ claim' = {h \in claim : call[h].name # name}

(* POST .../firmwares/upload: the file first; 500 if it cannot be opened.
   file_name is left empty. *)
UploadFile(h, v, name) ==
    /\ call[h] = None
    /\ disk' = disk \cup {name}
    /\ call' = [call EXCEPT ![h] =
                   [pc |-> "upload", fw |-> [version |-> v, file |-> None], name |-> name]]
    /\ kept' = {u \in kept : u.file # name}
    /\ claim' = {g \in claim : call[g].name # name} \cup {h}
    /\ UNCHANGED <<registry, records, restarts>>

(* POST .../firmwares: the file if the request carries one, under file_name or
   version.bin; whether it was written is not looked at. *)
PostFile(h, v, file) ==
    LET name == IF file = None THEN DefaultName[v] ELSE file IN
    /\ call[h] = None
    /\ \/ disk' = disk \cup {name} /\ Disown(name)
       \/ UNCHANGED <<disk, claim, kept>>
    /\ Continue(h, "post", [version |-> v, file |-> file])
    /\ UNCHANGED <<registry, records, restarts>>

(* register_firmware: a version may be registered again; then the answer. *)
RegisterFirmware(h) ==
    /\ call[h] # None /\ call[h].pc \in {"upload", "post"}
    /\ Room
    /\ registry' = Append(registry, call[h].fw)
    /\ Done(h)
    /\ kept' = IF h \in claim
               THEN kept \cup {[version |-> call[h].fw.version, file |-> call[h].name,
                                run |-> restarts]}
               ELSE kept
    /\ claim' = claim \ {h}
    /\ UNCHANGED <<disk, records, restarts>>

-----------------------------------------------------------------------------
(* DELETE .../firmwares/{version} *)

(* The version an upload is known by: its own in the process that took it, the
   one in its file name after a restart. *)
KnownBy(u) == IF u.run = restarts THEN u.version ELSE Stem[u.file]

(* get_firmware, whose copy decides about the file. *)
DeleteLookUp(h, v) ==
    /\ call[h] = None
    /\ Continue(h, "delete",
                IF Registered(v) THEN registry[FindFirmware(v)]
                ELSE [version |-> v, file |-> None])
    /\ UNCHANGED <<registry, disk, records, restarts, claim, kept>>

(* delete_firmware: an upgrade under way would hold it up, but no report changes a
   stage and a pending one does not. *)
InUse(v) == \E d \in Machines : records[d] # None /\ records[d].target = v
                                /\ records[d].stage \in {"downloading", "installing"}

DeleteFirmware(h) ==
    LET fw == call[h].fw IN
    /\ call[h] # None /\ call[h].pc = "delete"
    /\ IF Registered(fw.version) /\ ~InUse(fw.version)
       THEN /\ registry' = RemoveAt(registry, FindFirmware(fw.version))
            /\ IF fw.file # None THEN Continue(h, "unlink", fw) ELSE Done(h)
            /\ kept' = {u \in kept : KnownBy(u) # fw.version}
       ELSE Done(h) /\ UNCHANGED <<registry, kept>>
    /\ UNCHANGED <<disk, records, restarts, claim>>

RemoveFile(h) ==
    LET name == call[h].fw.file IN
    /\ call[h] # None /\ call[h].pc = "unlink"
    /\ disk' = disk \ {name}
    /\ Done(h)
    /\ Disown(name)
    /\ UNCHANGED <<registry, records, restarts>>

-----------------------------------------------------------------------------
(* POST .../ota/push *)

(* push_to_device: the machine's record is replaced. *)
PushToDevice(d, v) ==
    /\ Registered(v)
    /\ records' = [records EXCEPT ![d] = [target |-> v, stage |-> "pending"]]
    /\ UNCHANGED <<registry, disk, call, restarts, claim, kept>>

(* push_grayscale and push_all look the version up, take a copy of the machines
   that qualify, and push to each, looking the version up again. *)
PushGroup(h, v, group) ==
    /\ call[h] = None
    /\ Registered(v)
    /\ call' = [call EXCEPT ![h] =
                   [pc |-> "group", fw |-> [version |-> v, file |-> None], left |-> group]]
    /\ UNCHANGED <<registry, disk, records, restarts, claim, kept>>

(* The mode of the request decides. *)
PushRequest(h, v) ==
    \/ \E d \in Machines : PushToDevice(d, v)
    \/ \E group \in SUBSET Machines : PushGroup(h, v, group)

PushNext(h) ==
    /\ call[h] # None /\ call[h].pc = "group"
    /\ \/ \E d \in call[h].left :
             /\ records' = IF Registered(call[h].fw.version)
                           THEN [records EXCEPT ![d] = [target |-> call[h].fw.version,
                                                        stage |-> "pending"]]
                           ELSE records
             /\ call' = [call EXCEPT ![h].left = @ \ {d}]
       \/ call[h].left = {} /\ Done(h) /\ UNCHANGED records
    /\ UNCHANGED <<registry, disk, restarts, claim, kept>>

-----------------------------------------------------------------------------
(* Restart *)

(* Mutant: directory_iterator read once, so that one file is found. *)
MutScanned(s) == [i \in DOMAIN s \cap {1} |-> [version |-> Stem[s[i]], file |-> s[i]]]

(* The scan registers a file under the version in its name ... *)
Scanned(s) == [i \in DOMAIN s |-> [version |-> Stem[s[i]], file |-> s[i]]]

(* ... unless one with that version came before it, in whatever order the
   directory gives: one file for each version found. *)
FirstOfEach(F) ==
    /\ \A n \in disk : \E m \in F : Stem[m] = Stem[n]
    /\ \A m, n \in F : Stem[m] = Stem[n] => m = n

Restart ==
    /\ restarts < MaxRestarts
    /\ restarts' = restarts + 1
    /\ \E F \in SUBSET disk :
          /\ FirstOfEach(F)
          /\ Cardinality(F) <= MaxEntries
          /\ \E s \in SetToSeqs(F) : registry' = Scanned(s)
    /\ records' = [d \in Machines |-> None]
    /\ call' = [h \in Clients |-> None]
    /\ claim' = {}
    /\ UNCHANGED <<disk, kept>>

(* process_ota_progress changes nothing if the machine has a record; else it adds
   an empty one and then reads through the end iterator, which ends the process. *)
ProgressUnknown(d) == records[d] = None /\ Restart

-----------------------------------------------------------------------------
OtaInit ==
    /\ registry = <<>>
    /\ disk = {}
    /\ records = [d \in Machines |-> None]
    /\ call = [h \in Clients |-> None]
    /\ restarts = 0
    /\ claim = {}
    /\ kept = {}

OtaNext ==
    \/ \E h \in Clients, v \in Versions :
          \/ \E name \in FileNames : UploadFile(h, v, name)
          \/ \E file \in FileNames \cup {None} : PostFile(h, v, file)
          \/ DeleteLookUp(h, v)
          \/ PushRequest(h, v)
    \/ \E h \in Clients :
          \/ RegisterFirmware(h)
          \/ DeleteFirmware(h)
          \/ RemoveFile(h)
          \/ PushNext(h)
    \/ \E d \in Machines : ProgressUnknown(d)
    \/ Restart

OtaSpec == OtaInit /\ [][OtaNext]_otaVars

-----------------------------------------------------------------------------
(* Properties *)

(* An upload that was answered with success has its file, and a version that
   the manager knows: its own in this process, the one in its file name after a
   crash, which nothing but the file survives.  Only a DELETE of that version,
   or of one that names the file, or another file of that name ends this,
   whatever requests overlap and however often a version is registered (the
   upload, register and delete routes, the scan). *)
UploadsKept == \A u \in kept : u.file \in disk /\ Registered(KnownBy(u))

(* What the comment on the scan says, main.cpp:212, "Scan disk for firmware
   files (survives restart)": an uploaded version is known as long as its upload
   is kept, after a restart too. *)
VersionsSurvive == \A u \in kept : Registered(u.version)
=============================================================================
