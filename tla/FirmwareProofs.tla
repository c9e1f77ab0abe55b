--------------------------- MODULE FirmwareProofs ---------------------------
(***************************************************************************)
(* Firmware: the route that looks for the latest version answers with the  *)
(* highest of the files it compared, for any files, any order of the       *)
(* iteration and any removals and uploads meanwhile, as far as the code    *)
(* ranks them; and an acknowledged upload is kept, for any number of       *)
(* versions, file names, requests and restarts.                            *)
(***************************************************************************)
EXTENDS LatestFirmware, OtaManager, FiniteSetTheorems, SequenceTheorems,
        NaturalsInduction, WellFoundedInduction, TLAPS

-----------------------------------------------------------------------------
(* The latest firmware *)

(* Keeping the higher of two files keeps the highest of all: not ranking above
   is transitive (the comparisons of the route's loop). *)
LEMMA AboveTransitive ==
    ASSUME NEW f \in Files, NEW g \in Files, NEW h \in Files,
           ~Above(f, g), ~Above(g, h)
    PROVE  ~Above(f, h)
BY FilesAssumption DEF Above

(* is_newer compares a file with the numbers of the best one exactly as Above
   compares the two files, but for an unversioned file and a best 0.x. *)
LEMMA NewerIsAbove ==
    ASSUME NEW f \in Files, best \in Files, mark = MarkOf(best),
           Versioned(f) \/ ~Versioned(best) \/ best.major >= 1
    PROVE  IsNewer(f) <=> Above(f, best)
<1>1. /\ f.major \in Nat /\ f.minor \in Nat /\ f.patch \in Nat /\ f.mtime \in Nat
      /\ best.major \in Nat /\ best.minor \in Nat /\ best.patch \in Nat
      /\ best.mtime \in Nat
  BY FilesAssumption
<1>2. /\ mark.major = best.major /\ mark.minor = best.minor
      /\ mark.patch = best.patch /\ mark.mtime = best.mtime
  BY DEF MarkOf
<1>3. MarkOf(f) = [mark EXCEPT !.mtime = f.mtime]
        <=> f.major = best.major /\ f.minor = best.minor /\ f.patch = best.patch
  BY DEF MarkOf
<1>. QED
  BY <1>1, <1>2, <1>3 DEF IsNewer, Above, Versioned

(* The first file compared is always chosen: the marks start below any file. *)
LEMMA FirstIsNewer ==
    ASSUME NEW f \in Files, mark = NoMark
    PROVE  IsNewer(f)
BY FilesAssumption DEF IsNewer, NoMark, MarkOf, Versioned

(* When the answer must be the highest of the files compared. *)
Decided(S) == \/ \E f \in S : f.major >= 1
              \/ \A f \in S : Versioned(f)
              \/ \A f \in S : ~Versioned(f)

(* The answer of GET /ota/firmwares/latest, for any files, 0.x and unversioned
   ones among them: one of the files the loop compared, missing only if it
   compared none, and the highest of them as soon as one is 1.0.0 or later, or
   all have a version, or none has. *)
THEOREM LatestCorrect == LatestSpec => []LatestIsHighest
<1>1. LatestInit => LatestInv
  BY FilesAssumption DEF LatestInit, LatestInv, LatestIsHighest
<1>2. LatestInv /\ [LatestNext]_latestVars => LatestInv'
  <2>. SUFFICES ASSUME LatestInv, [LatestNext]_latestVars PROVE LatestInv'
    OBVIOUS
  <2>1. ASSUME NEW f \in Files, Visit(f) PROVE LatestInv'
    <3>1. seen' = seen \cup {f} /\ seen' \subseteq Files
      BY <2>1 DEF Visit, LatestInv
    <3>2. CASE best = NoFile
      <4>1. seen = {} /\ mark = NoMark
        BY <3>2, FilesAssumption DEF LatestInv, LatestIsHighest
      <4>2. best' = f /\ mark' = MarkOf(f)
        BY <2>1, <4>1, FirstIsNewer DEF Visit
      <4>3. ~Above(f, f)
        BY FilesAssumption DEF Above
      <4>. QED
        BY <3>1, <4>1, <4>2, <4>3, FilesAssumption DEF LatestInv, LatestIsHighest
    <3>3. CASE best # NoFile
      <4>1. best \in seen /\ best \in Files /\ mark = MarkOf(best)
        BY <3>3 DEF LatestInv, LatestIsHighest
      <4>2. Decided(seen) => \A g \in seen : ~Above(g, best)
        BY <4>1 DEF LatestInv, LatestIsHighest, Decided
      <4>3. /\ best' \in seen' /\ mark' = MarkOf(best')
            /\ best' = IF IsNewer(f) THEN f ELSE best
        BY <2>1, <3>1, <4>1 DEF Visit
      <4>4. ASSUME Decided(seen') PROVE \A g \in seen' : ~Above(g, best')
        <5>1. CASE f.major >= 1 /\ \A g \in seen : ~(g.major >= 1)
          <6>1. IsNewer(f)
            BY <4>1, <5>1, FilesAssumption DEF IsNewer, MarkOf, Versioned
          <6>2. \A g \in seen \cup {f} : ~Above(g, f)
            BY <5>1, FilesAssumption DEF LatestInv, Above
          <6>. QED
            BY <3>1, <4>3, <6>1, <6>2
        <5>2. CASE ~(f.major >= 1 /\ \A g \in seen : ~(g.major >= 1))
          <6>1. Decided(seen)
            BY <3>1, <4>4, <5>2 DEF Decided
          <6>2. Versioned(f) \/ ~Versioned(best) \/ best.major >= 1
            <7>1. ASSUME NEW g \in seen, g.major >= 1 PROVE best.major >= 1
              <8>1. ~Above(g, best)
                BY <4>2, <6>1, <7>1
              <8>. QED
                BY <4>1, <7>1, <8>1, FilesAssumption DEF LatestInv, Above
            <7>. QED
              BY <3>1, <4>1, <4>4, <5>2, <7>1 DEF Decided
          <6>3. IsNewer(f) <=> Above(f, best)
            BY <4>1, <6>2, NewerIsAbove
          <6>4. CASE IsNewer(f)
            <7>1. ~Above(f, f) /\ ~Above(best, f)
              BY <4>1, <6>3, <6>4, FilesAssumption DEF Above
            <7>2. \A g \in seen : ~Above(g, f)
              BY <4>1, <4>2, <6>1, <7>1, AboveTransitive DEF LatestInv
            <7>. QED
              BY <3>1, <4>3, <6>4, <7>1, <7>2
          <6>5. CASE ~IsNewer(f)
            BY <3>1, <4>2, <4>3, <6>1, <6>3, <6>5
          <6>. QED
            BY <6>4, <6>5
        <5>. QED
          BY <5>1, <5>2
      <4>5. best' # NoFile /\ seen' # {}
        BY <3>1, <4>3, FilesAssumption
      <4>. QED
        BY <3>1, <4>3, <4>4, <4>5 DEF LatestInv, LatestIsHighest, Decided
    <3>. QED
      BY <3>2, <3>3
  <2>2. ASSUME NEW f \in Files, Skip(f) \/ DeleteFile(f) \/ Add(f) PROVE LatestInv'
    <3>1. UNCHANGED <<seen, best, mark>>
      BY <2>2 DEF Skip, DeleteFile, Add
    <3>. QED
      BY <3>1 DEF LatestInv, LatestIsHighest
  <2>3. CASE UNCHANGED latestVars
    BY <2>3 DEF latestVars, LatestInv, LatestIsHighest
  <2>. QED
    BY <2>1, <2>2, <2>3 DEF LatestNext
<1>3. LatestInv => LatestIsHighest
  BY DEF LatestInv
<1>. QED
  BY <1>1, <1>2, <1>3, PTL DEF LatestSpec

-----------------------------------------------------------------------------
(* Registered versions *)

(* A non-empty set of naturals has a smallest element. *)
LEMMA SmallestElement ==
    ASSUME NEW T \in SUBSET Nat, T # {}
    PROVE  Min(T) \in T
<1>1. PICK x \in T : \A y \in T : ~(<<y, x>> \in OpToRel(<, Nat))
  BY NatLessThanWellFounded, WFMin, Zenon
<1>2. \A y \in T : ~(y < x)
  BY <1>1 DEF OpToRel
<1>3. \A y \in T : x <= y
  BY <1>2
<1>. QED
  BY <1>3 DEF Min

(* The first entry of a list of versions with a given one, 0 if there is none. *)
FirstWith(s, v) ==
    LET I == {i \in 1..Len(s) : s[i].version = v} IN IF I # {} THEN Min(I) ELSE 0

(* It is 0 exactly if there is none, and else it is one. *)
LEMMA FirstWithFinds ==
    ASSUME NEW s \in Seq(Firmware), NEW v
    PROVE  /\ FirstWith(s, v) # 0 <=> \E i \in 1..Len(s) : s[i].version = v
           /\ FirstWith(s, v) # 0 => /\ FirstWith(s, v) \in 1..Len(s)
                                     /\ s[FirstWith(s, v)].version = v
<1>. DEFINE I == {i \in 1..Len(s) : s[i].version = v}
<1>1. FirstWith(s, v) = IF I # {} THEN Min(I) ELSE 0
  BY DEF FirstWith
<1>2. I \in SUBSET Nat /\ I \subseteq 1..Len(s)
  OBVIOUS
<1>3. I # {} => Min(I) \in I
  BY <1>2, SmallestElement
<1>4. CASE I # {}
  <2>1. FirstWith(s, v) \in I
    BY <1>1, <1>3, <1>4
  <2>. QED
    BY <1>4, <2>1
<1>5. CASE I = {}
  BY <1>1, <1>5
<1>. QED
  BY <1>4, <1>5

(* A version is registered if some entry has it, and the entry found is one. *)
LEMMA FindFirst ==
    ASSUME registry \in Seq(Firmware), NEW v
    PROVE  /\ Registered(v) <=> \E i \in 1..Len(registry) : registry[i].version = v
           /\ Registered(v) => /\ FindFirmware(v) \in 1..Len(registry)
                               /\ registry[FindFirmware(v)].version = v
<1>1. FindFirmware(v) = FirstWith(registry, v)
  BY DEF FindFirmware, SelectInSeq, FirstWith
<1>. QED
  BY <1>1, FirstWithFinds DEF Registered

(* The same after a step. *)
LEMMA FindFirstAfter ==
    ASSUME registry' \in Seq(Firmware), NEW v
    PROVE  Registered(v)' <=> \E i \in 1..Len(registry') : registry'[i].version = v
<1>1. FindFirmware(v)' = FirstWith(registry', v)
  BY DEF FindFirmware, SelectInSeq, FirstWith
<1>. QED
  BY <1>1, FirstWithFinds DEF Registered

(* Taking one entry out of a list leaves all others. *)
LEMMA RemoveAtLeavesOthers ==
    ASSUME NEW S, NEW s \in Seq(S), NEW i \in 1..Len(s)
    PROVE  /\ RemoveAt(s, i) \in Seq(S)
           /\ \A j \in 1..Len(s) : j # i =>
                 \E k \in 1..Len(RemoveAt(s, i)) : RemoveAt(s, i)[k] = s[j]
<1>. DEFINE a == SubSeq(s, 1, i - 1)
            b == SubSeq(s, i + 1, Len(s))
<1>1. /\ a \in Seq(S) /\ Len(a) = i - 1
      /\ \A k \in 1..(i - 1) : a[k] = s[k]
  OBVIOUS
<1>2. /\ b \in Seq(S) /\ Len(b) = Len(s) - i
      /\ \A k \in 1..(Len(s) - i) : b[k] = s[i + k]
  OBVIOUS
<1>. DEFINE c == a \o b
<1>3. RemoveAt(s, i) = c
  BY DEF RemoveAt
<1>. HIDE DEF a, b
<1>4. /\ c \in Seq(S) /\ Len(c) = Len(s) - 1
      /\ \A k \in 1..(Len(s) - 1) : c[k] = IF k <= i - 1 THEN a[k] ELSE b[k - (i - 1)]
  <2>1. /\ c \in Seq(S) /\ Len(c) = Len(a) + Len(b)
        /\ \A k \in 1..(Len(a) + Len(b)) : c[k] = IF k <= Len(a) THEN a[k] ELSE b[k - Len(a)]
    BY <1>1, <1>2, ConcatProperties, Zenon
  <2>2. Len(a) + Len(b) = Len(s) - 1
    BY <1>1, <1>2
  <2>. QED
    BY <1>1, <2>1, <2>2, Zenon
<1>. HIDE DEF c
<1>5. ASSUME NEW j \in 1..Len(s), j # i
      PROVE  \E k \in 1..Len(c) : c[k] = s[j]
  <2>1. CASE j < i
    <3>1. j \in 1..(Len(s) - 1) /\ j <= i - 1 /\ j \in 1..(i - 1)
      BY <2>1
    <3>. QED
      BY <1>1, <1>4, <3>1
  <2>2. CASE j > i
    <3>1. j - 1 \in 1..(Len(s) - 1) /\ ~(j - 1 <= i - 1) /\ j - i \in 1..(Len(s) - i)
      BY <2>2
    <3>2. c[j - 1] = b[j - 1 - (i - 1)]
      BY <1>4, <3>1
    <3>3. j - 1 - (i - 1) = j - i /\ i + (j - i) = j
      BY <2>2
    <3>4. b[j - i] = s[j]
      BY <1>2, <3>1, <3>3
    <3>. QED
      BY <1>4, <3>1, <3>2, <3>3, <3>4
  <2>. QED
    BY <1>5, <2>1, <2>2
<1>. QED
  BY <1>3, <1>4, <1>5

(* The order a directory is read in leaves out no file of those chosen. *)
LEMMA ScanFindsAll ==
    ASSUME NEW D, IsFiniteSet(D), D \subseteq FileNames, NEW s \in SetToSeqs(D)
    PROVE  /\ Scanned(s) \in Seq(Firmware)
           /\ \A m \in D : \E i \in 1..Len(Scanned(s)) : Scanned(s)[i].version = Stem[m]
<1>. DEFINE n == Cardinality(D)
<1>1. n \in Nat /\ IsFiniteSet(1..n) /\ Cardinality(1..n) = n
  BY FS_CardinalityType, FS_Interval
<1>2. s \in [1..n -> D] /\ \A i, j \in 1..n : i # j => s[i] # s[j]
  BY DEF SetToSeqs
<1>. HIDE DEF n
<1>3. s \in Injection(1..n, D)
  BY <1>2 DEF Injection, IsInjective
<1>4. s \in Surjection(1..n, D)
  BY <1>1, <1>3, FS_Injection DEF n
<1>5. \A m \in D : \E i \in 1..n : s[i] = m
  BY <1>4 DEF Surjection
<1>6. Scanned(s) = [i \in 1..n |-> [version |-> Stem[s[i]], file |-> s[i]]]
  BY <1>2 DEF Scanned
<1>7. \A i \in 1..n : [version |-> Stem[s[i]], file |-> s[i]] \in Firmware
  BY <1>2, OtaAssumption DEF Firmware
<1>8. Scanned(s) \in Seq(Firmware) /\ Len(Scanned(s)) = n
  BY <1>1, <1>6, <1>7
<1>9. \A i \in 1..n : Scanned(s)[i].version = Stem[s[i]]
  BY <1>6
<1>. QED
  BY <1>5, <1>8, <1>9

-----------------------------------------------------------------------------
(* Uploads *)

(* What makes UploadsKept inductive: an upload that still has its claim is
   between writing its file and registering it, and its file is there. *)
ClaimsHaveFiles ==
    \A h \in claim : /\ call[h] # None /\ call[h].pc = "upload"
                     /\ call[h].name \in disk

Uploads == [version : Versions, file : FileNames, run : Nat]

OtaTypes ==
    /\ registry \in Seq(Firmware)
    /\ disk \subseteq FileNames /\ IsFiniteSet(disk)
    /\ call \in [Clients -> OtaCalls \cup {None}]
    /\ restarts \in Nat
    /\ claim \subseteq Clients
    /\ kept \subseteq Uploads
    /\ \A u \in kept : u.run <= restarts

OtaInv == OtaTypes /\ ClaimsHaveFiles /\ UploadsKept

(* Registration depends on the list of versions only. *)
LEMMA RegisteredSame ==
    ASSUME UNCHANGED registry, NEW v
    PROVE  Registered(v)' <=> Registered(v)
BY DEF Registered, FindFirmware, SelectInSeq

(* Uploads lose nothing while the versions and their files stay. *)
LEMMA KeptSame ==
    ASSUME OtaTypes, UploadsKept, UNCHANGED <<registry, restarts>>, kept' \subseteq kept,
           \A u \in kept' : u.file \in disk => u.file \in disk'
    PROVE  UploadsKept' /\ \A u \in kept' : u \in Uploads /\ u.run <= restarts'
<1>1. \A u : KnownBy(u)' = KnownBy(u)
  BY DEF KnownBy
<1>2. \A u \in kept' : Registered(KnownBy(u))'
  BY <1>1, RegisteredSame DEF UploadsKept
<1>. QED
  BY <1>2 DEF UploadsKept, OtaTypes

(* What a request under way carries. *)
LEMMA CallFirmware ==
    ASSUME NEW q \in OtaCalls
    PROVE  /\ q.fw \in Firmware /\ q.fw.version \in Versions
           /\ q.pc = "upload" => q.name \in FileNames
BY DEF OtaCalls, Firmware

(* A step of one client leaves the claims of the others alone. *)
LEMMA OthersKeepClaims ==
    ASSUME OtaTypes, ClaimsHaveFiles, NEW h \in Clients, NEW q,
           call' = [call EXCEPT ![h] = q], claim' \subseteq claim, h \notin claim',
           \A g \in claim' : call[g].name \in disk => call[g].name \in disk'
    PROVE  ClaimsHaveFiles'
<1>1. \A g \in Clients : g # h => call'[g] = call[g]
  BY DEF OtaTypes
<1>2. \A g \in claim' : g \in Clients /\ g # h
  BY DEF OtaTypes
<1>. QED
  BY <1>1, <1>2 DEF ClaimsHaveFiles

(* The upload route writes its file: it is its own, and nobody else's. *)
LEMMA UploadStep ==
    ASSUME OtaInv, NEW h \in Clients, NEW v \in Versions, NEW n \in FileNames,
           UploadFile(h, v, n)
    PROVE  OtaInv'
<1>0. OtaTypes /\ ClaimsHaveFiles /\ UploadsKept
  BY DEF OtaInv
<1>. DEFINE q == [pc |-> "upload", fw |-> [version |-> v, file |-> None], name |-> n]
<1>1. q \in OtaCalls
  BY DEF OtaCalls, Firmware
<1>2. q \in OtaCalls /\ q # None /\ q.pc = "upload" /\ q.name = n
  BY <1>1, OtaAssumption
<1>3. /\ call' = [call EXCEPT ![h] = q] /\ claim' = {g \in claim : call[g].name # n} \cup {h}
      /\ kept' = {u \in kept : u.file # n}
      /\ disk' = disk \cup {n} /\ UNCHANGED <<registry, restarts>>
  BY DEF UploadFile
<1>. HIDE DEF q
<1>4. UploadsKept' /\ \A u \in kept' : u \in Uploads /\ u.run <= restarts'
  BY <1>0, <1>3, KeptSame
<1>5. OtaTypes'
  BY <1>0, <1>2, <1>3, <1>4, FS_AddElement DEF OtaTypes
<1>6. call'[h] = q /\ \A g \in Clients : g # h => call'[g] = call[g]
  BY <1>0, <1>3 DEF OtaTypes
<1>7. ClaimsHaveFiles'
  BY <1>0, <1>2, <1>3, <1>6 DEF OtaTypes, ClaimsHaveFiles
<1>. QED
  BY <1>4, <1>5, <1>7 DEF OtaInv

(* The register route may write a file, which is nobody's then. *)
LEMMA PostStep ==
    ASSUME OtaInv, NEW h \in Clients, NEW v \in Versions, NEW file \in FileNames \cup {None},
           PostFile(h, v, file)
    PROVE  OtaInv'
<1>0. OtaTypes /\ ClaimsHaveFiles /\ UploadsKept
  BY DEF OtaInv
<1>. DEFINE q == [pc |-> "post", fw |-> [version |-> v, file |-> file]]
            n == IF file = None THEN DefaultName[v] ELSE file
<1>1. q \in OtaCalls
  BY DEF OtaCalls, Firmware
<1>2. n \in FileNames
  BY OtaAssumption
<1>3. /\ call' = [call EXCEPT ![h] = q] /\ call[h] = None /\ UNCHANGED <<registry, restarts>>
      /\ \/ /\ disk' = disk \cup {n} /\ kept' = {u \in kept : u.file # n}
            /\ claim' = {g \in claim : call[g].name # n}
         \/ UNCHANGED <<disk, claim, kept>>
  BY DEF PostFile, Continue, Disown
<1>. HIDE DEF q, n
<1>4. UploadsKept' /\ \A u \in kept' : u \in Uploads /\ u.run <= restarts'
  BY <1>0, <1>3, KeptSame
<1>5. disk' \subseteq FileNames /\ IsFiniteSet(disk') /\ disk \subseteq disk'
  BY <1>0, <1>2, <1>3, FS_AddElement DEF OtaTypes
<1>6. claim' \subseteq claim /\ h \notin claim'
  BY <1>0, <1>3 DEF ClaimsHaveFiles
<1>7. OtaTypes'
  BY <1>0, <1>1, <1>3, <1>4, <1>5, <1>6 DEF OtaTypes
<1>8. ClaimsHaveFiles'
  BY <1>0, <1>3, <1>5, <1>6, OthersKeepClaims
<1>. QED
  BY <1>4, <1>7, <1>8 DEF OtaInv

(* register_firmware, after which the upload is answered. *)
LEMMA RegisterStep ==
    ASSUME OtaInv, NEW h \in Clients, RegisterFirmware(h)
    PROVE  OtaInv'
<1>0. OtaTypes /\ ClaimsHaveFiles /\ UploadsKept
  BY DEF OtaInv
<1>. DEFINE fw == call[h].fw
            n == call[h].name
            u0 == [version |-> fw.version, file |-> n, run |-> restarts]
<1>1. /\ fw \in Firmware /\ fw.version \in Versions /\ call[h] # None
      /\ registry' = Append(registry, fw) /\ call' = [call EXCEPT ![h] = None]
      /\ kept' = IF h \in claim THEN kept \cup {u0} ELSE kept
      /\ claim' = claim \ {h} /\ UNCHANGED <<disk, restarts>>
  BY <1>0, CallFirmware DEF RegisterFirmware, Done, OtaTypes
<1>2. h \in claim => n \in disk /\ n \in FileNames
  BY <1>0 DEF ClaimsHaveFiles, OtaTypes
<1>3. h \in claim => u0 \in Uploads
  BY <1>0, <1>1, <1>2 DEF Uploads, OtaTypes
<1>4. u0.file = n /\ u0.version = fw.version /\ u0.run = restarts
  OBVIOUS
<1>. HIDE DEF fw, n, u0
<1>5. registry' \in Seq(Firmware)
  BY <1>0, <1>1 DEF OtaTypes
<1>6. \A u \in kept' : u \in Uploads /\ u.run <= restarts'
  <2>1. restarts \in Nat
    BY <1>0 DEF OtaTypes
  <2>. QED
    BY <1>0, <1>1, <1>3, <1>4, <2>1 DEF OtaTypes
<1>7. OtaTypes'
  BY <1>0, <1>1, <1>5, <1>6 DEF OtaTypes
<1>8. ClaimsHaveFiles'
  BY <1>0, <1>1, OthersKeepClaims
<1>9. /\ Len(registry') = Len(registry) + 1 /\ Len(registry) \in Nat
      /\ \A i \in 1..Len(registry) : registry'[i] = registry[i]
      /\ registry'[Len(registry) + 1] = fw
  BY <1>0, <1>1, AppendProperties DEF OtaTypes
<1>10. \A v : Registered(v) \/ v = fw.version => Registered(v)'
  <2>. SUFFICES ASSUME NEW v, Registered(v) \/ v = fw.version PROVE Registered(v)'
    OBVIOUS
  <2>1. registry \in Seq(Firmware)
    BY <1>0 DEF OtaTypes
  <2>2. CASE Registered(v)
    <3>1. \E i \in 1..Len(registry) : registry[i].version = v
      BY <2>1, <2>2, FindFirst
    <3>2. \E i \in 1..Len(registry') : registry'[i].version = v
      BY <1>9, <3>1
    <3>. QED
      BY <1>5, <3>2, FindFirstAfter
  <2>3. CASE v = fw.version
    <3>1. \E i \in 1..Len(registry') : registry'[i].version = v
      BY <1>9, <2>3
    <3>. QED
      BY <1>5, <3>1, FindFirstAfter
  <2>. QED
    BY <2>2, <2>3
<1>11. \A u : KnownBy(u)' = KnownBy(u)
  BY <1>1 DEF KnownBy
<1>12. KnownBy(u0) = fw.version
  BY <1>4 DEF KnownBy
<1>13. ASSUME NEW u \in kept' PROVE u.file \in disk' /\ Registered(KnownBy(u))'
  <2>1. CASE u \in kept
    <3>1. u.file \in disk /\ Registered(KnownBy(u))
      BY <1>0, <2>1 DEF UploadsKept
    <3>. QED
      BY <1>1, <1>10, <1>11, <3>1
  <2>2. CASE u = u0 /\ h \in claim
    BY <1>1, <1>2, <1>4, <1>10, <1>11, <1>12, <2>2
  <2>. QED
    BY <1>1, <1>13, <2>1, <2>2
<1>. QED
  BY <1>7, <1>8, <1>13 DEF OtaInv, UploadsKept

(* The delete route looks the version up. *)
LEMMA LookUpStep ==
    ASSUME OtaInv, NEW h \in Clients, NEW v \in Versions, DeleteLookUp(h, v)
    PROVE  OtaInv'
<1>0. OtaTypes /\ ClaimsHaveFiles /\ UploadsKept
  BY DEF OtaInv
<1>1. PICK fw \in Firmware : call' = [call EXCEPT ![h] = [pc |-> "delete", fw |-> fw]]
  <2>1. CASE Registered(v)
    <3>1. registry[FindFirmware(v)] \in Firmware
      BY <1>0, <2>1, FindFirst DEF OtaTypes
    <3>. QED
      BY <2>1, <3>1 DEF DeleteLookUp, Continue
  <2>2. CASE ~Registered(v)
    <3>1. [version |-> v, file |-> None] \in Firmware
      BY DEF Firmware
    <3>. QED
      BY <2>2, <3>1 DEF DeleteLookUp, Continue
  <2>. QED
    BY <2>1, <2>2
<1>2. [pc |-> "delete", fw |-> fw] \in OtaCalls
  BY DEF OtaCalls
<1>3. call[h] = None /\ UNCHANGED <<registry, disk, restarts, claim, kept>>
  BY DEF DeleteLookUp
<1>4. OtaTypes'
  BY <1>0, <1>1, <1>2, <1>3 DEF OtaTypes
<1>5. h \notin claim
  BY <1>0, <1>3 DEF ClaimsHaveFiles
<1>6. ClaimsHaveFiles'
  BY <1>0, <1>1, <1>3, <1>5, OthersKeepClaims
<1>7. UploadsKept'
  BY <1>0, <1>3, KeptSame
<1>. QED
  BY <1>4, <1>6, <1>7 DEF OtaInv

(* delete_firmware takes one entry out; uploads known by its version end. *)
LEMMA DeleteStep ==
    ASSUME OtaInv, NEW h \in Clients, DeleteFirmware(h)
    PROVE  OtaInv'
<1>0. OtaTypes /\ ClaimsHaveFiles /\ UploadsKept
  BY DEF OtaInv
<1>. DEFINE fw == call[h].fw
            at == FindFirmware(fw.version)
<1>1. fw \in Firmware /\ call[h] # None /\ call[h].pc = "delete"
      /\ UNCHANGED <<disk, restarts, claim>>
  BY <1>0, CallFirmware DEF DeleteFirmware, OtaTypes
<1>2. h \notin claim
  BY <1>0, <1>1 DEF ClaimsHaveFiles
<1>3. PICK q \in OtaCalls \cup {None} : call' = [call EXCEPT ![h] = q]
  <2>1. [pc |-> "unlink", fw |-> fw] \in OtaCalls
    BY <1>1 DEF OtaCalls
  <2>. QED
    BY <2>1 DEF DeleteFirmware, Continue, Done
<1>4. ClaimsHaveFiles'
  BY <1>0, <1>1, <1>2, <1>3, OthersKeepClaims
<1>5. CASE /\ Registered(fw.version) /\ registry' = RemoveAt(registry, at)
           /\ kept' = {u \in kept : KnownBy(u) # fw.version}
  <2>1. at \in 1..Len(registry) /\ registry[at].version = fw.version
    BY <1>0, <1>5, FindFirst DEF OtaTypes
  <2>2. /\ registry' \in Seq(Firmware)
        /\ \A j \in 1..Len(registry) : j # at =>
              \E k \in 1..Len(registry') : registry'[k] = registry[j]
    BY <1>0, <1>5, <2>1, RemoveAtLeavesOthers DEF OtaTypes
  <2>. HIDE DEF fw, at
  <2>3. OtaTypes'
    BY <1>0, <1>1, <1>3, <1>5, <2>2 DEF OtaTypes
  <2>4. ASSUME NEW u \in kept' PROVE u.file \in disk' /\ Registered(KnownBy(u))'
    <3>. DEFINE v == KnownBy(u)
    <3>1. u \in kept /\ v # fw.version /\ v' = v
      BY <1>1, <1>5 DEF KnownBy
    <3>2. u.file \in disk /\ Registered(v)
      BY <1>0, <3>1 DEF UploadsKept
    <3>. HIDE DEF v
    <3>3. PICK j \in 1..Len(registry) : registry[j].version = v
      BY <1>0, <3>2, FindFirst DEF OtaTypes
    <3>4. \E k \in 1..Len(registry') : registry'[k].version = v
      BY <2>1, <2>2, <3>1, <3>3
    <3>5. \E k \in 1..Len(registry') : registry'[k].version = v'
      BY <3>1, <3>4
    <3>6. FindFirmware(v)' = FirstWith(registry', v')
      BY DEF FindFirmware, SelectInSeq, FirstWith
    <3>7. Registered(v)'
      BY <2>2, <3>5, <3>6, FirstWithFinds DEF Registered
    <3>. QED
      BY <1>1, <3>2, <3>7 DEF v
  <2>. QED
    BY <1>4, <2>3, <2>4 DEF OtaInv, UploadsKept
<1>6. CASE UNCHANGED <<registry, kept>>
  <2>1. OtaTypes'
    BY <1>0, <1>1, <1>3, <1>6 DEF OtaTypes
  <2>2. UploadsKept'
    BY <1>0, <1>1, <1>6, KeptSame
  <2>. QED
    BY <1>4, <2>1, <2>2 DEF OtaInv
<1>. QED
  BY <1>5, <1>6 DEF DeleteFirmware

(* ... and its file goes, with the uploads that are in it. *)
LEMMA UnlinkStep ==
    ASSUME OtaInv, NEW h \in Clients, RemoveFile(h)
    PROVE  OtaInv'
<1>0. OtaTypes /\ ClaimsHaveFiles /\ UploadsKept
  BY DEF OtaInv
<1>. DEFINE n == call[h].fw.file
<1>1. /\ call[h] # None /\ call[h].pc = "unlink" /\ disk' = disk \ {n}
      /\ call' = [call EXCEPT ![h] = None] /\ UNCHANGED <<registry, restarts>>
      /\ kept' = {u \in kept : u.file # n} /\ claim' = {g \in claim : call[g].name # n}
  BY DEF RemoveFile, Done, Disown
<1>2. h \notin claim
  BY <1>0, <1>1 DEF ClaimsHaveFiles
<1>. HIDE DEF n
<1>3. UploadsKept' /\ \A u \in kept' : u \in Uploads /\ u.run <= restarts'
  BY <1>0, <1>1, KeptSame
<1>4. IsFiniteSet(disk')
  BY <1>0, <1>1, FS_RemoveElement DEF OtaTypes
<1>5. OtaTypes'
  BY <1>0, <1>1, <1>3, <1>4 DEF OtaTypes
<1>6. ClaimsHaveFiles'
  BY <1>0, <1>1, <1>2, OthersKeepClaims
<1>. QED
  BY <1>3, <1>5, <1>6 DEF OtaInv

(* Pushes change neither versions nor files. *)
LEMMA PushStep ==
    ASSUME OtaInv, NEW h \in Clients,
           (\E v \in Versions : PushRequest(h, v)) \/ PushNext(h)
    PROVE  OtaInv'
<1>0. OtaTypes /\ ClaimsHaveFiles /\ UploadsKept
  BY DEF OtaInv
<1>1. UNCHANGED <<registry, disk, restarts, claim, kept>>
  BY DEF PushRequest, PushToDevice, PushGroup, PushNext
<1>2. UploadsKept'
  BY <1>0, <1>1, KeptSame
<1>3. CASE UNCHANGED call
  BY <1>0, <1>1, <1>2, <1>3 DEF OtaInv, OtaTypes, ClaimsHaveFiles
<1>4. ASSUME NEW q \in OtaCalls \cup {None}, call' = [call EXCEPT ![h] = q], h \notin claim
      PROVE  OtaInv'
  <2>1. OtaTypes'
    BY <1>0, <1>1, <1>4 DEF OtaTypes
  <2>2. ClaimsHaveFiles'
    BY <1>0, <1>1, <1>4, OthersKeepClaims
  <2>. QED
    BY <1>2, <2>1, <2>2 DEF OtaInv
<1>5. ASSUME NEW v \in Versions, NEW group \in SUBSET Machines, PushGroup(h, v, group)
      PROVE  OtaInv'
  <2>. DEFINE q == [pc |-> "group", fw |-> [version |-> v, file |-> None], left |-> group]
  <2>1. q \in OtaCalls
    BY DEF OtaCalls, Firmware
  <2>2. call[h] = None /\ call' = [call EXCEPT ![h] = q]
    BY <1>5 DEF PushGroup
  <2>. HIDE DEF q
  <2>3. h \notin claim
    BY <1>0, <2>2 DEF ClaimsHaveFiles
  <2>. QED
    BY <1>4, <2>1, <2>2, <2>3
<1>6. CASE PushNext(h)
  <2>1. call[h] # None /\ call[h].pc = "group"
    BY <1>6 DEF PushNext
  <2>2. h \notin claim
    BY <1>0, <2>1 DEF ClaimsHaveFiles
  <2>3. call[h] \in [pc : {"group"}, fw : Firmware, left : SUBSET Machines]
    BY <1>0, <2>1 DEF OtaTypes, OtaCalls
  <2>4. CASE Done(h)
    BY <1>4, <2>2, <2>4 DEF Done
  <2>5. ASSUME NEW d \in call[h].left, call' = [call EXCEPT ![h].left = @ \ {d}]
        PROVE  OtaInv'
    <3>1. [call[h] EXCEPT !.left = @ \ {d}] \in OtaCalls
      BY <2>3 DEF OtaCalls
    <3>2. call' = [call EXCEPT ![h] = [call[h] EXCEPT !.left = @ \ {d}]]
      BY <2>5
    <3>. QED
      BY <1>4, <2>2, <3>1, <3>2
  <2>. QED
    BY <1>6, <2>4, <2>5 DEF PushNext
<1>. QED
  BY <1>3, <1>5, <1>6 DEF PushRequest, PushToDevice

(* A crash and the scan: every file is known by the version in its name. *)
LEMMA ScanStep ==
    ASSUME OtaInv, Restart
    PROVE  OtaInv'
<1>0. OtaTypes /\ ClaimsHaveFiles /\ UploadsKept
  BY DEF OtaInv
<1>1. PICK F \in SUBSET disk : FirstOfEach(F) /\ \E s \in SetToSeqs(F) : registry' = Scanned(s)
  BY DEF Restart
<1>2. PICK s \in SetToSeqs(F) : registry' = Scanned(s)
  BY <1>1
<1>3. /\ call' = [h \in Clients |-> None] /\ claim' = {} /\ restarts' = restarts + 1
      /\ UNCHANGED <<disk, kept>>
  BY DEF Restart
<1>4. IsFiniteSet(F) /\ F \subseteq FileNames
  BY <1>0, FS_Subset DEF OtaTypes
<1>5. /\ registry' \in Seq(Firmware)
      /\ \A m \in F : \E i \in 1..Len(registry') : registry'[i].version = Stem[m]
  BY <1>2, <1>4, ScanFindsAll
<1>6. \A n \in disk : Registered(Stem[n])'
  <2>. SUFFICES ASSUME NEW n \in disk PROVE Registered(Stem[n])'
    OBVIOUS
  <2>1. PICK m \in F : Stem[m] = Stem[n]
    BY <1>1 DEF FirstOfEach
  <2>2. PICK i \in 1..Len(registry') : registry'[i].version = Stem[n]
    BY <1>5, <2>1
  <2>. QED
    BY <1>3, <1>5, <2>2, FindFirstAfter
<1>7. restarts \in Nat /\ \A u \in kept : u.run \in Nat /\ u.run <= restarts
  BY <1>0 DEF OtaTypes, Uploads
<1>8. OtaTypes'
  BY <1>0, <1>3, <1>5, <1>7 DEF OtaTypes
<1>9. ASSUME NEW u \in kept PROVE u.file \in disk' /\ Registered(KnownBy(u))'
  <2>1. u.file \in disk
    BY <1>0, <1>9 DEF UploadsKept
  <2>2. KnownBy(u)' = Stem[u.file]
    BY <1>3, <1>7, <1>9 DEF KnownBy
  <2>. QED
    BY <1>3, <1>6, <2>1, <2>2
<1>. QED
  BY <1>3, <1>8, <1>9 DEF OtaInv, ClaimsHaveFiles, UploadsKept

(* Every request, every crash and every scan keeps the invariant. *)
LEMMA OtaStep == OtaInv /\ [OtaNext]_otaVars => OtaInv'
<1>. SUFFICES ASSUME OtaInv, [OtaNext]_otaVars PROVE OtaInv'
  OBVIOUS
<1>1. CASE UNCHANGED otaVars
  <2>1. OtaTypes /\ UploadsKept
    BY DEF OtaInv
  <2>2. UploadsKept'
    BY <1>1, <2>1, KeptSame DEF otaVars
  <2>. QED
    BY <1>1, <2>2 DEF otaVars, OtaInv, OtaTypes, ClaimsHaveFiles
<1>2. ASSUME NEW h \in Clients, NEW v \in Versions,
             \/ \E name \in FileNames : UploadFile(h, v, name)
             \/ \E file \in FileNames \cup {None} : PostFile(h, v, file)
             \/ DeleteLookUp(h, v)
             \/ PushRequest(h, v)
      PROVE  OtaInv'
  BY <1>2, UploadStep, PostStep, LookUpStep, PushStep
<1>3. ASSUME NEW h \in Clients,
             RegisterFirmware(h) \/ DeleteFirmware(h) \/ RemoveFile(h) \/ PushNext(h)
      PROVE  OtaInv'
  BY <1>3, RegisterStep, DeleteStep, UnlinkStep, PushStep
<1>4. CASE Restart
  BY <1>4, ScanStep
<1>. QED
  BY <1>1, <1>2, <1>3, <1>4 DEF OtaNext, ProgressUnknown

(* It holds of an empty store. *)
LEMMA OtaStart == OtaInit => OtaInv
  BY FS_EmptySet DEF OtaInit, OtaInv, OtaTypes, ClaimsHaveFiles, UploadsKept

(* An upload answered with success keeps its file and a version it is known by,
   for any file names, until a DELETE or another file of its name, whatever
   requests overlap and however often the process starts again (the upload,
   register and delete routes, register_firmware, delete_firmware, the scan of
   ./firmware). *)
THEOREM UploadsSafe == OtaSpec => []UploadsKept
<1>1. OtaInv => UploadsKept
  BY DEF OtaInv
<1>. QED
  BY <1>1, OtaStart, OtaStep, PTL DEF OtaSpec

=============================================================================
