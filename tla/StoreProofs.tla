----------------------------- MODULE StoreProofs -----------------------------
(***************************************************************************)
(* What TLAPS proves of Store for every set of processes and handles, every *)
(* set of datums, every capacity and every combination of faults: of its   *)
(* locks, of the tables it fills and of what its handles cache of them, and *)
(* that it implements Catalogue.                                           *)
(***************************************************************************)
EXTENDS StoreCatalogue, OffsetsProofs, SequenceTheorems

(* The types the lock argument needs. *)
LockPart ==
  /\ LockTypeOK
  /\ pc \in [Handles -> Labels]
  /\ mode \in [Handles -> LockKinds]

(* No process has two handles on the file. *)
OneHandlePerProcess == \A g, h \in Handles : ProcOf[g] = ProcOf[h] => g = h

(* A handle past acquire_lock is backed by its process's lock. *)
Backed ==
  \A h \in Handles : Holding(h) => mode[h] # "none" /\ lock[ProcOf[h]] = mode[h]

Asking == \A h \in Handles : pc[h] = "lock" => mode[h] # "none"

Compatible == LockPart /\ LockCompatible /\ Asking

(* The inductive invariant behind WriterExclusion. *)
LockInv == Compatible /\ Backed

-----------------------------------------------------------------------------
(* Granting a lock that Grantable allows, or dropping one, never leaves    *)
(* two processes with conflicting locks.                                   *)
LEMMA AcquireCompatible ==
  ASSUME NEW p \in Procs, NEW kind \in LockKinds,
         LockTypeOK, LockCompatible, Acquire(p, kind)
  PROVE  LockTypeOK' /\ LockCompatible'
BY DEF LockTypeOK, LockCompatible, Acquire, Grantable, LockKinds

LEMMA DivestCompatible ==
  ASSUME NEW p \in Procs, LockTypeOK, LockCompatible, Divest(p)
  PROVE  LockTypeOK' /\ LockCompatible'
BY DEF LockTypeOK, LockCompatible, Divest, LockKinds

(* The steps a handle takes between acquire_lock and close: they touch     *)
(* neither the lock nor the mode, and keep the handle open.                *)
Inside(h) ==
  /\ UNCHANGED <<lock, mode>>
  /\ Holding(h)
  /\ \E label \in Labels \ {"closed", "create", "lock"} : pc' = [pc EXCEPT ![h] = label]

WorkStep(h) ==
  \/ ReadHeader(h) \/ CollectKeys(h) \/ CollectTrackLengths(h)
  \/ Insert(h)
  \/ Power(h) \/ L2normExisting(h) \/ L2norm(h)

(* Reading the header and the tables, inserting and setting flags all      *)
(* happen inside the lock.                                                 *)
LEMMA WorkInside ==
  ASSUME NEW h \in Handles, LockPart, WorkStep(h)
  PROVE  Inside(h)
<1> USE DEF Inside, Holding, LockPart, Labels, Goto
<1>1. CASE ReadHeader(h) \/ CollectKeys(h) \/ CollectTrackLengths(h)
  BY <1>1 DEF ReadHeader, CollectKeys, CollectTrackLengths
<1>2. ASSUME NEW d \in Datums, RefuseInsert(h, d) \/ BeginInsert(h, d)
      PROVE  Inside(h)
  BY <1>2 DEF RefuseInsert, BeginInsert, Writable, Idle
<1>3. CASE WriteKey(h) \/ WriteLength(h)
  BY <1>3 DEF WriteKey, WriteLength
<1>4. CASE WriteData(h) \/ WritePower(h) \/ WriteTimes(h) \/ WriteNorms(h)
  BY <1>4 DEF WriteData, WritePower, WriteTimes, WriteNorms, AfterData
<1>5. CASE WriteFails(h)
  BY <1>5 DEF WriteFails
<1>6. CASE Commit(h)
  BY <1>6 DEF Commit, Counted
<1>7. CASE Power(h) \/ L2normExisting(h) \/ L2norm(h)
  BY <1>7 DEF Power, L2normExisting, L2norm, Writable, Idle
<1> QED
  BY <1>1, <1>2, <1>3, <1>4, <1>5, <1>6, <1>7 DEF WorkStep, Insert

(* Every step keeps the processes' locks compatible; and, when no process  *)
(* has two handles, keeps every open handle backed by its lock.            *)
LEMMA LockStep ==
  ASSUME Compatible, [Next]_vars
  PROVE  Compatible' /\ (OneHandlePerProcess /\ Backed => Backed')
<1> USE ProcOfAssumption
<1> DEFINE Goal == Compatible' /\ (OneHandlePerProcess /\ Backed => Backed')
<1> USE DEF Compatible
<1>1. CASE UNCHANGED vars
  BY <1>1 DEF vars, LockPart, LockTypeOK, LockCompatible, Asking, Backed, Holding
<1>2. ASSUME NEW h \in Handles, CreateFile(h) \/ WriteNewHeader(h)
      PROVE  Goal
  BY <1>2 DEF CreateFile, WriteNewHeader, Goto, LockPart, LockTypeOK, LockKinds,
              LockCompatible, Asking, Backed, Holding, Labels
<1>3. ASSUME NEW h \in Handles, CreateFails(h)
      PROVE  Goal
  BY <1>3 DEF CreateFails, Forget, LockPart, LockTypeOK, LockKinds, LockCompatible,
              Asking, Backed, Holding, Labels
<1>4. ASSUME NEW h \in Handles, NEW kind \in {"read", "write"}, OpenFile(h, kind)
      PROVE  Goal
  BY <1>4 DEF OpenFile, Goto, LockPart, LockTypeOK, LockKinds, LockCompatible,
              Asking, Backed, Holding, Labels
<1>5. ASSUME NEW h \in Handles, AcquireLock(h)
      PROVE  Goal
  <2>1. LockTypeOK' /\ LockCompatible'
    BY <1>5, AcquireCompatible DEF AcquireLock, LockPart
  <2>2. LockPart' /\ Asking'
    BY <1>5, <2>1 DEF AcquireLock, Goto, LockPart, Asking, Labels
  <2>3. ASSUME OneHandlePerProcess, Backed
        PROVE  Backed'
    BY <1>5, <2>3 DEF AcquireLock, Acquire, Goto, LockPart, LockTypeOK, Asking, Backed,
                      Holding, Labels, OneHandlePerProcess
  <2> QED
    BY <2>1, <2>2, <2>3
<1>6. ASSUME NEW H \in SUBSET Handles, NEW p \in Procs, Forget(H), Divest(p),
             \A h \in Handles : ProcOf[h] = p => h \in H \/ ~Holding(h)
      PROVE  Goal
  <2>1. LockTypeOK' /\ LockCompatible'
    BY <1>6, DivestCompatible DEF LockPart
  <2>2. LockPart' /\ Asking'
    BY <1>6, <2>1 DEF Forget, LockPart, Asking, Labels, LockKinds
  <2>3. ASSUME Backed
        PROVE  Backed'
    BY <1>6, <2>3 DEF Forget, Divest, LockPart, LockTypeOK, Backed, Holding
  <2> QED
    BY <2>1, <2>2, <2>3
<1>7. ASSUME NEW h \in Handles, Close(h) \/ HeaderUnreadable(h) \/ LockDenied(h)
      PROVE  Goal
  <2>1. Forget({h}) /\ Divest(ProcOf[h])
    BY <1>7 DEF Close, HeaderUnreadable, LockDenied, OpenError
  <2>2. LockTypeOK' /\ LockCompatible'
    BY <2>1, DivestCompatible DEF LockPart
  <2>3. LockPart' /\ Asking'
    BY <2>1, <2>2 DEF Forget, LockPart, Asking, Labels, LockKinds
  <2>4. ASSUME OneHandlePerProcess, Backed
        PROVE  Backed'
    BY <2>1, <2>4 DEF Forget, Divest, LockPart, LockTypeOK, Backed, Holding,
                      OneHandlePerProcess
  <2> QED
    BY <2>2, <2>3, <2>4
<1>8. ASSUME NEW p \in Procs, Crash(p)
      PROVE  Goal
  <2> DEFINE H == {h \in Handles : ProcOf[h] = p}
  <2>1. H \in SUBSET Handles /\ Forget(H) /\ Divest(p)
    BY <1>8 DEF Crash
  <2> QED
    BY <1>6, <2>1
<1>9. ASSUME NEW h \in Handles, WorkStep(h)
      PROVE  Goal
  <2>1. Inside(h)
    BY <1>9, WorkInside DEF LockPart
  <2> QED
    BY <2>1 DEF Inside, LockPart, LockTypeOK, LockKinds, LockCompatible, Asking, Backed,
                Holding, Labels
<1> QED
  BY <1>1, <1>2, <1>3, <1>4, <1>5, <1>7, <1>8, <1>9 DEF Next, Open, WorkStep

LEMMA LockInit0 ==
  ASSUME Init
  PROVE  Compatible /\ Backed
BY DEF Init, LockInit, Compatible, LockPart, LockTypeOK, LockKinds, LockCompatible, Asking,
       Backed, Holding, Labels

(* However many handles each process opens, closes or loses, no process    *)
(* ever holds a lock next to another process's write lock.                 *)
THEOREM LocksCompatible == Spec => []LockCompatible
<1>1. Init => Compatible
  BY LockInit0
<1>2. Compatible /\ [Next]_vars => Compatible'
  BY LockStep
<1>3. Compatible => LockCompatible
  BY DEF Compatible
<1> QED
  BY <1>1, <1>2, <1>3, PTL DEF Spec

(* A lock keeps its owner: a handle stops holding only in steps that drop  *)
(* its process's lock.                                                     *)
LEMMA OwnedStep ==
  ASSUME LockPart, LocksOwned, [Next]_vars
  PROVE  LocksOwned'
<1> USE ProcOfAssumption
<1>1. CASE UNCHANGED vars
  BY <1>1 DEF vars, LocksOwned, Holding
<1>2. ASSUME NEW h \in Handles, NEW label \in Labels, UNCHANGED lock, ~Holding(h),
             pc' = [pc EXCEPT ![h] = label]
      PROVE  LocksOwned'
  BY <1>2 DEF LockPart, LocksOwned, Holding
<1>3. ASSUME NEW h \in Handles, CreateFile(h) \/ WriteNewHeader(h) \/ CreateFails(h)
      PROVE  LocksOwned'
  BY <1>2, <1>3 DEF CreateFile, WriteNewHeader, CreateFails, Forget, Goto, Holding, LockPart,
                    LocksOwned, Labels
<1>4. ASSUME NEW h \in Handles, NEW kind \in {"read", "write"}, OpenFile(h, kind)
      PROVE  LocksOwned'
  BY <1>2, <1>4 DEF OpenFile, Goto, Holding, Labels
<1>5. ASSUME NEW h \in Handles, AcquireLock(h)
      PROVE  LocksOwned'
  BY <1>5 DEF AcquireLock, Acquire, Goto, LockPart, LockTypeOK, LocksOwned, Holding, Labels
<1>6. ASSUME NEW H \in SUBSET Handles, NEW p \in Procs, Forget(H), Divest(p),
             \A h \in H : ProcOf[h] = p
      PROVE  LocksOwned'
  BY <1>6 DEF Forget, Divest, LockPart, LockTypeOK, LocksOwned, Holding
<1>7. ASSUME NEW h \in Handles, Close(h) \/ HeaderUnreadable(h) \/ LockDenied(h)
      PROVE  LocksOwned'
  <2>1. Forget({h}) /\ Divest(ProcOf[h])
    BY <1>7 DEF Close, HeaderUnreadable, LockDenied, OpenError
  <2> QED
    BY <1>6, <2>1
<1>8. ASSUME NEW p \in Procs, Crash(p)
      PROVE  LocksOwned'
  BY <1>6, <1>8 DEF Crash
<1>9. ASSUME NEW h \in Handles, WorkStep(h)
      PROVE  LocksOwned'
  <2>1. Inside(h)
    BY <1>9, WorkInside
  <2> QED
    BY <2>1 DEF Inside, LockPart, LocksOwned, Holding
<1> QED
  BY <1>1, <1>3, <1>4, <1>5, <1>7, <1>8, <1>9 DEF Next, Open, WorkStep

(* However handles are opened, refused, closed or lost, a process without  *)
(* an open handle holds no lock.                                           *)
THEOREM NoLockLeftBehind == Spec => []LocksOwned
<1>1. Init => Compatible /\ LocksOwned
  BY LockInit0 DEF Init, LockInit, LocksOwned
<1>2. Compatible /\ LocksOwned /\ [Next]_vars => (Compatible /\ LocksOwned)'
  BY LockStep, OwnedStep DEF Compatible
<1> QED
  BY <1>1, <1>2, PTL DEF Spec

LEMMA LockInvExcludes ==
  ASSUME OneHandlePerProcess, LockInv
  PROVE  WriterExclusion
BY ProcOfAssumption DEF LockInv, Compatible, LockCompatible, Backed, WriterExclusion,
                        OneHandlePerProcess, LockPart, LockTypeOK, LockKinds

(* With at most one handle per process, a handle open for writing is the   *)
(* only handle past acquire_lock, whatever the handles do and however the  *)
(* processes crash.                                                        *)
THEOREM WritersAlone ==
  ASSUME OneHandlePerProcess
  PROVE  Spec => []WriterExclusion
<1>1. Init => LockInv
  BY LockInit0 DEF LockInv
<1>2. LockInv /\ [Next]_vars => LockInv'
  BY LockStep DEF LockInv
<1>3. LockInv => WriterExclusion
  BY LockInvExcludes
<1> QED
  BY <1>1, <1>2, <1>3, PTL DEF Spec

-----------------------------------------------------------------------------
(* Type correctness.  A handle in the middle of an insert has passed the   *)
(* space checks, and nothing has changed its header since.                 *)

Stages == {"key", "length", "data", "power", "times", "norms", "commit"}

Pending ==
  \A h \in Handles : pc[h] \in Stages =>
    /\ datum[h] \in Datums
    /\ hdr[h].numFiles < MaxTracks

TypeInv == TypeOK /\ Pending

DiskTypeOK ==
  /\ file \in {"absent", "empty", "ready"}
  /\ header \in Headers
  /\ keyTable \in [Slots -> KeyEntries]
  /\ trackTable \in [Slots -> Nat]
  /\ DOMAIN dataTable = Cells /\ DOMAIN powerTable = Cells
  /\ DOMAIN timesTable = Cells /\ DOMAIN l2normTable = Cells

HandleTypeOK ==
  /\ pc \in [Handles -> Labels]
  /\ mode \in [Handles -> LockKinds]
  /\ hdr \in [Handles -> Headers]
  /\ keys \in [Handles -> Seq(KeyEntries)]
  /\ keymap \in [Handles -> [KeyEntries -> -1 .. MaxTracks - 1]]
  /\ lengths \in [Handles -> Seq(Nat)]
  /\ offsets \in [Handles -> Seq(Nat)]
  /\ datum \in [Handles -> Datums \cup {Blank}]

LEMMA TypeSplit ==
  TypeOK <=> LockTypeOK /\ DiskTypeOK /\ HandleTypeOK /\ acked \subseteq Datums
BY DEF TypeOK, DiskTypeOK, HandleTypeOK

LEMMA NewHeaderType == NewHeader \in Headers
BY SpaceAssumption DEF NewHeader, Headers, Flags

LEMMA ForgetType ==
  ASSUME NEW H \in SUBSET Handles, HandleTypeOK, Pending, Forget(H)
  PROVE  HandleTypeOK' /\ Pending'
<1>1. NoMap \in [KeyEntries -> -1 .. MaxTracks - 1]
  BY SpaceAssumption DEF NoMap, NotFound
<1>2. NewHeader \in Headers
  BY NewHeaderType
<1>3. HandleTypeOK'
  BY <1>1, <1>2 DEF Forget, HandleTypeOK, Labels, LockKinds
<1>4. Pending'
  BY DEF Forget, Pending, HandleTypeOK, Stages
<1> QED
  BY <1>3, <1>4

(* Writing a block into a table leaves the table where it was. *)
LEMMA WrittenDomain ==
  ASSUME NEW table, NEW at, NEW block
  PROVE  DOMAIN Written(table, at, block) = DOMAIN table
BY DEF Written

(* A key that occurs has a last occurrence. *)
LEMMA LastExists ==
  ASSUME NEW n \in Nat, NEW ks, NEW k, \E i \in 1 .. n : ks[i] = k
  PROVE  \E i \in 1 .. n : IsLast(i, k, ks, n)
<1> DEFINE T == {m \in Nat : m < n /\ ks[n - m] = k}
<1>1. PICK i \in 1 .. n : ks[i] = k
  OBVIOUS
<1>2. n - i \in T
  <2>1. n - i \in Nat /\ n - i < n /\ n - (n - i) = i
    BY <1>1
  <2> QED
    BY <1>1, <2>1
<1>3. PICK m \in T : \A l \in T : m <= l
  <2>1. T \in SUBSET Nat /\ T # {}
    BY <1>2
  <2> HIDE DEF T
  <2> QED
    BY <2>1, LeastNatural
<1>4. n - m \in 1 .. n /\ ks[n - m] = k
  BY <1>3
<1>5. ASSUME NEW j \in n - m + 1 .. n, ks[j] = k
      PROVE  FALSE
  <2>1. n - j \in Nat /\ n - j < m /\ n - j < n /\ n - (n - j) = j
    BY <1>3, <1>5
  <2>2. n - j \in T
    BY <1>5, <2>1
  <2> QED
    BY <1>3, <2>1, <2>2
<1> QED
  BY <1>4, <1>5 DEF IsLast

LEMMA MapType ==
  ASSUME NEW n \in 0 .. MaxTracks, NEW ks
  PROVE  MapOf(ks, n) \in [KeyEntries -> -1 .. MaxTracks - 1]
<1>1. ASSUME NEW k \in KeyEntries, \E i \in 1 .. n : ks[i] = k
      PROVE  (CHOOSE i \in 1 .. n : IsLast(i, k, ks, n)) - 1 \in -1 .. MaxTracks - 1
  <2>1. \E i \in 1 .. n : IsLast(i, k, ks, n)
    BY <1>1, LastExists, SpaceAssumption
  <2>2. (CHOOSE i \in 1 .. n : IsLast(i, k, ks, n)) \in 1 .. n
    BY <2>1
  <2> QED
    BY <2>2, SpaceAssumption
<1> QED
  BY <1>1, SpaceAssumption DEF MapOf, NotFound

(* Reading a header off the disk, then the two tables it describes. *)
LEMMA OpenType ==
  ASSUME NEW h \in Handles, TypeInv,
         ReadHeader(h) \/ CollectKeys(h) \/ CollectTrackLengths(h)
  PROVE  DiskTypeOK' /\ HandleTypeOK' /\ Pending'
<1> USE TypeSplit DEF TypeInv
<1>1. CASE ReadHeader(h)
  BY <1>1 DEF ReadHeader, Goto, disk, tables, caches, DiskTypeOK, HandleTypeOK, Pending,
              Labels, Stages
<1>2. PICK n \in 0 .. MaxTracks : n = Collected(h)
  BY SpaceAssumption DEF HandleTypeOK, Headers, Collected
<1>3. \A i \in 1 .. n : keyTable[i - 1] \in KeyEntries /\ trackTable[i - 1] \in Nat
  BY SpaceAssumption DEF DiskTypeOK, Slots
<1>4. CASE CollectKeys(h)
  <2> DEFINE ks == [i \in 1 .. n |-> keyTable[i - 1]]
  <2>1. ks \in Seq(KeyEntries)
    BY <1>3, SpaceAssumption
  <2>2. keys' = [keys EXCEPT ![h] = ks] /\ keymap' = [keymap EXCEPT ![h] = MapOf(ks, n)]
    BY <1>2, <1>4 DEF CollectKeys
  <2>3. MapOf(ks, n) \in [KeyEntries -> -1 .. MaxTracks - 1]
    BY MapType
  <2>4. /\ pc' = [pc EXCEPT ![h] = "lengths"]
        /\ UNCHANGED <<disk, mode, hdr, lengths, offsets, datum>>
    BY <1>4 DEF CollectKeys, Goto
  <2> HIDE DEF ks
  <2> QED
    BY <2>1, <2>2, <2>3, <2>4 DEF disk, tables, DiskTypeOK, HandleTypeOK, Pending, Labels,
                                  Stages
<1>5. CASE CollectTrackLengths(h)
  <2> DEFINE size == [s \in Slots |-> trackTable[s] * hdr[h].dim]
             ls == [i \in 1 .. n |-> trackTable[i - 1]]
             os == [i \in 1 .. n |-> Starts(n, size)[i - 1]]
  <2>1. \A i \in 0 .. n - 1 : size[i] \in Nat
    <3> SUFFICES ASSUME NEW i \in 0 .. n - 1 PROVE size[i] \in Nat
      OBVIOUS
    <3>1. i \in Slots /\ trackTable[i] \in Nat /\ hdr[h].dim \in Nat
      BY SpaceAssumption DEF DiskTypeOK, HandleTypeOK, Headers, Slots
    <3>2. trackTable[i] * hdr[h].dim \in Nat
      BY ONLY <3>1
    <3> QED
      BY ONLY <3>1, <3>2
  <2>2. ls \in Seq(Nat)
    BY <1>3, SpaceAssumption
  <2>3. os \in Seq(Nat)
    <3> HIDE DEF size
    <3>1. Starts(n, size) \in [0 .. n -> Nat]
      BY <2>1, StartsAccumulate, SpaceAssumption DEF Accumulates
    <3> QED
      BY <3>1, SpaceAssumption
  <2>4. lengths' = [lengths EXCEPT ![h] = ls] /\ offsets' = [offsets EXCEPT ![h] = os]
    BY <1>2, <1>5 DEF CollectTrackLengths
  <2>5. /\ pc' = [pc EXCEPT ![h] = "open"]
        /\ UNCHANGED <<disk, mode, hdr, keys, keymap, datum>>
    BY <1>5 DEF CollectTrackLengths, Goto
  <2> HIDE DEF size, ls, os
  <2> QED
    BY <2>2, <2>3, <2>4, <2>5 DEF disk, tables, DiskTypeOK, HandleTypeOK, Pending, Labels,
                                  Stages
<1> QED
  BY <1>1, <1>4, <1>5

(* The insert, from the checks to the commit. *)
LEMMA InsertType ==
  ASSUME NEW h \in Handles, TypeInv, Insert(h)
  PROVE  DiskTypeOK' /\ HandleTypeOK' /\ Pending' /\ acked' \subseteq Datums
<1> USE TypeSplit DEF TypeInv
<1> DEFINE Goal == DiskTypeOK' /\ HandleTypeOK' /\ Pending' /\ acked' \subseteq Datums
<1>1. ASSUME NEW d \in Datums
      PROVE  d.key \in Keys /\ d.n \in Nat /\ d.dim \in Nat
  BY DatumsAssumption
<1>2. ASSUME NEW d \in Datums, RefuseInsert(h, d)
      PROVE  Goal
  BY <1>1, <1>2 DEF RefuseInsert, Writable, Idle, disk, tables, caches, DiskTypeOK, HandleTypeOK,
                    Headers, Pending, Stages
<1>3. ASSUME NEW d \in Datums, BeginInsert(h, d)
      PROVE  Goal
  <2>1. hdr'[h] \in Headers /\ hdr'[h].numFiles < MaxTracks
    BY <1>1, <1>3 DEF BeginInsert, EnoughSpace, HandleTypeOK, Headers, Flags
  <2>2. \A g \in Handles \ {h} : hdr'[g] = hdr[g]
    BY <1>3 DEF BeginInsert, HandleTypeOK
  <2>3. hdr' \in [Handles -> Headers]
    BY <1>3, <2>1, <2>2 DEF BeginInsert, HandleTypeOK
  <2>4. datum' = [datum EXCEPT ![h] = d] /\ pc' = [pc EXCEPT ![h] = "key"]
        /\ UNCHANGED <<disk, mode, caches, acked>>
    BY <1>3 DEF BeginInsert, Goto
  <2> QED
    BY <2>1, <2>2, <2>3, <2>4 DEF disk, tables, caches, DiskTypeOK, HandleTypeOK, Pending,
                                  Stages, Labels
<1>4. CASE WriteKey(h) \/ WriteLength(h)
  <2>1. hdr[h].numFiles \in Slots /\ datum[h] \in Datums
    BY <1>4, SpaceAssumption DEF WriteKey, WriteLength, Pending, Stages, HandleTypeOK, Headers, Slots
  <2>2. datum[h].key \in KeyEntries /\ datum[h].n \in Nat
    BY <1>1, <2>1 DEF KeyEntries
  <2> QED
    BY <1>4, <2>1, <2>2 DEF WriteKey, WriteLength, Goto, caches, DiskTypeOK, HandleTypeOK,
                            Pending, Stages, Labels
<1>5. CASE WriteData(h) \/ WritePower(h) \/ WriteTimes(h) \/ WriteNorms(h)
  <2>1. /\ DOMAIN dataTable' = DOMAIN dataTable /\ DOMAIN powerTable' = DOMAIN powerTable
        /\ DOMAIN timesTable' = DOMAIN timesTable /\ DOMAIN l2normTable' = DOMAIN l2normTable
    BY <1>5, WrittenDomain DEF WriteData, WritePower, WriteTimes, WriteNorms
  <2>2. PICK label \in Stages : pc' = [pc EXCEPT ![h] = label]
    BY <1>5 DEF WriteData, WritePower, WriteTimes, WriteNorms, AfterData, Goto, Stages
  <2>3. UNCHANGED <<file, header, keyTable, trackTable, mode, hdr, caches, datum, acked>>
    BY <1>5 DEF WriteData, WritePower, WriteTimes, WriteNorms
  <2>4. pc[h] \in Stages
    BY <1>5 DEF WriteData, WritePower, WriteTimes, WriteNorms, Stages
  <2> QED
    BY <2>1, <2>2, <2>3, <2>4 DEF caches, DiskTypeOK, HandleTypeOK, Pending, Stages, Labels
<1>6. CASE WriteFails(h)
  <2>1. DOMAIN dataTable' = DOMAIN dataTable
    BY <1>6, WrittenDomain DEF WriteFails
  <2>2. /\ pc' = [pc EXCEPT ![h] = "open"] /\ datum' = [datum EXCEPT ![h] = Blank]
        /\ UNCHANGED <<file, header, keyTable, trackTable, powerTable, timesTable,
                       l2normTable, mode, hdr, caches, acked>>
    BY <1>6 DEF WriteFails, Goto
  <2> QED
    BY <2>1, <2>2 DEF caches, DiskTypeOK, HandleTypeOK, Pending, Stages, Labels
<1>7. CASE Commit(h)
  <2> DEFINE d == datum[h]
             new == [hdr[h] EXCEPT !.numFiles = @ + 1, !.length = @ + d.n * d.dim]
  <2>1. d \in Datums /\ hdr[h].numFiles < MaxTracks /\ hdr[h] \in Headers
    BY <1>7 DEF Commit, Counted, Pending, Stages, HandleTypeOK
  <2>2. d.key \in KeyEntries /\ d.n \in Nat /\ d.n * d.dim \in Nat
    BY <1>1, <2>1 DEF KeyEntries
  <2>3. new \in Headers
    <3>1. PICK size \in Nat : size = d.n * d.dim
      BY <2>2
    <3>2. new = [hdr[h] EXCEPT !.numFiles = @ + 1, !.length = @ + size]
      BY <3>1
    <3>3. hdr[h].numFiles + 1 \in 0 .. MaxTracks /\ hdr[h].length + size \in Nat
      BY <2>1, SpaceAssumption DEF Headers
    <3> HIDE DEF new, d
    <3> QED
      BY <2>1, <3>2, <3>3 DEF Headers
  <2>4. header' \in Headers /\ acked' \subseteq Datums
    BY <1>7, <2>1, <2>3 DEF Commit, Counted, DiskTypeOK
  <2>5. hdr' = [hdr EXCEPT ![h] = new] /\ hdr' \in [Handles -> Headers]
    BY <1>7, <2>3 DEF Commit, Counted, HandleTypeOK
  <2>6. /\ keys' \in [Handles -> Seq(KeyEntries)]
        /\ lengths' \in [Handles -> Seq(Nat)]
        /\ offsets' \in [Handles -> Seq(Nat)]
    BY <1>7, <2>1, <2>2 DEF Commit, Counted, HandleTypeOK, Headers
  <2>7. keymap' \in [Handles -> [KeyEntries -> -1 .. MaxTracks - 1]]
    <3>1. keymap' = [keymap EXCEPT ![h][d.key] = hdr[h].numFiles]
      BY <1>7 DEF Commit, Counted
    <3>2. hdr[h].numFiles \in -1 .. MaxTracks - 1
      BY <2>1, SpaceAssumption DEF Headers
    <3>3. keymap \in [Handles -> [KeyEntries -> -1 .. MaxTracks - 1]]
      BY DEF HandleTypeOK
    <3> HIDE DEF d
    <3> QED
      BY ONLY <2>2, <3>1, <3>2, <3>3, h \in Handles
  <2>8. /\ pc' = [pc EXCEPT ![h] = "open"] /\ datum' = [datum EXCEPT ![h] = Blank]
        /\ UNCHANGED <<file, tables, mode>>
    BY <1>7 DEF Commit, Counted, Goto
  <2> HIDE DEF d, new
  <2> QED
    BY <2>4, <2>5, <2>6, <2>7, <2>8 DEF tables, DiskTypeOK, HandleTypeOK, Pending, Stages, Labels
<1> QED
  BY <1>2, <1>3, <1>4, <1>5, <1>6, <1>7 DEF Insert

(* audiodb_power and audiodb_l2norm. *)
LEMMA FlagType ==
  ASSUME NEW h \in Handles, TypeInv, Power(h) \/ L2normExisting(h) \/ L2norm(h)
  PROVE  DiskTypeOK' /\ HandleTypeOK' /\ Pending'
<1> USE TypeSplit DEF TypeInv
<1>1. ASSUME NEW flag \in Flags, SetFlag(h, flag)
      PROVE  header' \in Headers /\ hdr' \in [Handles -> Headers]
             /\ \A g \in Handles : hdr'[g].numFiles = hdr[g].numFiles
  <2>1. [hdr[h] EXCEPT !.flags = @ \cup {flag}] \in Headers
    BY DEF HandleTypeOK, Headers
  <2> QED
    BY <1>1, <2>1 DEF SetFlag, DiskTypeOK, HandleTypeOK, Headers
<1>2. CASE Power(h)
  BY <1>1, <1>2 DEF Power, Flags, tables, caches, DiskTypeOK, HandleTypeOK, Pending
<1>3. CASE L2normExisting(h)
  <2>1. DOMAIN l2normTable' = DOMAIN l2normTable
    BY <1>3, WrittenDomain DEF L2normExisting
  <2>2. /\ pc' = pc \/ pc' = [pc EXCEPT ![h] = "l2norm"]
        /\ UNCHANGED <<file, header, keyTable, trackTable, dataTable, powerTable,
                       timesTable, mode, hdr, caches, datum, acked>>
    BY <1>3 DEF L2normExisting, Goto
  <2> QED
    BY <2>1, <2>2 DEF caches, DiskTypeOK, HandleTypeOK, Pending, Stages, Labels
<1>4. CASE L2norm(h)
  BY <1>1, <1>4 DEF L2norm, Goto, Flags, tables, caches, DiskTypeOK, HandleTypeOK, Pending,
                    Stages, Labels
<1> QED
  BY <1>2, <1>3, <1>4

LEMMA TypeStep ==
  ASSUME TypeInv, Compatible, [Next]_vars
  PROVE  TypeInv'
<1> USE TypeSplit DEF TypeInv
<1> DEFINE Goal == DiskTypeOK' /\ HandleTypeOK' /\ Pending' /\ acked' \subseteq Datums
<1>1. LockTypeOK'
  BY LockStep DEF Compatible, LockPart
<1>2. ASSUME UNCHANGED vars
      PROVE  Goal
  BY <1>2 DEF vars, disk, tables, caches, DiskTypeOK, HandleTypeOK, Pending
<1>3. ASSUME NEW h \in Handles, CreateFile(h) \/ WriteNewHeader(h)
      PROVE  Goal
  BY <1>3, NewHeaderType
     DEF CreateFile, WriteNewHeader, Goto, tables, caches, DiskTypeOK, HandleTypeOK, Pending,
         Labels, LockKinds, Stages
<1>4. ASSUME NEW h \in Handles, CreateFails(h)
      PROVE  Goal
  <2>1. HandleTypeOK' /\ Pending'
    BY <1>4, ForgetType DEF CreateFails
  <2>2. DiskTypeOK' /\ acked' \subseteq Datums
    BY <1>4, NewHeaderType DEF CreateFails, tables, DiskTypeOK
  <2> QED
    BY <2>1, <2>2
<1>5. ASSUME NEW h \in Handles, NEW kind \in {"read", "write"}, OpenFile(h, kind)
      PROVE  Goal
  BY <1>5 DEF OpenFile, Goto, disk, tables, caches, DiskTypeOK, HandleTypeOK, Pending,
              Labels, LockKinds, Stages
<1>6. ASSUME NEW h \in Handles, AcquireLock(h)
      PROVE  Goal
  BY <1>6 DEF AcquireLock, Goto, disk, tables, caches, DiskTypeOK, HandleTypeOK, Pending,
              Labels, Stages
<1>7. ASSUME NEW H \in SUBSET Handles, Forget(H), UNCHANGED <<disk, acked>>
      PROVE  Goal
  BY <1>7, ForgetType DEF disk, tables, DiskTypeOK
<1>8. ASSUME NEW h \in Handles, Close(h) \/ HeaderUnreadable(h) \/ LockDenied(h)
      PROVE  Goal
  BY <1>7, <1>8 DEF Close, HeaderUnreadable, LockDenied, OpenError
<1>9. ASSUME NEW p \in Procs, Crash(p)
      PROVE  Goal
  BY <1>7, <1>9 DEF Crash
<1>10. ASSUME NEW h \in Handles,
              ReadHeader(h) \/ CollectKeys(h) \/ CollectTrackLengths(h)
       PROVE  Goal
  BY <1>10, OpenType DEF ReadHeader, CollectKeys, CollectTrackLengths
<1>11. ASSUME NEW h \in Handles, Insert(h)
       PROVE  Goal
  BY <1>11, InsertType
<1>12. ASSUME NEW h \in Handles, Power(h) \/ L2normExisting(h) \/ L2norm(h)
       PROVE  Goal
  BY <1>12, FlagType DEF Power, L2normExisting, L2norm
<1>13. Goal
  BY <1>2, <1>3, <1>4, <1>5, <1>6, <1>8, <1>9, <1>10, <1>11, <1>12 DEF Next, Open
<1> QED
  BY <1>1, <1>13 DEF TypeOK, DiskTypeOK, HandleTypeOK

LEMMA TypeInit ==
  ASSUME Init
  PROVE  TypeInv
<1> USE SpaceAssumption
<1>1. NoMap \in [KeyEntries -> -1 .. MaxTracks - 1]
  BY DEF NoMap, NotFound
<1>2. LockTypeOK /\ DiskTypeOK
  BY NewHeaderType DEF Init, LockInit, LockTypeOK, LockKinds, DiskTypeOK, KeyEntries, Slots, Cells
<1>3. HandleTypeOK /\ acked \subseteq Datums
  BY <1>1, NewHeaderType DEF Init, HandleTypeOK, Labels, LockKinds
<1>4. Pending
  BY DEF Init, Pending, Stages
<1> QED
  BY <1>2, <1>3, <1>4, TypeSplit DEF TypeInv

(* The types hold throughout; in particular no sequence of inserts, failed *)
(* commits and reopenings, through however many handles, ever takes        *)
(* numFiles past the capacity of the per-track tables.                     *)
THEOREM TypeCorrect == Spec => []TypeOK
<1>1. Init => TypeInv /\ Compatible
  BY TypeInit, LockInit0
<1>2. TypeInv /\ Compatible /\ [Next]_vars => (TypeInv /\ Compatible)'
  BY TypeStep, LockStep
<1>3. TypeInv => TypeOK
  BY DEF TypeInv
<1> QED
  BY <1>1, <1>2, <1>3, PTL DEF Spec

-----------------------------------------------------------------------------
(* No client inserts a track without vectors.  Such a track counts towards *)
(* numFiles but not towards length, by which audiodb_open and              *)
(* audiodb_power tell an empty database.                                   *)
WithVectors == \A d \in Datums : d.n > 0

-----------------------------------------------------------------------------
(* The inductive invariant.  It reads the tables through a header H: the   *)
(* one on disk, or the one an open handle has cached and works with.       *)

(* Where slot s starts, in vectors and in doubles, for given track lengths. *)
VectorAt(lens, s)      == Starts(s, lens)[s]
DoubleAt(lens, dim, s) == Starts(s, [t \in Slots |-> lens[t] * dim])[s]

(* Header H says that slot s holds datum d, and the tables agree. *)
StoredUnder(H, s, d) ==
  /\ d.dim = H.dim
  /\ d.power <=> "power" \in H.flags
  /\ d.times <=> "times" \in H.flags
  /\ Holds(s, DoubleAt(trackTable, H.dim, s), d)

(* Every slot H counts holds a datum, and its length is where they end. *)
Sound(H) ==
  /\ H.length = DoubleAt(trackTable, H.dim, H.numFiles)
  /\ \A s \in 0 .. H.numFiles - 1 : \E d \in Datums : StoredUnder(H, s, d)

(* The norm of the v-th vector in a data table. *)
NormOf(table, dim, v) == [j \in 1 .. dim |-> table[v * dim + j - 1]]

NormsFor(H) ==
  \A v \in 0 .. VectorAt(trackTable, H.numFiles) - 1 :
    l2normTable[v] = NormOf(dataTable, H.dim, v)

Normed(H) == "l2norm" \in H.flags => NormsFor(H)

(* G describes everything H does, the same way. *)
Includes(G, H) ==
  /\ H.numFiles <= G.numFiles
  /\ H.flags \subseteq G.flags
  /\ H.dim # 0 => G.dim = H.dim
  /\ H.numFiles > 0 => G.flags \subseteq H.flags \cup {"l2norm"}

(* What a handle has read so far. *)
Loaded(h) == pc[h] \notin {"closed", "create", "lock", "header"}
Keyed(h)  == Loaded(h) /\ pc[h] # "keys"
Filled(h) == Keyed(h) /\ pc[h] # "lengths"

(* The header of a handle includes the one on disk, which is behind it     *)
(* only after a failed sync.                                               *)
HeaderLoaded(h) ==
  /\ file = "ready"
  /\ Sound(hdr[h]) /\ Normed(hdr[h])
  /\ Includes(hdr[h], header)
  /\ "sync" \notin Faults =>
       /\ hdr[h].numFiles = header.numFiles
       /\ hdr[h].flags \subseteq header.flags \cup {"times"}

KeysCached(h) ==
  LET n == hdr[h].numFiles
  IN  /\ keys[h] = [i \in 1 .. n |-> keyTable[i - 1]]
      /\ \A k \in Keys : keymap[h][k] # NotFound =>
           keymap[h][k] \in 0 .. n - 1 /\ keyTable[keymap[h][k]] = k
      /\ \A s \in 0 .. n - 1 : keymap[h][keyTable[s]] # NotFound

LengthsCached(h) ==
  LET n == hdr[h].numFiles
  IN  /\ lengths[h] = [i \in 1 .. n |-> trackTable[i - 1]]
      /\ offsets[h] = [i \in 1 .. n |-> DoubleAt(trackTable, hdr[h].dim, i - 1)]

(* An insert past its checks, and what it has written so far. *)
InsertUnderWay(h) ==
  LET d == datum[h]
      n == hdr[h].numFiles
      start == hdr[h].length
      first == VectorAt(trackTable, n)
  IN  /\ d \in Datums /\ n < MaxTracks
      /\ start + d.n * d.dim < DataSpace
      /\ d.dim = hdr[h].dim
      /\ d.power <=> "power" \in hdr[h].flags
      /\ d.times <=> "times" \in hdr[h].flags
      /\ keymap[h][d.key] = NotFound
      /\ pc[h] # "key" => keyTable[n] = d.key
      /\ pc[h] \notin {"key", "length"} => trackTable[n] = d.n
      /\ pc[h] \in {"power", "times", "norms", "commit"} =>
           \A j \in 0 .. d.n * d.dim - 1 : dataTable[start + j] = Value(d, j)
      /\ pc[h] \in {"times", "norms", "commit"} /\ d.power =>
           \A v \in 0 .. d.n - 1 : powerTable[first + v] = Value(d, v)
      /\ pc[h] \in {"norms", "commit"} /\ d.times =>
           \A v \in 0 .. d.n - 1 : timesTable[first + v] = Value(d, v)
      /\ pc[h] = "commit" /\ "l2norm" \in hdr[h].flags =>
           \A v \in first .. first + d.n - 1 : l2normTable[v] = NormOf(dataTable, d.dim, v)

HandleInv(h) ==
  /\ pc[h] = "create" => file = "empty"
  /\ Loaded(h) => HeaderLoaded(h)
  /\ Keyed(h) => KeysCached(h)
  /\ Filled(h) => LengthsCached(h)
  /\ pc[h] \in Stages => mode[h] = "write" /\ InsertUnderWay(h)
  /\ pc[h] = "l2norm" => mode[h] = "write" /\ hdr[h].numFiles > 0 /\ NormsFor(hdr[h])

DiskInv ==
  /\ file # "ready" => header = NewHeader
  /\ \A g, h \in Handles : pc[g] = "create" /\ pc[h] = "create" => g = h
  /\ Sound(header) /\ Normed(header)
  /\ \A d \in acked : \E s \in 0 .. header.numFiles - 1 : StoredUnder(header, s, d)

ContentInv == DiskInv /\ \A h \in Handles : HandleInv(h)

-----------------------------------------------------------------------------
(* Positions. *)

LEMMA CapacityNat == MaxTracks \in Nat /\ DataSpace \in Nat /\ 0 \in 0 .. MaxTracks
BY SpaceAssumption

(* One accumulation over all the slots gives every start. *)
LEMMA VectorAtAccumulates ==
  ASSUME NEW lens \in [Slots -> Nat]
  PROVE  \E f : /\ Accumulates(f, MaxTracks, lens)
               /\ \A s \in 0 .. MaxTracks : VectorAt(lens, s) = f[s]
<1> USE CapacityNat
<1> DEFINE f == Starts(MaxTracks, lens)
<1>1. \A i \in Slots : lens[i] \in Nat
  OBVIOUS
<1>2. Accumulates(f, MaxTracks, lens)
  BY <1>1, StartsAccumulate DEF Slots
<1>3. ASSUME NEW s \in 0 .. MaxTracks
      PROVE  VectorAt(lens, s) = f[s]
  <2>1. s \in Nat /\ s <= MaxTracks /\ \A i \in 0 .. s - 1 : lens[i] \in Nat
    BY <1>1 DEF Slots
  <2>2. Accumulates(Starts(s, lens), s, lens)
    BY <2>1, StartsAccumulate
  <2> HIDE DEF f
  <2>3. \A i \in 0 .. s : Starts(s, lens)[i] = f[i]
    BY <1>2, <2>1, <2>2, AccumulationsAgree
  <2> QED
    BY <2>1, <2>3 DEF VectorAt
<1> QED
  BY <1>2, <1>3

LEMMA VectorAtSteps ==
  ASSUME NEW lens \in [Slots -> Nat]
  PROVE  /\ VectorAt(lens, 0) = 0
         /\ \A s \in 0 .. MaxTracks : VectorAt(lens, s) \in Nat
         /\ \A s \in Slots : VectorAt(lens, s + 1) = VectorAt(lens, s) + lens[s]
<1> USE CapacityNat
<1>1. PICK f : /\ Accumulates(f, MaxTracks, lens)
               /\ \A s \in 0 .. MaxTracks : VectorAt(lens, s) = f[s]
  BY VectorAtAccumulates
<1>2. ASSUME NEW s \in Slots
      PROVE  VectorAt(lens, s + 1) = VectorAt(lens, s) + lens[s]
  <2>1. s + 1 \in 1 .. MaxTracks /\ s + 1 \in 0 .. MaxTracks /\ s \in 0 .. MaxTracks
        /\ (s + 1) - 1 = s
    BY DEF Slots
  <2>2. f[s + 1] = f[(s + 1) - 1] + lens[(s + 1) - 1]
    BY <1>1, <2>1 DEF Accumulates
  <2> QED
    BY <1>1, <2>1, <2>2
<1> QED
  BY <1>1, <1>2 DEF Accumulates

(* A later slot starts at or after the end of every earlier one. *)
LEMMA VectorAtMonotone ==
  ASSUME NEW lens \in [Slots -> Nat], NEW s \in Slots, NEW t \in s + 1 .. MaxTracks
  PROVE  VectorAt(lens, s) + lens[s] <= VectorAt(lens, t)
<1> USE CapacityNat
<1>1. PICK f : /\ Accumulates(f, MaxTracks, lens)
               /\ \A i \in 0 .. MaxTracks : VectorAt(lens, i) = f[i]
  BY VectorAtAccumulates
<1>2. s \in 0 .. MaxTracks - 1 /\ s \in 0 .. MaxTracks /\ t \in 0 .. MaxTracks
  BY DEF Slots
<1>3. \A i \in 0 .. MaxTracks - 1 : lens[i] \in Nat
  BY DEF Slots
<1>4. \A j \in s + 1 .. MaxTracks : f[s] + lens[s] <= f[j]
  BY <1>1, <1>2, <1>3, AccumulationMonotone
<1> QED
  BY <1>1, <1>2, <1>4

(* Where a slot starts depends on the slots before it only. *)
LEMMA VectorAtLocal ==
  ASSUME NEW lens \in [Slots -> Nat], NEW lens2 \in [Slots -> Nat],
         NEW s \in 0 .. MaxTracks, \A i \in 0 .. s - 1 : lens[i] = lens2[i]
  PROVE  VectorAt(lens, s) = VectorAt(lens2, s)
<1> USE CapacityNat
<1>1. /\ \A i \in 0 .. s - 1 : lens[i] \in Nat
      /\ \A i \in 0 .. s - 1 : lens2[i] \in Nat
      /\ s \in Nat
  BY DEF Slots
<1>2. Accumulates(Starts(s, lens), s, lens) /\ Accumulates(Starts(s, lens2), s, lens2)
  BY <1>1, StartsAccumulate
<1>3. \A i \in 0 .. s : Starts(s, lens)[i] = Starts(s, lens2)[i]
  BY <1>1, <1>2, AccumulationsAgree
<1> QED
  BY <1>3 DEF VectorAt

LEMMA ProductDistributes ==
  ASSUME NEW a \in Nat, NEW b \in Nat, NEW m \in Nat
  PROVE  a * m \in Nat /\ (a + b) * m = a * m + b * m
OBVIOUS

(* The doubles of a track start at its vectors times the dimension. *)
LEMMA DoubleAtIsVectorAt ==
  ASSUME NEW lens \in [Slots -> Nat], NEW dim \in Nat, NEW s \in 0 .. MaxTracks
  PROVE  DoubleAt(lens, dim, s) = VectorAt(lens, s) * dim
<1> USE CapacityNat
<1> DEFINE size == [t \in Slots |-> lens[t] * dim]
           P(i) == i <= MaxTracks => VectorAt(size, i) = VectorAt(lens, i) * dim
           T == {i \in Nat : P(i)}
<1>1. size \in [Slots -> Nat]
  BY ProductDistributes
<1>2. \A t \in Slots : size[t] = lens[t] * dim
  OBVIOUS
<1>3. DoubleAt(lens, dim, s) = VectorAt(size, s)
  BY DEF DoubleAt, VectorAt
<1> HIDE DEF size
<1>4. 0 \in T
  BY <1>1, VectorAtSteps
<1>5. ASSUME NEW i \in T
      PROVE  i + 1 \in T
  <2> SUFFICES ASSUME i + 1 <= MaxTracks
               PROVE  VectorAt(size, i + 1) = VectorAt(lens, i + 1) * dim
    OBVIOUS
  <2>1. i \in Slots /\ i \in 0 .. MaxTracks
    BY DEF Slots
  <2>2. VectorAt(size, i) = VectorAt(lens, i) * dim
    BY <2>1
  <2>3. PICK a \in Nat : a = VectorAt(lens, i)
    BY <2>1, VectorAtSteps
  <2>4. PICK b \in Nat : b = lens[i]
    BY <2>1
  <2>5. VectorAt(size, i + 1) = VectorAt(size, i) + size[i]
    BY <1>1, <2>1, VectorAtSteps
  <2>6. VectorAt(lens, i + 1) = a + b
    BY <2>1, <2>3, <2>4, VectorAtSteps
  <2>7. VectorAt(size, i + 1) = a * dim + b * dim
    BY <1>2, <2>1, <2>2, <2>3, <2>4, <2>5
  <2>8. (a + b) * dim = a * dim + b * dim
    BY ProductDistributes
  <2> QED
    BY <2>6, <2>7, <2>8
<1>6. T = Nat
  <2>1. T \in SUBSET Nat
    OBVIOUS
  <2> QED
    BY ONLY <1>4, <1>5, <2>1, NatSetInduction
<1>7. VectorAt(size, s) = VectorAt(lens, s) * dim
  <2>1. s \in T /\ s <= MaxTracks
    BY <1>6
  <2> QED
    BY <2>1
<1> QED
  BY <1>3, <1>7

(* Dividing a position by the dimension counts vectors. *)
LEMMA QuotientOfProduct ==
  ASSUME NEW a \in Nat, NEW m \in Nat, m > 0
  PROVE  (a * m) \div m = a
OBVIOUS

-----------------------------------------------------------------------------
(* What a header says of a table, and what leaves it true. *)

(* The part of the tables that G counts is as it was. *)
Kept(G) ==
  /\ \A s \in 0 .. G.numFiles - 1 : keyTable'[s] = keyTable[s] /\ trackTable'[s] = trackTable[s]
  /\ \A i \in 0 .. G.length - 1 : dataTable'[i] = dataTable[i]
  /\ \A v \in 0 .. VectorAt(trackTable, G.numFiles) - 1 :
       powerTable'[v] = powerTable[v] /\ timesTable'[v] = timesTable[v]

LEMMA DatumType ==
  ASSUME NEW d \in Datums
  PROVE  /\ d.key \in Keys /\ d.n \in Nat /\ d.dim \in Nat /\ d.dim > 0
         /\ d.power \in BOOLEAN /\ d.times \in BOOLEAN
         /\ d = [key |-> d.key, n |-> d.n, dim |-> d.dim, power |-> d.power, times |-> d.times]
BY DatumsAssumption

LEMMA HeaderType ==
  ASSUME NEW H \in Headers
  PROVE  /\ H.numFiles \in 0 .. MaxTracks /\ H.numFiles \in Nat /\ H.dim \in Nat
         /\ H.length \in Nat /\ H.flags \subseteq Flags
         /\ \A s \in 0 .. H.numFiles - 1 : s \in Slots /\ s \in 0 .. MaxTracks
BY CapacityNat DEF Headers, Slots

LEMMA IncludesItself ==
  ASSUME NEW H \in Headers
  PROVE  Includes(H, H)
BY HeaderType DEF Includes

LEMMA ProductsFit ==
  ASSUME NEW a \in Nat, NEW n \in Nat, NEW b \in Nat, NEW m \in Nat, a + n <= b
  PROVE  a * m \in Nat /\ n * m \in Nat /\ b * m \in Nat /\ a * m + n * m <= b * m
<1>1. PICK c \in Nat : b = (a + n) + c
  <2>1. b - (a + n) \in Nat /\ b = (a + n) + (b - (a + n))
    OBVIOUS
  <2> QED
    BY <2>1
<1>2. b * m = (a + n) * m + c * m /\ (a + n) * m = a * m + n * m /\ c * m \in Nat
      /\ a * m \in Nat /\ n * m \in Nat
  BY <1>1, ProductDistributes
<1> QED
  BY <1>2

(* A slot H counts ends before what any header including H counts does. *)
LEMMA SlotExtent ==
  ASSUME DiskTypeOK, NEW G \in Headers, NEW H \in Headers, Sound(G), Includes(G, H),
         NEW s \in 0 .. H.numFiles - 1, NEW d \in Datums, StoredUnder(H, s, d)
  PROVE  /\ H.dim = d.dim /\ G.dim = d.dim /\ d.dim > 0
         /\ s \in Slots /\ s \in 0 .. G.numFiles - 1
         /\ d.n * d.dim \in Nat
         /\ DoubleAt(trackTable, d.dim, s) \in Nat
         /\ DoubleAt(trackTable, d.dim, s) + d.n * d.dim <= G.length
         /\ DoubleAt(trackTable, d.dim, s) \div d.dim = VectorAt(trackTable, s)
         /\ VectorAt(trackTable, s) \in Nat
         /\ VectorAt(trackTable, s) + d.n <= VectorAt(trackTable, G.numFiles)
<1> USE CapacityNat
<1>1. trackTable \in [Slots -> Nat] /\ trackTable[s] = d.n /\ d.dim = H.dim
  BY DEF DiskTypeOK, StoredUnder, Holds
<1>2. /\ d.n \in Nat /\ d.dim \in Nat /\ d.dim > 0
      /\ s \in Slots /\ s \in 0 .. MaxTracks /\ G.numFiles \in s + 1 .. MaxTracks
      /\ G.numFiles \in 0 .. MaxTracks /\ s \in 0 .. G.numFiles - 1
  BY DatumType, HeaderType DEF Includes
<1>3. G.dim = d.dim
  BY <1>1, <1>2 DEF Includes
<1>4. PICK a \in Nat : a = VectorAt(trackTable, s)
  BY <1>1, <1>2, VectorAtSteps
<1>5. PICK b \in Nat : b = VectorAt(trackTable, G.numFiles)
  BY <1>1, <1>2, VectorAtSteps
<1>6. a + d.n <= b
  BY <1>1, <1>2, <1>4, <1>5, VectorAtMonotone
<1>7. DoubleAt(trackTable, d.dim, s) = a * d.dim /\ G.length = b * d.dim
  BY <1>1, <1>2, <1>3, <1>4, <1>5, DoubleAtIsVectorAt DEF Sound
<1>8. a * d.dim \in Nat /\ d.n * d.dim \in Nat /\ a * d.dim + d.n * d.dim <= b * d.dim
  BY <1>2, <1>6, ProductsFit
<1>9. (a * d.dim) \div d.dim = a
  BY <1>2, QuotientOfProduct
<1> QED
  BY <1>1, <1>2, <1>3, <1>4, <1>5, <1>6, <1>7, <1>8, <1>9

LEMMA StoredKept ==
  ASSUME DiskTypeOK, DiskTypeOK', NEW G \in Headers, NEW H \in Headers,
         Sound(G), Includes(G, H), Kept(G),
         NEW s \in 0 .. H.numFiles - 1, NEW d \in Datums, StoredUnder(H, s, d)
  PROVE  StoredUnder(H, s, d)'
<1>1. /\ H.dim = d.dim /\ G.dim = d.dim
      /\ s \in Slots /\ s \in 0 .. G.numFiles - 1 /\ s \in 0 .. MaxTracks
      /\ \A i \in 0 .. s - 1 : i \in 0 .. G.numFiles - 1
      /\ d.n \in Nat /\ d.dim \in Nat
  BY SlotExtent, HeaderType, DatumType
<1>2. PICK start \in Nat : start = DoubleAt(trackTable, d.dim, s)
  BY SlotExtent
<1>3. PICK size \in Nat : size = d.n * d.dim
  BY SlotExtent
<1>4. PICK first \in Nat : first = VectorAt(trackTable, s)
  BY SlotExtent
<1>5. start + size <= G.length /\ start \div d.dim = first
      /\ first + d.n <= VectorAt(trackTable, G.numFiles)
  BY <1>2, <1>3, <1>4, SlotExtent
<1>6. trackTable \in [Slots -> Nat] /\ trackTable' \in [Slots -> Nat]
      /\ \A i \in 0 .. s - 1 : trackTable[i] = trackTable'[i]
  BY <1>1 DEF Kept, DiskTypeOK
<1>7. DoubleAt(trackTable', d.dim, s) = start
  <2>1. VectorAt(trackTable', s) = VectorAt(trackTable, s)
    BY <1>1, <1>6, VectorAtLocal
  <2> QED
    BY <1>1, <1>2, <1>6, <2>1, DoubleAtIsVectorAt
<1>8. Holds(s, start, d)
  BY <1>1, <1>2 DEF StoredUnder
<1>9. /\ G.length \in Nat
      /\ VectorAt(trackTable, G.numFiles) \in Nat
  BY <1>6, HeaderType, VectorAtSteps
<1>10. ASSUME NEW j \in DOMAIN DataBlock(d)
       PROVE  dataTable'[start + j] = Value(d, j)
  <2>1. j \in 0 .. size - 1
    BY <1>3 DEF DataBlock
  <2>2. start + j \in 0 .. G.length - 1
    BY <1>5, <1>9, <2>1
  <2>3. dataTable[start + j] = Value(d, j)
    BY <1>8 DEF Holds
  <2> QED
    BY <2>2, <2>3 DEF Kept
<1>11. ASSUME NEW v \in DOMAIN VectorBlock(d)
       PROVE  /\ d.power => powerTable'[start \div d.dim + v] = Value(d, v)
              /\ d.times => timesTable'[start \div d.dim + v] = Value(d, v)
  <2>1. v \in 0 .. d.n - 1
    BY DEF VectorBlock
  <2>2. start \div d.dim + v \in 0 .. VectorAt(trackTable, G.numFiles) - 1
    BY <1>1, <1>5, <1>9, <2>1
  <2>3. /\ d.power => powerTable[start \div d.dim + v] = Value(d, v)
        /\ d.times => timesTable[start \div d.dim + v] = Value(d, v)
    BY <1>8 DEF Holds
  <2> QED
    BY <2>2, <2>3 DEF Kept
<1>12. keyTable'[s] = d.key /\ trackTable'[s] = d.n /\ start + d.n * d.dim <= DataSpace
  BY <1>1, <1>8 DEF Kept, Holds
<1>13. Holds(s, start, d)'
  BY <1>10, <1>11, <1>12 DEF Holds
<1> QED
  BY <1>1, <1>7, <1>13 DEF StoredUnder

(* A step that keeps what G counts keeps everything G includes. *)
LEMMA SoundKept ==
  ASSUME DiskTypeOK, DiskTypeOK', NEW G \in Headers, NEW H \in Headers,
         Sound(G), Includes(G, H), Kept(G), Sound(H)
  PROVE  /\ Sound(H)'
         /\ \A s \in 0 .. H.numFiles : VectorAt(trackTable', s) = VectorAt(trackTable, s)
         /\ \A s \in 0 .. H.numFiles :
              DoubleAt(trackTable', H.dim, s) = DoubleAt(trackTable, H.dim, s)
<1>1. trackTable \in [Slots -> Nat] /\ trackTable' \in [Slots -> Nat]
  BY DEF DiskTypeOK
<1>2. H.numFiles \in 0 .. MaxTracks /\ H.dim \in Nat /\ H.numFiles <= G.numFiles
      /\ G.numFiles \in 0 .. MaxTracks
  BY HeaderType DEF Includes
<1>3. ASSUME NEW s \in 0 .. H.numFiles
      PROVE  /\ VectorAt(trackTable', s) = VectorAt(trackTable, s)
             /\ DoubleAt(trackTable', H.dim, s) = DoubleAt(trackTable, H.dim, s)
  <2>1. s \in 0 .. MaxTracks /\ \A i \in 0 .. s - 1 : trackTable[i] = trackTable'[i]
    BY <1>2, CapacityNat DEF Kept
  <2>2. VectorAt(trackTable', s) = VectorAt(trackTable, s)
    BY <1>1, <2>1, VectorAtLocal
  <2> QED
    BY <1>1, <1>2, <2>1, <2>2, DoubleAtIsVectorAt
<1>4. \A s \in 0 .. H.numFiles - 1 : \E d \in Datums : StoredUnder(H, s, d)'
  BY StoredKept DEF Sound
<1>5. H.length = DoubleAt(trackTable', H.dim, H.numFiles)
  BY <1>2, <1>3 DEF Sound
<1> QED
  BY <1>3, <1>4, <1>5 DEF Sound

(* Headers that differ in what an empty database leaves open, or in the    *)
(* norm flag only, describe the same tracks.                               *)
SameTracks(K, H) ==
  /\ K.numFiles = H.numFiles /\ K.length = H.length
  /\ H.numFiles > 0 => /\ K.dim = H.dim
                       /\ "power" \in K.flags <=> "power" \in H.flags
                       /\ "times" \in K.flags <=> "times" \in H.flags

LEMMA SameTracksSound ==
  ASSUME DiskTypeOK, NEW H \in Headers, NEW K \in Headers, Sound(H), SameTracks(K, H)
  PROVE  /\ Sound(K)
         /\ \A s \in 0 .. H.numFiles - 1 : \A d \in Datums :
              StoredUnder(K, s, d) <=> StoredUnder(H, s, d)
         /\ NormsFor(K) <=> NormsFor(H)
<1>1. trackTable \in [Slots -> Nat] /\ H.dim \in Nat /\ K.dim \in Nat /\ H.numFiles \in Nat
  BY HeaderType DEF DiskTypeOK
<1>2. CASE H.numFiles = 0
  <2>1. VectorAt(trackTable, 0) = 0
    BY <1>1, VectorAtSteps
  <2>2. DoubleAt(trackTable, H.dim, 0) = 0 /\ DoubleAt(trackTable, K.dim, 0) = 0
    BY <1>1, <2>1, CapacityNat, DoubleAtIsVectorAt
  <2> QED
    BY <1>2, <2>1, <2>2 DEF Sound, SameTracks, NormsFor
<1>3. CASE H.numFiles > 0
  BY <1>3 DEF Sound, SameTracks, StoredUnder, NormsFor
<1> QED
  BY <1>1, <1>2, <1>3

(* length tells an empty database as well as numFiles does. *)
LEMMA LengthCounts ==
  ASSUME WithVectors, DiskTypeOK, NEW H \in Headers, Sound(H)
  PROVE  /\ H.numFiles = 0 => H.length = 0
         /\ H.numFiles > 0 => /\ H.length > 0 /\ H.dim > 0
                              /\ H.length \div H.dim = VectorAt(trackTable, H.numFiles)
         /\ H.length = VectorAt(trackTable, H.numFiles) * H.dim
         /\ VectorAt(trackTable, H.numFiles) \in Nat
         /\ H.length <= DataSpace
<1>1. trackTable \in [Slots -> Nat] /\ H.dim \in Nat /\ H.numFiles \in 0 .. MaxTracks
      /\ H.length \in Nat
  BY HeaderType DEF DiskTypeOK
<1>2. PICK b \in Nat : b = VectorAt(trackTable, H.numFiles)
  BY <1>1, VectorAtSteps
<1>3. H.length = b * H.dim
  BY <1>1, <1>2, DoubleAtIsVectorAt DEF Sound
<1>4. CASE H.numFiles = 0
  <2>1. b = 0
    BY <1>1, <1>2, <1>4, VectorAtSteps
  <2> QED
    BY <1>1, <1>2, <1>3, <1>4, <2>1, CapacityNat
<1>5. CASE H.numFiles > 0
  <2>0. H.numFiles - 1 \in 0 .. H.numFiles - 1 /\ (H.numFiles - 1) + 1 = H.numFiles
    BY <1>1, <1>5
  <2>1. PICK s \in 0 .. H.numFiles - 1 : s + 1 = H.numFiles
    BY <2>0
  <2>2. PICK d \in Datums : StoredUnder(H, s, d)
    BY <2>1 DEF Sound
  <2>3. Includes(H, H)
    BY IncludesItself
  <2>4. H.dim = d.dim /\ d.dim > 0 /\ s \in Slots /\ VectorAt(trackTable, s) \in Nat
        /\ VectorAt(trackTable, s) + d.n <= b
    BY <1>2, <2>1, <2>2, <2>3, SlotExtent
  <2>5. d.n > 0 /\ d.n \in Nat /\ trackTable[s] = d.n
    BY <2>2, DatumType DEF WithVectors, StoredUnder, Holds
  <2>6. b > 0
    BY <2>4, <2>5
  <2>7. b * H.dim > 0
    <3>1. 0 * H.dim = 0 /\ (b - 1) * H.dim \in Nat /\ b * H.dim = (b - 1) * H.dim + 1 * H.dim
      <4>1. b - 1 \in Nat /\ (b - 1) + 1 = b
        BY <2>6
      <4> QED
        BY <1>1, <4>1, ProductDistributes
    <3> QED
      BY <1>1, <2>4, <3>1
  <2>8. b = VectorAt(trackTable, s) + d.n
    BY <1>2, <1>1, <2>1, <2>4, <2>5, VectorAtSteps
  <2>9. H.length <= DataSpace
    <3>1. PICK a \in Nat : a = VectorAt(trackTable, s)
      BY <2>4
    <3>2. DoubleAt(trackTable, H.dim, s) = a * H.dim
      BY <1>1, <2>1, <3>1, HeaderType, DoubleAtIsVectorAt
    <3>3. a * H.dim + d.n * H.dim <= DataSpace
      BY <2>2, <2>4, <3>2 DEF StoredUnder, Holds
    <3>4. (a + d.n) * H.dim = a * H.dim + d.n * H.dim
      BY <1>1, <2>5, ProductDistributes
    <3> QED
      BY <1>3, <2>8, <3>1, <3>3, <3>4
  <2>10. (b * H.dim) \div H.dim = b
    BY <1>1, <2>4, QuotientOfProduct
  <2> QED
    BY <1>2, <1>3, <1>5, <2>4, <2>7, <2>9, <2>10
<1> QED
  BY <1>1, <1>4, <1>5

(* The doubles of a counted vector are counted. *)
LEMMA VectorExtent ==
  ASSUME NEW b \in Nat, NEW m \in Nat, NEW v \in 0 .. b - 1, NEW j \in 1 .. m
  PROVE  v * m \in Nat /\ v * m + j - 1 \in 0 .. b * m - 1
<1>1. v \in Nat /\ v + 1 <= b
  OBVIOUS
<1>2. v * m \in Nat /\ 1 * m \in Nat /\ b * m \in Nat /\ v * m + 1 * m <= b * m
  BY <1>1, ProductsFit
<1>3. PICK x \in Nat : x = v * m
  BY <1>2
<1>4. PICK y \in Nat : y = b * m
  BY <1>2
<1>5. x + m <= y
  BY <1>2, <1>3, <1>4
<1> QED
  BY <1>3, <1>4, <1>5

LEMMA NormsKept ==
  ASSUME WithVectors, DiskTypeOK, DiskTypeOK', NEW G \in Headers, NEW H \in Headers,
         Sound(G), Includes(G, H), Kept(G), Sound(H), NormsFor(H),
         \A v \in 0 .. VectorAt(trackTable, G.numFiles) - 1 : l2normTable'[v] = l2normTable[v]
  PROVE  NormsFor(H)'
<1>1. VectorAt(trackTable', H.numFiles) = VectorAt(trackTable, H.numFiles)
  BY SoundKept, HeaderType
<1>2. PICK b \in Nat : b = VectorAt(trackTable, H.numFiles)
  BY LengthCounts
<1>3. PICK c \in Nat : c = VectorAt(trackTable, G.numFiles)
  BY LengthCounts
<1>4. CASE H.numFiles = 0
  <2>1. b = 0
    BY <1>2, <1>4, VectorAtSteps DEF DiskTypeOK
  <2> QED
    BY <1>1, <1>2, <2>1 DEF NormsFor
<1>5. CASE H.numFiles > 0
  <2>1. H.dim \in Nat /\ H.dim > 0 /\ G.dim = H.dim
    BY <1>5, HeaderType, LengthCounts DEF Includes
  <2>2. b <= c
    <3>0. H.numFiles - 1 \in 0 .. H.numFiles - 1 /\ (H.numFiles - 1) + 1 = H.numFiles
      BY <1>5, HeaderType
    <3>1. PICK s \in 0 .. H.numFiles - 1 : s + 1 = H.numFiles
      BY <3>0
    <3>2. PICK d \in Datums : StoredUnder(H, s, d)
      BY <3>1 DEF Sound
    <3>3. VectorAt(trackTable, s) + d.n <= c /\ s \in Slots
      BY <1>3, <3>1, <3>2, SlotExtent
    <3>4. trackTable[s] = d.n /\ trackTable \in [Slots -> Nat]
      BY <3>2 DEF StoredUnder, Holds, DiskTypeOK
    <3> QED
      BY <1>2, <3>1, <3>3, <3>4, VectorAtSteps
  <2>3. G.length = c * H.dim
    BY <1>3, <2>1, LengthCounts
  <2>4. ASSUME NEW v \in 0 .. b - 1
        PROVE  l2normTable'[v] = NormOf(dataTable', H.dim, v)
    <3>1. v \in 0 .. c - 1
      BY <2>2
    <3>2. l2normTable'[v] = NormOf(dataTable, H.dim, v)
      BY <1>2, <1>3, <3>1 DEF NormsFor
    <3>3. ASSUME NEW j \in 1 .. H.dim
          PROVE  dataTable'[v * H.dim + j - 1] = dataTable[v * H.dim + j - 1]
      <4>1. v * H.dim + j - 1 \in 0 .. G.length - 1
        BY <2>1, <2>3, <3>1, VectorExtent
      <4> QED
        BY <4>1 DEF Kept
    <3>4. NormOf(dataTable', H.dim, v) = NormOf(dataTable, H.dim, v)
      BY <3>3 DEF NormOf
    <3> QED
      BY <3>2, <3>4
  <2> QED
    BY <1>1, <1>2, <2>4 DEF NormsFor
<1> QED
  BY <1>4, <1>5, HeaderType

-----------------------------------------------------------------------------
(* Steps that leave the tables alone. *)

LEMMA TablesSame ==
  ASSUME UNCHANGED tables, NEW H
  PROVE  /\ Sound(H)' <=> Sound(H)
         /\ Normed(H)' <=> Normed(H)
         /\ NormsFor(H)' <=> NormsFor(H)
         /\ \A s, d : StoredUnder(H, s, d)' <=> StoredUnder(H, s, d)
BY DEF tables, Sound, StoredUnder, Holds, Normed, NormsFor

(* Nothing about handle g changes. *)
Same(g) ==
  /\ pc'[g] = pc[g] /\ mode'[g] = mode[g] /\ hdr'[g] = hdr[g] /\ datum'[g] = datum[g]
  /\ keys'[g] = keys[g] /\ keymap'[g] = keymap[g]
  /\ lengths'[g] = lengths[g] /\ offsets'[g] = offsets[g]

LEMMA SameKeeps ==
  ASSUME UNCHANGED disk, NEW g \in Handles, Same(g), HandleInv(g)
  PROVE  HandleInv(g)'
<1>1. UNCHANGED <<file, header, tables, keyTable, trackTable, dataTable, powerTable,
                  timesTable, l2normTable>>
  BY DEF disk, tables
<1>2. PICK H : H = hdr[g] /\ H = hdr'[g]
  BY DEF Same
<1>3. Loaded(g)' => HeaderLoaded(g)'
  <2>1. Loaded(g)' => HeaderLoaded(g)
    BY DEF Same, HandleInv, Loaded
  <2>2. Sound(H)' <=> Sound(H)
    BY <1>1, TablesSame
  <2>3. Normed(H)' <=> Normed(H)
    BY <1>1, TablesSame
  <2>4. HeaderLoaded(g) => HeaderLoaded(g)'
    BY <1>1, <1>2, <2>2, <2>3 DEF HeaderLoaded, Includes
  <2> QED
    BY <2>1, <2>4
<1>4. Keyed(g)' => KeysCached(g)'
  BY <1>1 DEF Same, HandleInv, Keyed, Loaded, KeysCached
<1>5. Filled(g)' => LengthsCached(g)'
  BY <1>1 DEF Same, HandleInv, Filled, Keyed, Loaded, LengthsCached
<1>6. pc'[g] \in Stages => mode'[g] = "write" /\ InsertUnderWay(g)'
  <2>1. InsertUnderWay(g) => InsertUnderWay(g)'
    BY <1>1 DEF Same, InsertUnderWay
  <2> QED
    BY <2>1 DEF Same, HandleInv
<1>7. pc'[g] = "l2norm" => mode'[g] = "write" /\ hdr'[g].numFiles > 0 /\ NormsFor(hdr[g])'
  <2>1. NormsFor(H)' <=> NormsFor(H)
    BY <1>1, TablesSame
  <2> QED
    BY <1>2, <2>1 DEF Same, HandleInv
<1> QED
  BY <1>1, <1>3, <1>4, <1>5, <1>6, <1>7 DEF Same, HandleInv

LEMMA DiskSame ==
  ASSUME DiskInv, UNCHANGED <<disk, acked>>,
         \A g \in Handles : pc'[g] = "create" => pc[g] = "create"
  PROVE  DiskInv'
<1>1. UNCHANGED <<file, header, tables>>
  BY DEF disk
<1>2. PICK H : H = header /\ H = header'
  BY <1>1
<1>3. (Sound(H)' <=> Sound(H)) /\ (Normed(H)' <=> Normed(H))
  BY <1>1, TablesSame
<1>4. \A s, d : StoredUnder(H, s, d)' <=> StoredUnder(H, s, d)
  BY <1>1, TablesSame
<1> QED
  BY <1>1, <1>2, <1>3, <1>4 DEF DiskInv

(* Handles that are closed, or wait to be opened, owe nothing. *)
LEMMA Unopened ==
  ASSUME NEW g \in Handles, pc'[g] \in {"closed", "lock", "header"}
  PROVE  HandleInv(g)'
BY DEF HandleInv, Loaded, Keyed, Filled, Stages

LEMMA QuietStep ==
  ASSUME ContentInv, UNCHANGED <<disk, acked>>,
         \A g \in Handles : Same(g) \/ pc'[g] \in {"closed", "lock", "header"}
  PROVE  ContentInv'
<1>1. DiskInv'
  BY DiskSame DEF ContentInv, Same
<1>2. ASSUME NEW g \in Handles
      PROVE  HandleInv(g)'
  <2>1. UNCHANGED disk
    OBVIOUS
  <2> QED
    BY <2>1, SameKeeps, Unopened DEF ContentInv
<1> QED
  BY <1>1, <1>2 DEF ContentInv

(* The creator is alone with a file that has no header yet. *)
LEMMA CreateStep ==
  ASSUME TypeOK, ContentInv, NEW h \in Handles,
         CreateFile(h) \/ WriteNewHeader(h) \/ CreateFails(h)
  PROVE  ContentInv'
<1> USE TypeSplit
<1>1. UNCHANGED <<tables, acked>> /\ file # "ready"
  BY DEF CreateFile, WriteNewHeader, CreateFails, ContentInv, HandleInv
<1>2. header = NewHeader /\ header' = NewHeader
  BY <1>1 DEF CreateFile, WriteNewHeader, CreateFails, ContentInv, DiskInv
<1>3. \A g \in Handles : ~Loaded(g)
  BY <1>1 DEF ContentInv, HandleInv, HeaderLoaded
<1>4. /\ \A g \in Handles \ {h} : pc'[g] = pc[g]
      /\ pc'[h] \in {"create", "lock", "closed"}
      /\ pc'[h] = "create" => file' = "empty" /\ file = "absent"
      /\ pc'[h] # "create" => pc[h] = "create"
  BY DEF CreateFile, WriteNewHeader, CreateFails, Forget, Goto, HandleTypeOK
<1>5. \A g \in Handles : pc[g] = "create" => file = "empty"
  BY DEF ContentInv, HandleInv
<1>6. \A f, g \in Handles : pc[f] = "create" /\ pc[g] = "create" => f = g
  BY DEF ContentInv, DiskInv
<1>7. \A f, g \in Handles : pc'[f] = "create" /\ pc'[g] = "create" => f = g
  BY <1>4, <1>5, <1>6
<1>8. \A g \in Handles : pc'[g] = "create" => file' = "empty"
  BY <1>4, <1>5, <1>6
<1>9. DiskInv'
  <2>1. PICK H : H = header /\ H = header'
    BY <1>2
  <2>2. (Sound(H)' <=> Sound(H)) /\ (Normed(H)' <=> Normed(H))
    BY <1>1, TablesSame
  <2>3. \A s, d : StoredUnder(H, s, d)' <=> StoredUnder(H, s, d)
    BY <1>1, TablesSame
  <2> QED
    BY <1>1, <1>2, <1>7, <2>1, <2>2, <2>3 DEF ContentInv, DiskInv
<1>10. ASSUME NEW g \in Handles
       PROVE  HandleInv(g)'
  <2>1. pc'[g] \in {"closed", "create", "lock", "header"}
    BY <1>3, <1>4 DEF Loaded
  <2> QED
    BY <1>8, <2>1 DEF HandleInv, Loaded, Keyed, Filled, Stages
<1> QED
  BY <1>9, <1>10 DEF ContentInv

-----------------------------------------------------------------------------
(* audiodb_open. *)

(* The map gives each key that occurs its last index, and no other. *)
LEMMA MapFinds ==
  ASSUME NEW n \in Nat, NEW ks, NEW k \in KeyEntries
  PROVE  /\ MapOf(ks, n)[k] # NotFound => /\ MapOf(ks, n)[k] \in 0 .. n - 1
                                          /\ ks[MapOf(ks, n)[k] + 1] = k
         /\ (\E i \in 1 .. n : ks[i] = k) => MapOf(ks, n)[k] # NotFound
<1>1. CASE \E i \in 1 .. n : ks[i] = k
  <2> DEFINE last == CHOOSE i \in 1 .. n : IsLast(i, k, ks, n)
  <2>1. \E i \in 1 .. n : IsLast(i, k, ks, n)
    BY <1>1, LastExists
  <2>2. last \in 1 .. n /\ IsLast(last, k, ks, n)
    BY <2>1
  <2>3. MapOf(ks, n)[k] = last - 1
    BY <1>1 DEF MapOf
  <2> HIDE DEF last
  <2> QED
    BY <2>2, <2>3 DEF IsLast, NotFound
<1>2. CASE ~ \E i \in 1 .. n : ks[i] = k
  BY <1>2 DEF MapOf
<1> QED
  BY <1>1, <1>2

(* Another step inside one handle, by which the disk does not change. *)
LEMMA HandleStep ==
  ASSUME ContentInv, NEW h \in Handles, UNCHANGED <<disk, acked>>,
         \A g \in Handles \ {h} : Same(g), pc'[h] # "create", HandleInv(h)'
  PROVE  ContentInv'
<1>1. \A g \in Handles : pc'[g] = "create" => pc[g] = "create"
  BY DEF Same
<1>2. DiskInv'
  BY <1>1, DiskSame DEF ContentInv
<1>3. ASSUME NEW g \in Handles \ {h}
      PROVE  HandleInv(g)'
  <2>1. UNCHANGED disk
    OBVIOUS
  <2> QED
    BY <2>1, SameKeeps DEF ContentInv
<1> QED
  BY <1>2, <1>3 DEF ContentInv

(* What a handle has read already, it keeps while its header stays. *)
LEMMA StillLoaded ==
  ASSUME NEW h \in Handles, UNCHANGED disk, hdr'[h] = hdr[h], HeaderLoaded(h)
  PROVE  HeaderLoaded(h)'
<1>1. UNCHANGED <<file, header, tables>>
  BY DEF disk
<1>2. PICK H : H = hdr[h] /\ H = hdr'[h]
  OBVIOUS
<1>3. (Sound(H)' <=> Sound(H)) /\ (Normed(H)' <=> Normed(H))
  BY <1>1, TablesSame
<1> QED
  BY <1>1, <1>2, <1>3 DEF HeaderLoaded, Includes

LEMMA OpenStep ==
  ASSUME WithVectors, TypeOK, ContentInv, NEW h \in Handles,
         ReadHeader(h) \/ CollectKeys(h) \/ CollectTrackLengths(h)
  PROVE  ContentInv'
<1> USE TypeSplit
<1>1. UNCHANGED <<disk, acked>> /\ \A g \in Handles \ {h} : Same(g)
  BY DEF ReadHeader, CollectKeys, CollectTrackLengths, Goto, Same, HandleTypeOK, caches
<1>2. CASE ReadHeader(h)
  <2>1. pc'[h] = "keys" /\ hdr'[h] = header /\ file = "ready"
    BY <1>2 DEF ReadHeader, Goto, HandleTypeOK
  <2>2. UNCHANGED <<file, header, tables>> /\ header \in Headers
    BY <1>1 DEF disk, DiskTypeOK
  <2>3. PICK H \in Headers : H = header /\ H = header' /\ H = hdr'[h]
    BY <2>1, <2>2
  <2>4. Sound(H)' /\ Normed(H)'
    BY <2>2, <2>3, TablesSame DEF ContentInv, DiskInv
  <2>5. Includes(H, H)
    BY IncludesItself
  <2>6. HeaderLoaded(h)'
    BY <2>1, <2>2, <2>3, <2>4, <2>5 DEF HeaderLoaded, Includes
  <2>7. HandleInv(h)'
    BY <2>1, <2>6 DEF HandleInv, Keyed, Filled, Stages
  <2> QED
    BY <1>1, <2>1, <2>7, HandleStep
<1>3. ASSUME pc[h] \in {"keys", "lengths"}
      PROVE  HeaderLoaded(h) /\ hdr[h] \in Headers /\ Collected(h) = hdr[h].numFiles
  <2>1. HeaderLoaded(h) /\ hdr[h] \in Headers
    BY <1>3 DEF ContentInv, HandleInv, Loaded, HandleTypeOK
  <2>2. /\ hdr[h].numFiles = 0 => hdr[h].length = 0
        /\ hdr[h].numFiles > 0 => hdr[h].length > 0
    BY <2>1, LengthCounts DEF HeaderLoaded
  <2> QED
    BY <2>1, <2>2, HeaderType DEF Collected
<1>4. CASE CollectKeys(h)
  <2>1. pc[h] = "keys" /\ pc'[h] = "lengths" /\ hdr'[h] = hdr[h]
    BY <1>4 DEF CollectKeys, Goto, HandleTypeOK
  <2>2. PICK n \in Nat : n = hdr[h].numFiles /\ n <= MaxTracks
    BY <1>3, <2>1, HeaderType
  <2>3. PICK ks : ks = [i \in 1 .. n |-> keyTable[i - 1]]
    OBVIOUS
  <2>4. keys'[h] = ks /\ keymap'[h] = MapOf(ks, n)
    BY <1>3, <1>4, <2>1, <2>2, <2>3 DEF CollectKeys, HandleTypeOK
  <2>5. keyTable' = keyTable /\ keyTable \in [Slots -> KeyEntries]
    BY <1>1 DEF disk, tables, DiskTypeOK
  <2>6. ASSUME NEW k \in Keys, keymap'[h][k] # NotFound
        PROVE  keymap'[h][k] \in 0 .. n - 1 /\ keyTable[keymap'[h][k]] = k
    <3>1. k \in KeyEntries
      BY DEF KeyEntries
    <3>2. PICK i : i = keymap'[h][k]
      OBVIOUS
    <3>3. i \in 0 .. n - 1 /\ ks[i + 1] = k
      BY <2>4, <2>6, <3>1, <3>2, MapFinds
    <3>4. i + 1 \in 1 .. n /\ (i + 1) - 1 = i
      BY <3>3
    <3> QED
      BY <2>3, <3>2, <3>3, <3>4
  <2>7. ASSUME NEW s \in 0 .. n - 1
        PROVE  keymap'[h][keyTable[s]] # NotFound
    <3>1. keyTable[s] \in KeyEntries
      BY <2>2, <2>5, CapacityNat DEF Slots
    <3>2. PICK k \in KeyEntries : k = keyTable[s]
      BY <3>1
    <3>3. s + 1 \in 1 .. n /\ ks[s + 1] = k
      BY <2>3, <3>2
    <3>4. n \in Nat /\ k \in KeyEntries
      OBVIOUS
    <3>5. MapOf(ks, n)[k] # NotFound
      BY ONLY <3>3, <3>4, MapFinds
    <3> QED
      BY <2>4, <3>2, <3>5
  <2>8. KeysCached(h)'
    BY <2>1, <2>2, <2>3, <2>4, <2>5, <2>6, <2>7 DEF KeysCached
  <2>9. HeaderLoaded(h)'
    BY <1>1, <1>3, <2>1, StillLoaded
  <2>10. HandleInv(h)'
    BY <2>1, <2>8, <2>9 DEF HandleInv, Filled, Stages
  <2> QED
    BY <1>1, <2>1, <2>10, HandleStep
<1>5. CASE CollectTrackLengths(h)
  <2>1. /\ pc[h] = "lengths" /\ pc'[h] = "open" /\ hdr'[h] = hdr[h]
        /\ keys'[h] = keys[h] /\ keymap'[h] = keymap[h]
    BY <1>5 DEF CollectTrackLengths, Goto, HandleTypeOK
  <2>2. PICK n \in Nat : n = hdr[h].numFiles /\ n <= MaxTracks
    BY <1>3, <2>1, HeaderType
  <2>3. UNCHANGED <<keyTable, trackTable>>
    BY <1>1 DEF disk, tables
  <2>4. KeysCached(h)'
    <3>1. KeysCached(h)
      BY <2>1 DEF ContentInv, HandleInv, Keyed, Loaded
    <3> QED
      BY <2>1, <2>3, <3>1 DEF KeysCached
  <2>5. PICK size : size = [s \in Slots |-> trackTable[s] * hdr[h].dim]
    OBVIOUS
  <2>6. /\ lengths'[h] = [i \in 1 .. n |-> trackTable[i - 1]]
        /\ offsets'[h] = [i \in 1 .. n |-> Starts(n, size)[i - 1]]
    BY <1>3, <1>5, <2>1, <2>2, <2>5 DEF CollectTrackLengths, HandleTypeOK
  <2>7. ASSUME NEW i \in 1 .. n
        PROVE  Starts(n, size)[i - 1] = DoubleAt(trackTable, hdr[h].dim, i - 1)
    <3>1. PICK m \in Nat : m = i - 1 /\ m <= n /\ m \in 0 .. m
      <4>1. i - 1 \in Nat /\ i - 1 <= n
        OBVIOUS
      <4> QED
        BY <4>1
    <3>2. \A j \in 0 .. n - 1 : size[j] \in Nat
      <4>1. \A j \in 0 .. n - 1 : j \in Slots
        BY <2>2, CapacityNat DEF Slots
      <4>2. trackTable \in [Slots -> Nat] /\ hdr[h].dim \in Nat
        BY <1>3, <2>1, HeaderType DEF DiskTypeOK
      <4> QED
        BY <2>5, <4>1, <4>2, ProductDistributes
    <3>3. Accumulates(Starts(n, size), n, size)
      BY <3>2, StartsAccumulate
    <3>4. Accumulates(Starts(m, size), m, size)
      BY <3>1, <3>2, StartsAccumulate
    <3>5. Starts(n, size)[m] = Starts(m, size)[m]
      BY <3>1, <3>3, <3>4, AccumulationsAgree
    <3> QED
      BY <2>5, <3>1, <3>5 DEF DoubleAt
  <2>8. LengthsCached(h)'
    BY <2>1, <2>2, <2>3, <2>6, <2>7 DEF LengthsCached
  <2>9. HeaderLoaded(h)'
    BY <1>1, <1>3, <2>1, StillLoaded
  <2>10. HandleInv(h)'
    BY <2>1, <2>4, <2>8, <2>9 DEF HandleInv, Stages
  <2> QED
    BY <1>1, <2>1, <2>10, HandleStep
<1> QED
  BY <1>2, <1>4, <1>5

-----------------------------------------------------------------------------
(* Revising the cached header. *)

(* A handle that revises its header without touching the tracks, and the   *)
(* header on disk with it or not, has cached the right things still.       *)
LEMMA HeaderRevised ==
  ASSUME WithVectors, TypeOK, NEW h \in Handles, UNCHANGED <<file, tables>>,
         HeaderLoaded(h), KeysCached(h), LengthsCached(h),
         keys'[h] = keys[h], keymap'[h] = keymap[h],
         lengths'[h] = lengths[h], offsets'[h] = offsets[h],
         hdr'[h] \in Headers, SameTracks(hdr'[h], hdr[h]),
         "l2norm" \in hdr'[h].flags => NormsFor(hdr[h]),
         Includes(hdr'[h], header'),
         "sync" \notin Faults =>
           /\ hdr'[h].numFiles = header'.numFiles
           /\ hdr'[h].flags \subseteq header'.flags \cup {"times"}
  PROVE  HeaderLoaded(h)' /\ KeysCached(h)' /\ LengthsCached(h)'
<1> USE TypeSplit
<1>1. PICK G \in Headers : G = hdr[h]
  BY DEF HandleTypeOK
<1>2. PICK K \in Headers : K = hdr'[h]
  OBVIOUS
<1>3. Sound(G) /\ SameTracks(K, G) /\ DiskTypeOK
  BY <1>1, <1>2 DEF HeaderLoaded
<1>4. Sound(K) /\ ("l2norm" \in K.flags => NormsFor(K))
  BY <1>1, <1>2, <1>3, SameTracksSound
<1>5. Sound(K)' /\ Normed(K)'
  BY <1>4, TablesSame DEF Normed
<1>6. HeaderLoaded(h)'
  BY <1>2, <1>5 DEF HeaderLoaded
<1>7. UNCHANGED <<keyTable, trackTable>>
  BY DEF tables
<1>8. KeysCached(h)'
  BY <1>1, <1>2, <1>3, <1>7 DEF KeysCached, SameTracks
<1>9. LengthsCached(h)'
  <2>1. G.numFiles = K.numFiles /\ G.numFiles \in Nat
    BY <1>3, HeaderType DEF SameTracks
  <2>2. lengths'[h] = [i \in 1 .. K.numFiles |-> trackTable'[i - 1]]
    BY <1>1, <1>7, <2>1 DEF LengthsCached
  <2>3. \A i \in 1 .. G.numFiles : K.dim = G.dim
    BY <1>3, <2>1 DEF SameTracks
  <2>4. offsets'[h] = [i \in 1 .. K.numFiles |-> DoubleAt(trackTable', K.dim, i - 1)]
    BY <1>1, <1>7, <2>1, <2>3 DEF LengthsCached
  <2> QED
    BY <1>2, <2>2, <2>4 DEF LengthsCached
<1> QED
  BY <1>6, <1>8, <1>9

(* Steps 1 to 5 of audiodb_insert_datum. *)
LEMMA CheckStep ==
  ASSUME WithVectors, TypeOK, ContentInv, NEW h \in Handles, NEW d \in Datums,
         RefuseInsert(h, d) \/ BeginInsert(h, d)
  PROVE  ContentInv'
<1> USE TypeSplit
<1>1. UNCHANGED <<disk, acked>> /\ \A g \in Handles \ {h} : Same(g)
  BY DEF RefuseInsert, BeginInsert, Goto, Same, HandleTypeOK, caches
<1>2. UNCHANGED <<file, header, tables, keyTable, trackTable>>
  BY <1>1 DEF disk, tables
<1>3. /\ pc[h] = "open" /\ mode[h] = "write" /\ mode'[h] = "write"
      /\ EnoughSpace(h, d) /\ DimAgrees(h, d)
      /\ keys'[h] = keys[h] /\ keymap'[h] = keymap[h]
      /\ lengths'[h] = lengths[h] /\ offsets'[h] = offsets[h]
  BY DEF RefuseInsert, BeginInsert, Writable, Idle, HandleTypeOK, caches
<1>4. HeaderLoaded(h) /\ KeysCached(h) /\ LengthsCached(h)
  BY <1>3 DEF ContentInv, HandleInv, Loaded, Keyed, Filled
<1>5. PICK G \in Headers : G = hdr[h]
  BY DEF HandleTypeOK
<1>6. PICK H \in Headers : H = header
  BY DEF DiskTypeOK
<1>7. /\ Sound(G) /\ Includes(G, H) /\ G.dim \in {0, d.dim}
      /\ G.numFiles > 0 => G.dim > 0
      /\ G.numFiles < MaxTracks /\ G.length + d.n * d.dim < DataSpace
      /\ H.numFiles \in Nat /\ G.numFiles \in Nat
  BY <1>3, <1>4, <1>5, <1>6, LengthCounts, HeaderType DEF HeaderLoaded, DimAgrees, EnoughSpace
<1>8. d.dim \in Nat /\ d.dim > 0 /\ d.times \in BOOLEAN
  BY DatumType
<1>9. ASSUME NEW added \in SUBSET {"times"},
             hdr' = [hdr EXCEPT ![h].dim = d.dim, ![h].flags = @ \cup added],
             added # {} => G.numFiles = 0 \/ "times" \in G.flags
      PROVE  /\ HeaderLoaded(h)' /\ KeysCached(h)' /\ LengthsCached(h)'
             /\ hdr'[h].numFiles = G.numFiles /\ hdr'[h].length = G.length
             /\ hdr'[h].dim = d.dim /\ hdr'[h].flags = G.flags \cup added
  <2>1. PICK K : K = [G EXCEPT !.dim = d.dim, !.flags = @ \cup added]
    OBVIOUS
  <2>2. hdr'[h] = K
    BY <1>5, <1>9, <2>1 DEF HandleTypeOK
  <2>3. /\ K \in Headers
        /\ K.numFiles = G.numFiles /\ K.length = G.length /\ K.dim = d.dim
        /\ K.flags = G.flags \cup added
    BY <1>8, <2>1 DEF Headers, Flags
  <2>4. SameTracks(K, G)
    BY <1>7, <1>9, <2>3 DEF SameTracks
  <2>5. Includes(K, H)
    BY <1>7, <1>9, <2>3 DEF Includes
  <2>6. "l2norm" \in K.flags => NormsFor(G)
    BY <1>4, <1>5, <2>3 DEF HeaderLoaded, Normed
  <2>7. "sync" \notin Faults =>
          K.numFiles = H.numFiles /\ K.flags \subseteq H.flags \cup {"times"}
    BY <1>4, <1>5, <1>6, <2>3 DEF HeaderLoaded
  <2>8. HeaderLoaded(h)' /\ KeysCached(h)' /\ LengthsCached(h)'
    BY <1>2, <1>3, <1>4, <1>5, <1>6, <2>2, <2>3, <2>4, <2>5, <2>6, <2>7, HeaderRevised
  <2> QED
    BY <2>2, <2>3, <2>8
<1>10. CASE RefuseInsert(h, d)
  <2>0. PICK added \in SUBSET {"times"} : added = {}
    OBVIOUS
  <2>1. hdr' = [hdr EXCEPT ![h].dim = d.dim, ![h].flags = @ \cup added] /\ pc'[h] = "open"
    <3>1. PICK hd \in [Handles -> Headers] : hd = hdr
      BY DEF HandleTypeOK
    <3>2. hdr' = [hd EXCEPT ![h].dim = d.dim] /\ pc'[h] = "open"
      BY <1>3, <1>10, <3>1 DEF RefuseInsert
    <3>3. hd[h].flags \cup {} = hd[h].flags /\ hd[h] \in Headers
      OBVIOUS
    <3>4. [hd EXCEPT ![h].dim = d.dim, ![h].flags = @ \cup {}] = [hd EXCEPT ![h].dim = d.dim]
      BY <3>3 DEF Headers
    <3> QED
      BY ONLY <2>0, <3>1, <3>2, <3>4
  <2>2. HeaderLoaded(h)' /\ KeysCached(h)' /\ LengthsCached(h)'
    BY <1>9, <2>0, <2>1
  <2>3. HandleInv(h)'
    BY <2>1, <2>2 DEF HandleInv, Stages
  <2> QED
    BY <1>1, <2>1, <2>3, HandleStep
<1>11. CASE BeginInsert(h, d)
  <2>1. PICK added \in SUBSET {"times"} : added = IF d.times THEN {"times"} ELSE {}
    OBVIOUS
  <2>2. /\ hdr' = [hdr EXCEPT ![h].dim = d.dim, ![h].flags = @ \cup added]
        /\ pc'[h] = "key" /\ datum'[h] = d /\ Admissible(h, d)
    BY <1>11, <2>1 DEF BeginInsert, Goto, HandleTypeOK
  <2>3. /\ d.power <=> "power" \in G.flags
        /\ (d.times <=> "times" \in G.flags) \/ (d.times /\ G.numFiles = 0)
        /\ keymap[h][d.key] = NotFound
    BY <1>5, <2>2 DEF Admissible, PowerAgrees, TimesAgrees
  <2>4. added # {} => G.numFiles = 0 \/ "times" \in G.flags
    BY <2>1, <2>3
  <2>5. /\ HeaderLoaded(h)' /\ KeysCached(h)' /\ LengthsCached(h)'
        /\ hdr'[h].numFiles = G.numFiles /\ hdr'[h].length = G.length
        /\ hdr'[h].dim = d.dim /\ hdr'[h].flags = G.flags \cup added
    BY <1>9, <2>2, <2>4
  <2>6. InsertUnderWay(h)'
    BY <1>3, <1>7, <2>1, <2>2, <2>3, <2>5 DEF InsertUnderWay
  <2>7. HandleInv(h)'
    BY <1>3, <2>2, <2>5, <2>6 DEF HandleInv
  <2> QED
    BY <1>1, <2>2, <2>7, HandleStep
<1> QED
  BY <1>10, <1>11

-----------------------------------------------------------------------------
(* The writes of an insert and of audiodb_l2norm. *)

(* While one handle writes, the others are not open. *)
LEMMA OthersUnopened ==
  ASSUME WriterExclusion, ContentInv, NEW h \in Handles, Holding(h), mode[h] = "write",
         UNCHANGED file, NEW g \in Handles \ {h}, pc'[g] = pc[g]
  PROVE  HandleInv(g)'
<1>1. pc[g] \in {"closed", "create", "lock"}
  BY DEF WriterExclusion, Holding
<1>2. pc[g] = "create" => file = "empty"
  BY DEF ContentInv, HandleInv
<1> QED
  BY <1>1, <1>2 DEF HandleInv, Loaded, Keyed, Filled, Stages

(* A write beyond what the handle's header counts, and of norms only while *)
(* that header has none, leaves everything true that is on disk or cached. *)
LEMMA TableStep ==
  ASSUME WithVectors, TypeOK, TypeOK', WriterExclusion, ContentInv, NEW h \in Handles,
         Filled(h), mode[h] = "write", UNCHANGED <<file, header, mode, hdr, caches, acked>>,
         \A g \in Handles \ {h} : pc'[g] = pc[g],
         pc'[h] \in Stages \cup {"open", "l2norm"},
         Kept(hdr[h]),
         "l2norm" \in hdr[h].flags =>
           \A v \in 0 .. VectorAt(trackTable, hdr[h].numFiles) - 1 :
             l2normTable'[v] = l2normTable[v],
         /\ pc'[h] \in Stages => InsertUnderWay(h)'
         /\ pc'[h] = "l2norm" => hdr[h].numFiles > 0 /\ NormsFor(hdr[h])'
  PROVE  ContentInv'
<1> USE TypeSplit
<1>1. PICK G \in Headers : G = hdr[h] /\ G = hdr'[h]
  BY DEF HandleTypeOK
<1>2. PICK H \in Headers : H = header /\ H = header'
  BY DEF DiskTypeOK
<1>3. HeaderLoaded(h) /\ KeysCached(h) /\ LengthsCached(h) /\ Sound(header) /\ Normed(header)
  BY DEF ContentInv, HandleInv, DiskInv, Keyed, Filled
<1>4. Sound(G) /\ Normed(G) /\ Sound(H) /\ Normed(H) /\ Includes(G, H) /\ Includes(G, G)
      /\ Kept(G) /\ file = "ready"
  BY <1>1, <1>2, <1>3, IncludesItself DEF HeaderLoaded
<1>5. DiskTypeOK /\ DiskTypeOK'
  BY DEF TypeOK, DiskTypeOK
<1>6. Sound(G)' /\ Sound(H)'
  BY <1>4, <1>5, SoundKept
<1>7. Normed(G)' /\ Normed(H)'
  <2>1. "l2norm" \in G.flags => NormsFor(G)'
    BY <1>1, <1>4, <1>5, NormsKept DEF Normed
  <2>2. "l2norm" \in H.flags => "l2norm" \in G.flags /\ NormsFor(H)'
    BY <1>1, <1>4, <1>5, NormsKept DEF Normed, Includes
  <2> QED
    BY <2>1, <2>2 DEF Normed
<1>8. \A d \in acked : \E s \in 0 .. H.numFiles - 1 : StoredUnder(H, s, d)'
  <2>1. acked \subseteq Datums
    OBVIOUS
  <2>2. \A d \in acked : \E s \in 0 .. H.numFiles - 1 : StoredUnder(H, s, d)
    BY <1>2 DEF ContentInv, DiskInv
  <2> QED
    BY <1>4, <1>5, <2>1, <2>2, StoredKept
<1>9. DiskInv'
  <2>1. \A g \in Handles : pc'[g] = "create" => pc[g] = "create"
    BY DEF Stages
  <2> QED
    BY <1>2, <1>4, <1>6, <1>7, <1>8, <2>1 DEF DiskInv, ContentInv
<1>10. HeaderLoaded(h)'
  BY <1>1, <1>2, <1>3, <1>4, <1>6, <1>7 DEF HeaderLoaded
<1>11. G.numFiles \in Nat /\ \A s \in 0 .. G.numFiles - 1 :
         keyTable'[s] = keyTable[s] /\ trackTable'[s] = trackTable[s]
  BY <1>4, HeaderType DEF Kept
<1>12. KeysCached(h)'
  <2>1. \A i \in 1 .. G.numFiles : keyTable'[i - 1] = keyTable[i - 1]
    BY <1>11
  <2>2. keys'[h] = [i \in 1 .. G.numFiles |-> keyTable'[i - 1]]
    BY <1>1, <1>3, <2>1 DEF KeysCached, caches
  <2>3. /\ \A k \in Keys : keymap'[h][k] # NotFound =>
             keymap'[h][k] \in 0 .. G.numFiles - 1 /\ keyTable'[keymap'[h][k]] = k
        /\ \A s \in 0 .. G.numFiles - 1 : keymap'[h][keyTable'[s]] # NotFound
    BY <1>1, <1>3, <1>11 DEF KeysCached, caches
  <2> QED
    BY <1>1, <2>2, <2>3 DEF KeysCached
<1>13. LengthsCached(h)'
  <2>1. \A i \in 1 .. G.numFiles : trackTable'[i - 1] = trackTable[i - 1]
    BY <1>11
  <2>2. \A i \in 1 .. G.numFiles :
          DoubleAt(trackTable', G.dim, i - 1) = DoubleAt(trackTable, G.dim, i - 1)
    BY <1>4, <1>5, <1>11, SoundKept
  <2>3. lengths'[h] = [i \in 1 .. G.numFiles |-> trackTable'[i - 1]]
    BY <1>1, <1>3, <2>1 DEF LengthsCached, caches
  <2>4. offsets'[h] = [i \in 1 .. G.numFiles |-> DoubleAt(trackTable', G.dim, i - 1)]
    BY <1>1, <1>3, <2>2 DEF LengthsCached, caches
  <2> QED
    BY <1>1, <2>3, <2>4 DEF LengthsCached
<1>14. HandleInv(h)'
  BY <1>1, <1>10, <1>12, <1>13 DEF HandleInv, Stages
<1>15. ASSUME NEW g \in Handles \ {h}
       PROVE  HandleInv(g)'
  BY OthersUnopened DEF Filled, Keyed, Loaded, Holding
<1> QED
  BY <1>9, <1>14, <1>15 DEF ContentInv

(* Table `new' is table `old' up to `at', and has the n cells of `block' there. *)
Placed(old, new, at, block, n) ==
  /\ \A i \in 0 .. at - 1 : new[i] = old[i]
  /\ \A j \in 0 .. n - 1 : new[at + j] = block[j]

(* A write changes only the cells its block covers. *)
LEMMA WrittenAt ==
  ASSUME NEW table, NEW at \in Nat, NEW n \in Nat, NEW block,
         DOMAIN block = 0 .. n - 1, DOMAIN table = Cells, at + n <= DataSpace
  PROVE  Placed(table, Written(table, at, block), at, block, n)
<1>1. ASSUME NEW i \in 0 .. at - 1
      PROVE  Written(table, at, block)[i] = table[i]
  <2>1. i \in DOMAIN table /\ i - at \notin DOMAIN block
    BY CapacityNat DEF Cells
  <2> QED
    BY <2>1 DEF Written
<1>2. ASSUME NEW j \in 0 .. n - 1
      PROVE  Written(table, at, block)[at + j] = block[j]
  <2>1. at + j \in DOMAIN table /\ (at + j) - at = j
    BY CapacityNat DEF Cells
  <2> QED
    BY <2>1 DEF Written
<1> QED
  BY <1>1, <1>2 DEF Placed

LEMMA Times1 ==
  ASSUME NEW a \in Nat, NEW m \in Nat, m > 0
  PROVE  a <= a * m
<1>1. m - 1 \in Nat /\ (m - 1) + 1 = m
  OBVIOUS
<1>2. ((m - 1) + 1) * a = (m - 1) * a + 1 * a /\ (m - 1) * a \in Nat
  BY <1>1, ProductDistributes
<1>3. m * a = a * m /\ 1 * a = a
  OBVIOUS
<1> QED
  BY <1>1, <1>2, <1>3

(* Where the insert in progress on h writes. *)
LEMMA InsertExtent ==
  ASSUME WithVectors, TypeOK, NEW h \in Handles, HeaderLoaded(h), InsertUnderWay(h)
  PROVE  LET d == datum[h]
             n == hdr[h].numFiles
             first == VectorAt(trackTable, n)
         IN  /\ d \in Datums /\ d.n \in Nat /\ d.dim \in Nat /\ d.dim > 0
             /\ n \in Slots /\ n \in Nat
             /\ first \in Nat /\ d.n * d.dim \in Nat
             /\ hdr[h].length \in Nat
             /\ hdr[h].length = first * d.dim
             /\ FirstVector(h) = first
             /\ hdr[h].length + d.n * d.dim < DataSpace
             /\ first + d.n <= DataSpace
             /\ first <= hdr[h].length
<1> USE TypeSplit
<1>1. PICK G \in Headers : G = hdr[h] /\ Sound(G)
  BY DEF HandleTypeOK, HeaderLoaded
<1>2. PICK d \in Datums : d = datum[h] /\ d.dim = G.dim
  BY <1>1 DEF InsertUnderWay
<1>3. d.n \in Nat /\ d.dim \in Nat /\ d.dim > 0
  BY DatumType
<1>4. PICK first \in Nat : first = VectorAt(trackTable, G.numFiles) /\ G.length = first * d.dim
  BY <1>1, <1>2, LengthCounts
<1>5. FirstVector(h) = first
  BY <1>1, <1>2, <1>3, <1>4, QuotientOfProduct DEF FirstVector
<1>6. G.numFiles \in Slots /\ G.numFiles \in Nat /\ G.length \in Nat
  BY <1>1, HeaderType, CapacityNat DEF InsertUnderWay, Slots
<1>7. PICK size \in Nat : size = d.n * d.dim /\ G.length + size < DataSpace
  BY <1>1, <1>2, <1>3, ProductDistributes DEF InsertUnderWay
<1>8. first + d.n <= G.length + size /\ first <= G.length
  <2>1. (first + d.n) * d.dim = first * d.dim + d.n * d.dim
    BY <1>3, ProductDistributes
  <2>2. first + d.n \in Nat /\ first + d.n <= (first + d.n) * d.dim /\ first <= first * d.dim
    BY <1>3, Times1
  <2> QED
    BY <1>4, <1>7, <2>1, <2>2
<1>9. first + d.n <= DataSpace
  BY <1>3, <1>6, <1>7, <1>8, CapacityNat
<1> QED
  BY <1>1, <1>2, <1>3, <1>4, <1>5, <1>6, <1>7, <1>8, <1>9

(* The key and the length go into the first slot no track uses. *)
LEMMA SlotWriteStep ==
  ASSUME WithVectors, TypeOK, TypeOK', WriterExclusion, ContentInv, NEW h \in Handles,
         WriteKey(h) \/ WriteLength(h)
  PROVE  ContentInv'
<1> USE TypeSplit
<1>1. /\ pc[h] \in {"key", "length"} /\ mode[h] = "write" /\ Filled(h)
      /\ HeaderLoaded(h) /\ InsertUnderWay(h)
  BY DEF WriteKey, WriteLength, ContentInv, HandleInv, Loaded, Keyed, Filled, Stages
<1>2. /\ UNCHANGED <<file, header, mode, hdr, caches, acked, datum,
                     dataTable, powerTable, timesTable, l2normTable>>
      /\ \A g \in Handles \ {h} : pc'[g] = pc[g]
      /\ pc'[h] \in {"length", "data"}
  BY DEF WriteKey, WriteLength, Goto, HandleTypeOK
<1>3. PICK n \in Nat : n = hdr[h].numFiles /\ n \in Slots
  BY <1>1, InsertExtent
<1>4. \A s \in 0 .. n - 1 : s # n /\ s \in Slots
  BY <1>3, CapacityNat DEF Slots
<1>5. /\ keyTable' \in [Slots -> KeyEntries] /\ keyTable \in [Slots -> KeyEntries]
      /\ trackTable' \in [Slots -> Nat] /\ trackTable \in [Slots -> Nat]
  BY DEF DiskTypeOK, TypeOK
<1>6. \A s \in 0 .. n - 1 : keyTable'[s] = keyTable[s] /\ trackTable'[s] = trackTable[s]
  BY <1>3, <1>4, <1>5 DEF WriteKey, WriteLength
<1>7. Kept(hdr[h])
  BY <1>2, <1>3, <1>6 DEF Kept
<1>8. VectorAt(trackTable', n) = VectorAt(trackTable, n)
  <2>1. n \in 0 .. MaxTracks
    BY <1>3, CapacityNat DEF Slots
  <2> QED
    BY <1>5, <1>6, <2>1, VectorAtLocal
<1>9. /\ keyTable'[n] = datum[h].key
      /\ pc'[h] = "data" => trackTable'[n] = datum[h].n
  BY <1>1, <1>2, <1>3, <1>5 DEF WriteKey, WriteLength, Goto, HandleTypeOK, InsertUnderWay
<1>10. InsertUnderWay(h)'
  BY <1>1, <1>2, <1>3, <1>8, <1>9 DEF InsertUnderWay, caches
<1> QED
  BY <1>1, <1>2, <1>7, <1>10, TableStep DEF Stages

(* The blocks go where the cached header says, beyond what it counts. *)
LEMMA BlockWriteStep ==
  ASSUME WithVectors, TypeOK, TypeOK', WriterExclusion, ContentInv, NEW h \in Handles,
         WriteData(h) \/ WritePower(h) \/ WriteTimes(h) \/ WriteNorms(h)
  PROVE  ContentInv'
<1> USE TypeSplit
<1>1. /\ pc[h] \in {"data", "power", "times", "norms"} /\ mode[h] = "write" /\ Filled(h)
      /\ HeaderLoaded(h) /\ InsertUnderWay(h)
  BY DEF WriteData, WritePower, WriteTimes, WriteNorms, ContentInv, HandleInv, Loaded, Keyed,
         Filled, Stages
<1>2. /\ UNCHANGED <<file, header, mode, hdr, caches, acked, datum, keyTable, trackTable>>
      /\ \A g \in Handles \ {h} : pc'[g] = pc[g]
      /\ pc'[h] \in {"power", "times", "norms", "commit"}
  BY DEF WriteData, WritePower, WriteTimes, WriteNorms, Goto, HandleTypeOK, AfterData
<1>3. PICK d \in Datums : d = datum[h]
  BY <1>1, InsertExtent
<1>4. PICK start \in Nat : start = hdr[h].length
  BY <1>1, InsertExtent
<1>5. PICK first \in Nat : first = VectorAt(trackTable, hdr[h].numFiles)
  BY <1>1, InsertExtent
<1>6. PICK size \in Nat : size = d.n * d.dim
  BY <1>1, <1>3, InsertExtent
<1>7. /\ d.n \in Nat /\ d.dim \in Nat /\ d.dim > 0
      /\ start = first * d.dim /\ FirstVector(h) = first
      /\ start + size < DataSpace /\ first + d.n <= DataSpace /\ first <= start
  BY <1>1, <1>3, <1>4, <1>5, <1>6, InsertExtent
<1>8. /\ DOMAIN dataTable = Cells /\ DOMAIN powerTable = Cells
      /\ DOMAIN timesTable = Cells /\ DOMAIN l2normTable = Cells
  BY DEF DiskTypeOK
<1>9. PICK m \in Nat : m = d.n /\ first + m <= DataSpace /\ start + size <= DataSpace
  BY <1>7, CapacityNat
<1>11. CASE WriteData(h)
  <2>1. /\ dataTable' = Written(dataTable, start, DataBlock(d))
        /\ UNCHANGED <<powerTable, timesTable, l2normTable>>
        /\ pc[h] = "data" /\ pc'[h] = AfterData(h, "data")
    BY <1>3, <1>4, <1>11 DEF WriteData, Goto, HandleTypeOK
  <2>2. DOMAIN DataBlock(d) = 0 .. size - 1 /\ \A j \in 0 .. size - 1 : DataBlock(d)[j] = Value(d, j)
    BY <1>6 DEF DataBlock
  <2>0. PICK block : block = DataBlock(d)
    OBVIOUS
  <2>3. /\ \A i \in 0 .. start - 1 : dataTable'[i] = dataTable[i]
        /\ \A j \in 0 .. size - 1 : dataTable'[start + j] = block[j]
    <3>1. Placed(dataTable, dataTable', start, block, size)
      BY <1>8, <1>9, <2>0, <2>1, <2>2, WrittenAt
    <3> QED
      BY <3>1 DEF Placed
  <2>4. \A j \in 0 .. size - 1 : dataTable'[start + j] = Value(d, j)
    BY <2>0, <2>2, <2>3
  <2>5. Kept(hdr[h])
    BY <1>2, <1>4, <2>1, <2>3 DEF Kept
  <2>6. /\ pc'[h] = "times" => ~d.power
        /\ pc'[h] = "norms" => ~d.power /\ ~d.times
        /\ pc'[h] = "commit" => ~d.power /\ ~d.times /\ "l2norm" \notin hdr[h].flags
    BY <1>3, <2>1 DEF AfterData
  <2>7. InsertUnderWay(h)'
    BY <1>1, <1>2, <1>3, <1>4, <1>6, <2>1, <2>4, <2>6 DEF InsertUnderWay, caches
  <2> QED
    BY <1>1, <1>2, <2>1, <2>5, <2>7, TableStep DEF Stages
<1>12. CASE WritePower(h)
  <2>1. /\ powerTable' = Written(powerTable, first, VectorBlock(d))
        /\ UNCHANGED <<dataTable, timesTable, l2normTable>>
        /\ pc[h] = "power" /\ pc'[h] = AfterData(h, "power")
    BY <1>3, <1>7, <1>12 DEF WritePower, Goto, HandleTypeOK
  <2>2. DOMAIN VectorBlock(d) = 0 .. d.n - 1 /\ \A v \in 0 .. d.n - 1 : VectorBlock(d)[v] = Value(d, v)
    BY DEF VectorBlock
  <2>0. PICK block : block = VectorBlock(d)
    OBVIOUS
  <2>3. /\ \A v \in 0 .. first - 1 : powerTable'[v] = powerTable[v]
        /\ \A v \in 0 .. d.n - 1 : powerTable'[first + v] = Value(d, v)
    <3>0. DOMAIN block = 0 .. m - 1
      BY <1>9, <2>0, <2>2
    <3>1. Placed(powerTable, powerTable', first, block, m)
      BY <1>8, <1>9, <2>0, <2>1, <3>0, WrittenAt
    <3> QED
      BY <1>9, <2>0, <2>2, <3>1 DEF Placed
  <2>4. Kept(hdr[h])
    BY <1>2, <1>5, <2>1, <2>3 DEF Kept
  <2>5. /\ pc'[h] # "power"
        /\ pc'[h] = "norms" => ~d.times
        /\ pc'[h] = "commit" => ~d.times /\ "l2norm" \notin hdr[h].flags
    BY <1>3, <2>1 DEF AfterData
  <2>6. InsertUnderWay(h)'
    BY <1>1, <1>2, <1>3, <1>5, <2>1, <2>3, <2>5 DEF InsertUnderWay, caches
  <2> QED
    BY <1>1, <1>2, <2>1, <2>4, <2>6, TableStep DEF Stages
<1>13. CASE WriteTimes(h)
  <2>1. /\ timesTable' = Written(timesTable, first, VectorBlock(d))
        /\ UNCHANGED <<dataTable, powerTable, l2normTable>>
        /\ pc[h] = "times" /\ pc'[h] = AfterData(h, "times")
    BY <1>3, <1>7, <1>13 DEF WriteTimes, Goto, HandleTypeOK
  <2>2. DOMAIN VectorBlock(d) = 0 .. d.n - 1 /\ \A v \in 0 .. d.n - 1 : VectorBlock(d)[v] = Value(d, v)
    BY DEF VectorBlock
  <2>0. PICK block : block = VectorBlock(d)
    OBVIOUS
  <2>3. /\ \A v \in 0 .. first - 1 : timesTable'[v] = timesTable[v]
        /\ \A v \in 0 .. d.n - 1 : timesTable'[first + v] = Value(d, v)
    <3>0. DOMAIN block = 0 .. m - 1
      BY <1>9, <2>0, <2>2
    <3>1. Placed(timesTable, timesTable', first, block, m)
      BY <1>8, <1>9, <2>0, <2>1, <3>0, WrittenAt
    <3> QED
      BY <1>9, <2>0, <2>2, <3>1 DEF Placed
  <2>4. Kept(hdr[h])
    BY <1>2, <1>5, <2>1, <2>3 DEF Kept
  <2>5. /\ pc'[h] \in {"norms", "commit"}
        /\ pc'[h] = "commit" => "l2norm" \notin hdr[h].flags
    BY <1>3, <2>1 DEF AfterData
  <2>6. InsertUnderWay(h)'
    BY <1>1, <1>2, <1>3, <1>5, <2>1, <2>3, <2>5 DEF InsertUnderWay, caches
  <2> QED
    BY <1>1, <1>2, <2>1, <2>4, <2>6, TableStep DEF Stages
<1>14. CASE WriteNorms(h)
  <2>1. PICK block : block = NormBlock(DataBlock(d), d.dim, d.n)
    OBVIOUS
  <2>2. /\ l2normTable' = Written(l2normTable, first, block)
        /\ UNCHANGED <<dataTable, powerTable, timesTable>>
        /\ pc[h] = "norms" /\ pc'[h] = "commit"
    BY <1>3, <1>7, <1>14, <2>1 DEF WriteNorms, Goto, HandleTypeOK, AfterData
  <2>3. DOMAIN block = 0 .. d.n - 1
    BY <2>1 DEF NormBlock
  <2>4. /\ \A v \in 0 .. first - 1 : l2normTable'[v] = l2normTable[v]
        /\ \A v \in 0 .. d.n - 1 : l2normTable'[first + v] = block[v]
    <3>0. DOMAIN block = 0 .. m - 1
      BY <1>9, <2>3
    <3>1. Placed(l2normTable, l2normTable', first, block, m)
      BY <1>8, <1>9, <2>2, <3>0, WrittenAt
    <3> QED
      BY <1>9, <3>1 DEF Placed
  <2>5. ASSUME NEW v \in 0 .. d.n - 1
        PROVE  block[v] = NormOf(dataTable', d.dim, first + v)
    <3>1. ASSUME NEW j \in 1 .. d.dim
          PROVE  DataBlock(d)[v * d.dim + j - 1] = dataTable[(first + v) * d.dim + j - 1]
      <4>1. v * d.dim \in Nat /\ v * d.dim + j - 1 \in 0 .. d.n * d.dim - 1
        BY <1>7, VectorExtent
      <4>2. PICK x \in Nat : x = v * d.dim
        BY <4>1
      <4>3. (first + v) * d.dim = start + x
        BY <1>7, <4>2, ProductDistributes
      <4>4. x + j - 1 \in 0 .. size - 1
        BY <1>6, <4>1, <4>2
      <4>5. dataTable[start + (x + j - 1)] = Value(d, x + j - 1)
        BY <1>1, <1>3, <1>4, <1>6, <2>2, <4>4 DEF InsertUnderWay
      <4>6. start + (x + j - 1) = (start + x) + j - 1
        BY <4>4
      <4>7. DataBlock(d)[x + j - 1] = Value(d, x + j - 1)
        BY <1>6, <4>4 DEF DataBlock
      <4> QED
        BY <4>2, <4>3, <4>5, <4>6, <4>7
    <3>2. block[v] = [j \in 1 .. d.dim |-> DataBlock(d)[v * d.dim + j - 1]]
      BY <2>1 DEF NormBlock
    <3> QED
      BY <2>2, <3>1, <3>2 DEF NormOf
  <2>6. ASSUME NEW v \in first .. first + d.n - 1
        PROVE  l2normTable'[v] = NormOf(dataTable', d.dim, v)
    <3>1. v - first \in 0 .. d.n - 1 /\ first + (v - first) = v
      BY <1>7
    <3> QED
      BY <2>4, <2>5, <3>1
  <2>7. Kept(hdr[h])
    BY <1>2, <2>2 DEF Kept
  <2>8. InsertUnderWay(h)'
    BY <1>1, <1>2, <1>3, <1>5, <2>2, <2>6 DEF InsertUnderWay, caches
  <2> QED
    BY <1>1, <1>2, <1>5, <2>2, <2>4, <2>7, <2>8, TableStep DEF Stages
<1> QED
  BY <1>11, <1>12, <1>13, <1>14

(* A write that fails leaves no more than a piece of the block behind. *)
LEMMA FailedWriteStep ==
  ASSUME WithVectors, TypeOK, TypeOK', WriterExclusion, ContentInv, NEW h \in Handles,
         WriteFails(h)
  PROVE  ContentInv'
<1> USE TypeSplit
<1>1. mode[h] = "write" /\ Filled(h) /\ HeaderLoaded(h) /\ InsertUnderWay(h)
  BY DEF WriteFails, ContentInv, HandleInv, Loaded, Keyed, Filled, Stages
<1>2. /\ UNCHANGED <<file, header, mode, hdr, caches, acked, keyTable, trackTable,
                     powerTable, timesTable, l2normTable>>
      /\ \A g \in Handles \ {h} : pc'[g] = pc[g]
      /\ pc'[h] = "open"
  BY DEF WriteFails, Goto, HandleTypeOK
<1>3. PICK start \in Nat : start = hdr[h].length /\ start <= DataSpace
  BY <1>1, InsertExtent, CapacityNat
<1>4. PICK size \in Nat : size = datum[h].n * datum[h].dim /\ start + size < DataSpace
  BY <1>1, <1>3, InsertExtent
<1>5. \A i \in 0 .. start - 1 : dataTable'[i] = dataTable[i]
  <2>1. CASE UNCHANGED dataTable
    BY <2>1
  <2>2. ASSUME NEW m \in 1 .. size - 1,
               dataTable' = Written(dataTable, start, [j \in 0 .. m - 1 |-> Value(datum[h], j)])
        PROVE  \A i \in 0 .. start - 1 : dataTable'[i] = dataTable[i]
    <3>1. PICK block : block = [j \in 0 .. m - 1 |-> Value(datum[h], j)]
      OBVIOUS
    <3>2. DOMAIN block = 0 .. m - 1 /\ m \in Nat /\ start + m <= DataSpace
      BY <1>4, <3>1, CapacityNat
    <3>3. DOMAIN dataTable = Cells /\ dataTable' = Written(dataTable, start, block)
      BY <2>2, <3>1 DEF DiskTypeOK
    <3>4. Placed(dataTable, dataTable', start, block, m)
      BY <3>2, <3>3, WrittenAt
    <3> QED
      BY <3>4 DEF Placed
  <2> QED
    BY <1>3, <1>4, <2>1, <2>2 DEF WriteFails
<1>6. Kept(hdr[h])
  BY <1>2, <1>3, <1>5 DEF Kept
<1> QED
  BY <1>1, <1>2, <1>6, TableStep DEF Stages

(* audiodb_l2norm on a database with data: all norms first, then the flag. *)
LEMMA NormWriteStep ==
  ASSUME WithVectors, TypeOK, TypeOK', WriterExclusion, ContentInv, NEW h \in Handles,
         L2normExisting(h)
  PROVE  ContentInv'
<1> USE TypeSplit
<1>1. mode[h] = "write" /\ Filled(h) /\ pc[h] = "open" /\ HeaderLoaded(h)
  BY DEF L2normExisting, Writable, Idle, ContentInv, HandleInv, Loaded, Keyed, Filled
<1>2. /\ UNCHANGED <<file, header, mode, hdr, caches, acked, keyTable, trackTable,
                     dataTable, powerTable, timesTable>>
      /\ \A g \in Handles \ {h} : pc'[g] = pc[g]
      /\ pc'[h] \in {"open", "l2norm"}
      /\ "l2norm" \notin hdr[h].flags /\ hdr[h].length > 0
  BY <1>1 DEF L2normExisting, Goto, HandleTypeOK
<1>3. PICK G \in Headers : G = hdr[h] /\ Sound(G)
  BY <1>1 DEF HandleTypeOK, HeaderLoaded
<1>4. /\ G.numFiles > 0 /\ G.dim \in Nat /\ G.dim > 0
      /\ G.length \div G.dim = VectorAt(trackTable, G.numFiles)
  BY <1>2, <1>3, LengthCounts, HeaderType
<1>5. PICK n \in Nat : n = VectorAt(trackTable, G.numFiles)
  BY <1>3, LengthCounts
<1>6. n <= DataSpace
  BY <1>3, <1>4, <1>5, LengthCounts, Times1, CapacityNat, HeaderType
<1>7. Kept(hdr[h])
  BY <1>2 DEF Kept
<1>8. ASSUME pc'[h] = "l2norm"
      PROVE  NormsFor(hdr[h])'
  <2>1. PICK block : block = NormBlock(dataTable, G.dim, n)
    OBVIOUS
  <2>2. l2normTable' = Written(l2normTable, 0, block)
    BY <1>1, <1>3, <1>4, <1>5, <1>8, <2>1 DEF L2normExisting
  <2>3. DOMAIN block = 0 .. n - 1 /\ DOMAIN l2normTable = Cells /\ 0 \in Nat /\ 0 + n <= DataSpace
    BY <1>6, <2>1 DEF NormBlock, DiskTypeOK
  <2>4. Placed(l2normTable, l2normTable', 0, block, n)
    BY <2>2, <2>3, WrittenAt
  <2>5. \A v \in 0 .. n - 1 : l2normTable'[v] = NormOf(dataTable, G.dim, v)
    BY <2>1, <2>4 DEF Placed, NormBlock, NormOf
  <2> QED
    BY <1>2, <1>3, <1>5, <2>5 DEF NormsFor
<1> QED
  BY <1>1, <1>2, <1>3, <1>4, <1>7, <1>8, TableStep DEF Stages

-----------------------------------------------------------------------------
(* The writes of the header. *)

(* Setting the flag, with the sync failing or not. *)
LEMMA FlagStep ==
  ASSUME WithVectors, TypeOK, TypeOK', WriterExclusion, ContentInv, NEW h \in Handles,
         Power(h) \/ L2norm(h)
  PROVE  ContentInv'
<1> USE TypeSplit
<1>1. /\ pc[h] \in {"open", "l2norm"} /\ mode[h] = "write" /\ Filled(h)
      /\ HeaderLoaded(h) /\ KeysCached(h) /\ LengthsCached(h) /\ file = "ready"
  BY DEF Power, L2norm, Writable, Idle, ContentInv, HandleInv, Loaded, Keyed, Filled,
         HeaderLoaded
<1>2. /\ UNCHANGED <<file, tables, mode, caches, datum, acked>>
      /\ \A g \in Handles \ {h} : pc'[g] = pc[g]
      /\ pc'[h] = "open"
  BY DEF Power, L2norm, Writable, Idle, Goto, HandleTypeOK
<1>3. PICK G \in Headers : G = hdr[h] /\ Sound(G) /\ Normed(G)
  BY <1>1 DEF HandleTypeOK, HeaderLoaded
<1>4. PICK H \in Headers : H = header /\ Includes(G, H) /\ Sound(H) /\ Normed(H)
  BY <1>1, <1>3 DEF DiskTypeOK, HeaderLoaded, ContentInv, DiskInv
<1>5. PICK flag \in {"power", "l2norm"} :
        /\ SetFlag(h, flag)
        /\ flag = "power" => G.length = 0
        /\ flag = "l2norm" => G.length = 0 \/ NormsFor(G)
  BY <1>3 DEF Power, L2norm, ContentInv, HandleInv
<1>6. PICK K : K = [G EXCEPT !.flags = @ \cup {flag}]
  OBVIOUS
<1>7. /\ K \in Headers /\ hdr'[h] = K /\ header' \in {H, K}
      /\ "sync" \notin Faults => header' = K
      /\ K.numFiles = G.numFiles /\ K.length = G.length /\ K.dim = G.dim
      /\ K.flags = G.flags \cup {flag}
  BY <1>3, <1>4, <1>5, <1>6 DEF SetFlag, HandleTypeOK, Headers, Flags
<1>8. /\ G.length = 0 => G.numFiles = 0 /\ NormsFor(G)
      /\ G.numFiles \in Nat /\ H.numFiles \in Nat
  <2>1. G.length = 0 => G.numFiles = 0
    BY <1>3, LengthCounts, HeaderType
  <2>2. G.numFiles = 0 => NormsFor(G)
    BY <1>3, VectorAtSteps DEF NormsFor, DiskTypeOK
  <2> QED
    BY <2>1, <2>2, HeaderType
<1>9. SameTracks(K, G) /\ ("l2norm" \in K.flags => NormsFor(G))
  BY <1>3, <1>5, <1>7, <1>8 DEF SameTracks, Normed
<1>10. Includes(K, H) /\ Includes(K, K)
  <2>1. H.numFiles > 0 => flag = "l2norm"
    BY <1>4, <1>5, <1>8 DEF Includes
  <2> QED
    BY <1>4, <1>7, <2>1, IncludesItself DEF Includes
<1>11. HeaderLoaded(h)' /\ KeysCached(h)' /\ LengthsCached(h)'
  <2>1. UNCHANGED <<file, tables>> /\ keys'[h] = keys[h] /\ keymap'[h] = keymap[h]
        /\ lengths'[h] = lengths[h] /\ offsets'[h] = offsets[h]
    BY <1>2 DEF caches
  <2>2. Includes(K, header')
    BY <1>7, <1>10
  <2>3. "sync" \notin Faults =>
          K.numFiles = header'.numFiles /\ K.flags \subseteq header'.flags \cup {"times"}
    BY <1>7
  <2> QED
    BY <1>1, <1>3, <1>7, <1>9, <2>1, <2>2, <2>3, HeaderRevised
<1>12. HandleInv(h)'
  BY <1>2, <1>11 DEF HandleInv, Stages
<1>13. Sound(K) /\ (NormsFor(K) <=> NormsFor(G))
  BY <1>3, <1>7, <1>9, SameTracksSound
<1>14. \A d \in acked : \E s \in 0 .. H.numFiles - 1 : StoredUnder(H, s, d)
  BY <1>4 DEF ContentInv, DiskInv
<1>15. \A d \in acked : \E s \in 0 .. K.numFiles - 1 : StoredUnder(K, s, d)
  <2> SUFFICES ASSUME NEW d \in acked
               PROVE  \E s \in 0 .. K.numFiles - 1 : StoredUnder(K, s, d)
    OBVIOUS
  <2>1. PICK s \in 0 .. H.numFiles - 1 : StoredUnder(H, s, d)
    BY <1>14
  <2>2. /\ H.numFiles > 0 /\ d \in Datums /\ flag = "l2norm" /\ s \in 0 .. K.numFiles - 1
        /\ H.flags \subseteq G.flags /\ G.flags \subseteq H.flags \cup {"l2norm"}
    BY <1>4, <1>5, <1>7, <1>8, <2>1 DEF Includes
  <2>3. H.dim = d.dim /\ G.dim = d.dim
    BY <1>3, <1>4, <2>1, <2>2, SlotExtent
  <2>4. StoredUnder(K, s, d)
    BY <1>7, <2>1, <2>2, <2>3 DEF StoredUnder
  <2> QED
    BY <2>2, <2>4
<1>16. DiskInv'
  <2>1. PICK J \in {H, K} : J = header'
    BY <1>7
  <2>2. Sound(J) /\ Normed(J) /\ \A d \in acked : \E s \in 0 .. J.numFiles - 1 : StoredUnder(J, s, d)
    BY <1>4, <1>7, <1>9, <1>13, <1>14, <1>15 DEF Normed
  <2>3. /\ (Sound(J)' <=> Sound(J)) /\ (Normed(J)' <=> Normed(J))
        /\ \A s, d : StoredUnder(J, s, d)' <=> StoredUnder(J, s, d)
    BY <1>2, TablesSame
  <2>4. \A g \in Handles : pc'[g] = "create" => pc[g] = "create"
    BY <1>2
  <2> QED
    BY <1>1, <1>2, <2>1, <2>2, <2>3, <2>4 DEF DiskInv, ContentInv
<1>17. ASSUME NEW g \in Handles \ {h}
       PROVE  HandleInv(g)'
  BY <1>1, <1>2, OthersUnopened DEF Filled, Keyed, Loaded, Holding
<1> QED
  BY <1>12, <1>16, <1>17 DEF ContentInv

(* A sequence lists the first n entries of a table. *)
Lists(ss, f, n) == ss = [i \in 1 .. n |-> f[i - 1]]

LEMMA AppendEntry ==
  ASSUME NEW T, NEW n \in Nat, NEW ss \in Seq(T), NEW f, NEW g, NEW e \in T,
         Lists(ss, f, n), \A i \in 0 .. n - 1 : g[i] = f[i], g[n] = e
  PROVE  Lists(Append(ss, e), g, n + 1)
<1> USE DEF Lists
<1>1. Len(ss) = n
  OBVIOUS
<1>2. Append(ss, e) \in Seq(T) /\ Len(Append(ss, e)) = n + 1
  BY <1>1
<1>3. ASSUME NEW i \in 1 .. n + 1
      PROVE  Append(ss, e)[i] = g[i - 1]
  <2>1. CASE i \in 1 .. n
    BY <1>1, <2>1
  <2>2. CASE i = n + 1
    BY <1>1, <2>2
  <2> QED
    BY <2>1, <2>2
<1>4. Append(ss, e) = [i \in 1 .. n + 1 |-> Append(ss, e)[i]]
  <2>1. Append(ss, e) \in [1 .. n + 1 -> T]
    BY <1>2, LenProperties
  <2> QED
    BY <2>1
<1> QED
  BY <1>3, <1>4

(* A header with one more track, which the tables hold. *)
LEMMA OneMoreTrack ==
  ASSUME WithVectors, TypeOK, NEW h \in Handles, HeaderLoaded(h), InsertUnderWay(h),
         pc[h] = "commit",
         NEW K, K = [hdr[h] EXCEPT !.numFiles = @ + 1,
                                   !.length = @ + datum[h].n * datum[h].dim]
  PROVE  /\ K \in Headers /\ Sound(K) /\ Normed(K) /\ Includes(K, hdr[h])
         /\ K.numFiles = hdr[h].numFiles + 1 /\ K.dim = hdr[h].dim /\ K.flags = hdr[h].flags
         /\ StoredUnder(K, hdr[h].numFiles, datum[h])
         /\ \A s \in 0 .. hdr[h].numFiles - 1, e \in Datums :
              StoredUnder(hdr[h], s, e) => StoredUnder(K, s, e)
         /\ DoubleAt(trackTable, K.dim, hdr[h].numFiles) = hdr[h].length
<1> USE TypeSplit
<1>1. PICK G \in Headers : G = hdr[h] /\ Sound(G) /\ Normed(G)
  BY DEF HandleTypeOK, HeaderLoaded
<1>2. PICK d \in Datums : d = datum[h]
  BY InsertExtent
<1>3. PICK n \in Nat : n = G.numFiles /\ n \in Slots
  BY <1>1, InsertExtent
<1>4. PICK start \in Nat : start = G.length
  BY <1>1, InsertExtent
<1>5. PICK first \in Nat : first = VectorAt(trackTable, n)
  BY <1>1, <1>3, InsertExtent
<1>6. PICK size \in Nat : size = d.n * d.dim
  BY <1>2, InsertExtent
<1>7. /\ d.n \in Nat /\ d.dim \in Nat /\ d.dim > 0
      /\ start = first * d.dim
      /\ start + size < DataSpace
  BY <1>1, <1>2, <1>3, <1>4, <1>5, <1>6, InsertExtent
<1>8. /\ d.dim = G.dim
      /\ d.power <=> "power" \in G.flags
      /\ d.times <=> "times" \in G.flags
      /\ keyTable[n] = d.key /\ trackTable[n] = d.n
      /\ \A j \in 0 .. size - 1 : dataTable[start + j] = Value(d, j)
      /\ \A v \in 0 .. d.n - 1 : /\ d.power => powerTable[first + v] = Value(d, v)
                                 /\ d.times => timesTable[first + v] = Value(d, v)
      /\ "l2norm" \in G.flags =>
           \A v \in first .. first + d.n - 1 : l2normTable[v] = NormOf(dataTable, d.dim, v)
  BY <1>1, <1>2, <1>3, <1>4, <1>5, <1>6 DEF InsertUnderWay
<1>9. /\ K \in Headers
      /\ K.numFiles = n + 1 /\ K.length = start + size /\ K.dim = d.dim /\ K.flags = G.flags
  <2>1. K = [G EXCEPT !.numFiles = @ + 1, !.length = @ + size]
    BY <1>1, <1>2, <1>6
  <2>2. n + 1 \in 0 .. MaxTracks
    BY <1>3, CapacityNat DEF Slots
  <2>3. G \in Headers /\ G.numFiles = n /\ G.length = start /\ G.dim = d.dim
        /\ start + size \in Nat
    BY <1>3, <1>4, <1>8
  <2> QED
    BY ONLY <2>1, <2>2, <2>3 DEF Headers
<1>10. trackTable \in [Slots -> Nat] /\ n \in 0 .. MaxTracks /\ n + 1 \in 0 .. MaxTracks
  BY <1>3, CapacityNat DEF DiskTypeOK, Slots
<1>11. DoubleAt(trackTable, d.dim, n) = start
  BY <1>5, <1>7, <1>10, DoubleAtIsVectorAt
<1>12. VectorAt(trackTable, n + 1) = first + d.n
  BY <1>3, <1>5, <1>8, <1>10, VectorAtSteps
<1>13. DoubleAt(trackTable, d.dim, n + 1) = start + size
  <2>1. DoubleAt(trackTable, d.dim, n + 1) = (first + d.n) * d.dim
    BY <1>7, <1>10, <1>12, DoubleAtIsVectorAt
  <2>2. (first + d.n) * d.dim = first * d.dim + d.n * d.dim
    BY <1>7, ProductDistributes
  <2> QED
    BY <1>6, <1>7, <2>1, <2>2
<1>14. StoredUnder(K, n, d)
  <2>1. start \div d.dim = first
    BY <1>7, QuotientOfProduct
  <2>2. Holds(n, start, d)
    BY <1>6, <1>7, <1>8, <2>1, CapacityNat DEF Holds, DataBlock, VectorBlock
  <2> QED
    BY <1>8, <1>9, <1>11, <2>2 DEF StoredUnder
<1>15. ASSUME NEW s \in 0 .. n - 1, NEW e \in Datums, StoredUnder(G, s, e)
       PROVE  StoredUnder(K, s, e)
  BY <1>8, <1>9, <1>15 DEF StoredUnder
<1>16. Sound(K)
  <2>1. ASSUME NEW s \in 0 .. n
        PROVE  \E e \in Datums : StoredUnder(K, s, e)
    <3>1. CASE s = n
      BY <1>14, <3>1
    <3>2. CASE s \in 0 .. n - 1
      BY <1>1, <1>3, <1>15, <3>2 DEF Sound
    <3> QED
      BY <3>1, <3>2
  <2> QED
    BY <1>9, <1>13, <2>1 DEF Sound
<1>17. Normed(K)
  <2>1. PICK end \in Nat : end = first + d.n
    BY <1>7
  <2>2. VectorAt(trackTable, K.numFiles) = end /\ K.dim = d.dim /\ K.flags = G.flags
    BY <1>9, <1>12, <2>1
  <2>3. ASSUME "l2norm" \in G.flags, NEW v \in 0 .. end - 1
        PROVE  l2normTable[v] = NormOf(dataTable, d.dim, v)
    <3>1. CASE v \in 0 .. first - 1
      BY <1>1, <1>3, <1>5, <1>8, <2>3, <3>1 DEF Normed, NormsFor
    <3>2. CASE v \in first .. end - 1
      BY <1>7, <1>8, <2>1, <2>3, <3>2
    <3> QED
      BY <1>7, <3>1, <3>2
  <2> QED
    BY ONLY <2>2, <2>3 DEF Normed, NormsFor
<1>18. Includes(K, G)
  BY <1>3, <1>8, <1>9 DEF Includes
<1> QED
  BY <1>1, <1>2, <1>3, <1>4, <1>8, <1>9, <1>11, <1>14, <1>15, <1>16, <1>18, <1>17

LEMMA IncludesTransitive ==
  ASSUME NEW F \in Headers, NEW G \in Headers, NEW H \in Headers,
         Includes(F, G), Includes(G, H)
  PROVE  Includes(F, H)
<1>1. F.numFiles \in Nat /\ G.numFiles \in Nat /\ H.numFiles \in Nat
  BY HeaderType
<1> QED
  BY <1>1 DEF Includes

(* Steps 8 and 9 of audiodb_insert_datum. *)
LEMMA CommitStep ==
  ASSUME WithVectors, TypeOK, TypeOK', WriterExclusion, ContentInv, NEW h \in Handles,
         Commit(h)
  PROVE  ContentInv'
<1> USE TypeSplit
<1>1. /\ pc[h] = "commit" /\ mode[h] = "write" /\ Filled(h) /\ InsertUnderWay(h)
      /\ HeaderLoaded(h) /\ KeysCached(h) /\ LengthsCached(h) /\ file = "ready"
  BY DEF Commit, Counted, ContentInv, HandleInv, Loaded, Keyed, Filled, HeaderLoaded, Stages
<1>2. PICK G \in Headers : G = hdr[h]
  BY DEF HandleTypeOK
<1>3. PICK H \in Headers : H = header
  BY DEF DiskTypeOK
<1>4. PICK d \in Datums : d = datum[h]
  BY <1>1, InsertExtent
<1>5. PICK n \in Nat : n = G.numFiles /\ n \in Slots
  BY <1>1, <1>2, InsertExtent
<1>6. PICK K : K = [G EXCEPT !.numFiles = @ + 1, !.length = @ + d.n * d.dim]
  OBVIOUS
<1>7. /\ K \in Headers /\ Sound(K) /\ Normed(K) /\ Includes(K, G)
      /\ K.numFiles = n + 1 /\ K.dim = G.dim /\ K.flags = G.flags
      /\ StoredUnder(K, n, d)
      /\ \A s \in 0 .. n - 1, e \in Datums : StoredUnder(G, s, e) => StoredUnder(K, s, e)
      /\ DoubleAt(trackTable, K.dim, n) = G.length
  BY <1>1, <1>2, <1>4, <1>5, <1>6, OneMoreTrack
<1>8. /\ keys'[h] = Append(keys[h], d.key)
      /\ keymap'[h] = [keymap[h] EXCEPT ![d.key] = n]
      /\ lengths'[h] = Append(lengths[h], d.n)
      /\ offsets'[h] = Append(offsets[h], G.length)
      /\ hdr'[h] = K /\ pc'[h] = "open"
      /\ \A g \in Handles \ {h} : pc'[g] = pc[g]
      /\ UNCHANGED <<file, tables>>
  BY <1>2, <1>4, <1>5, <1>6 DEF Commit, Counted, Goto, HandleTypeOK
<1>9. \/ header' = K /\ acked' = acked \cup {d}
      \/ "sync" \in Faults /\ header' \in {H, K} /\ acked' = acked
  BY <1>2, <1>3, <1>4, <1>6 DEF Commit, Counted
<1>10. Includes(G, H) /\ Includes(K, H) /\ Includes(K, K)
  BY <1>1, <1>2, <1>3, <1>7, IncludesTransitive, IncludesItself DEF HeaderLoaded
<1>11. UNCHANGED <<keyTable, trackTable>>
  BY <1>8 DEF tables
<1>12. HeaderLoaded(h)'
  <2>1. Sound(K)' /\ Normed(K)'
    BY <1>7, <1>8, TablesSame
  <2>2. Includes(K, header')
    BY <1>9, <1>10
  <2>3. "sync" \notin Faults =>
          K.numFiles = header'.numFiles /\ K.flags \subseteq header'.flags \cup {"times"}
    BY <1>9
  <2> QED
    BY <1>1, <1>8, <2>1, <2>2, <2>3 DEF HeaderLoaded
<1>13. d.key \in Keys /\ d.key \in KeyEntries /\ d.n \in Nat /\ G.length \in Nat
       /\ keyTable[n] = d.key /\ trackTable[n] = d.n
  BY <1>7, DatumType, HeaderType DEF KeyEntries, StoredUnder, Holds
<1>14. KeysCached(h)'
  <2>1. keys[h] \in Seq(KeyEntries) /\ keys[h] = [i \in 1 .. n |-> keyTable[i - 1]]
    BY <1>1, <1>2, <1>5 DEF HandleTypeOK, KeysCached
  <2>2. keys'[h] = [i \in 1 .. n + 1 |-> keyTable[i - 1]]
    <3>0. PICK f : f = keyTable
      OBVIOUS
    <3>1. PICK ss \in Seq(KeyEntries) : ss = keys[h] /\ Lists(ss, f, n)
      BY <2>1, <3>0 DEF Lists
    <3>2. ss \in Seq(KeyEntries) /\ d.key \in KeyEntries /\ f[n] = d.key /\ n \in Nat
      BY <1>13, <3>0, <3>1
    <3>3. Lists(Append(ss, d.key), f, n + 1)
      BY ONLY <3>1, <3>2, AppendEntry
    <3> QED
      BY <1>8, <3>0, <3>1, <3>3 DEF Lists
  <2>3. keymap[h] \in [KeyEntries -> -1 .. MaxTracks - 1]
    BY DEF HandleTypeOK
  <2>4. /\ keymap'[h][d.key] = n
        /\ \A k \in KeyEntries : k # d.key => keymap'[h][k] = keymap[h][k]
    BY <1>8, <1>13, <2>3
  <2>5. ASSUME NEW k \in Keys, keymap'[h][k] # NotFound
        PROVE  keymap'[h][k] \in 0 .. n /\ keyTable[keymap'[h][k]] = k
    <3>1. CASE k = d.key
      BY <1>13, <2>4, <3>1
    <3>2. CASE k # d.key
      <4>1. keymap'[h][k] = keymap[h][k]
        BY <2>4, <3>2 DEF KeyEntries
      <4> QED
        BY <1>1, <1>2, <1>5, <2>5, <4>1 DEF KeysCached
    <3> QED
      BY <3>1, <3>2
  <2>6. ASSUME NEW s \in 0 .. n
        PROVE  keymap'[h][keyTable[s]] # NotFound
    <3>1. keyTable[s] \in KeyEntries
      BY <1>5, CapacityNat DEF DiskTypeOK, Slots
    <3>2. CASE keyTable[s] = d.key
      BY <2>4, <3>2 DEF NotFound
    <3>3. CASE keyTable[s] # d.key
      <4>1. s \in 0 .. n - 1
        BY <1>13, <3>3
      <4> QED
        BY <1>1, <1>2, <1>5, <2>4, <3>1, <3>3, <4>1 DEF KeysCached
    <3> QED
      BY <3>2, <3>3
  <2> QED
    BY <1>7, <1>8, <1>11, <2>2, <2>5, <2>6 DEF KeysCached
<1>15. LengthsCached(h)'
  <2>1. lengths[h] \in Seq(Nat) /\ lengths[h] = [i \in 1 .. n |-> trackTable[i - 1]]
    BY <1>1, <1>2, <1>5 DEF HandleTypeOK, LengthsCached
  <2>2. lengths'[h] = [i \in 1 .. n + 1 |-> trackTable[i - 1]]
    <3>0. PICK f : f = trackTable
      OBVIOUS
    <3>1. PICK ss \in Seq(Nat) : ss = lengths[h] /\ Lists(ss, f, n)
      BY <2>1, <3>0 DEF Lists
    <3>2. ss \in Seq(Nat) /\ d.n \in Nat /\ f[n] = d.n /\ n \in Nat
      BY <1>13, <3>0, <3>1
    <3>3. Lists(Append(ss, d.n), f, n + 1)
      BY ONLY <3>1, <3>2, AppendEntry
    <3> QED
      BY <1>8, <3>0, <3>1, <3>3 DEF Lists
  <2>3. PICK f : f = [i \in 0 .. n |-> DoubleAt(trackTable, G.dim, i)]
    OBVIOUS
  <2>4. \A i \in 1 .. n : f[i - 1] = DoubleAt(trackTable, G.dim, i - 1)
    BY <2>3
  <2>5. offsets[h] \in Seq(Nat) /\ offsets[h] = [i \in 1 .. n |-> f[i - 1]]
    BY <1>1, <1>2, <1>5, <2>4 DEF HandleTypeOK, LengthsCached
  <2>6. f[n] = G.length
    BY <1>7, <2>3
  <2>7. offsets'[h] = [i \in 1 .. n + 1 |-> f[i - 1]]
    <3>1. PICK ss \in Seq(Nat) : ss = offsets[h] /\ Lists(ss, f, n)
      BY <2>5 DEF Lists
    <3>2. ss \in Seq(Nat) /\ G.length \in Nat /\ f[n] = G.length /\ n \in Nat
      BY <1>13, <2>6
    <3>3. Lists(Append(ss, G.length), f, n + 1)
      BY ONLY <3>1, <3>2, AppendEntry
    <3> QED
      BY <1>8, <3>1, <3>3 DEF Lists
  <2>8. \A i \in 1 .. n + 1 : f[i - 1] = DoubleAt(trackTable, G.dim, i - 1)
    BY <2>3
  <2>9. offsets'[h] = [i \in 1 .. n + 1 |-> DoubleAt(trackTable, G.dim, i - 1)]
    BY <2>7, <2>8
  <2> QED
    BY <1>7, <1>8, <1>11, <2>2, <2>9 DEF LengthsCached
<1>16. HandleInv(h)'
  BY <1>8, <1>12, <1>14, <1>15 DEF HandleInv, Stages
<1>17. \A e \in acked : \E s \in 0 .. H.numFiles - 1 : StoredUnder(H, s, e)
  BY <1>3 DEF ContentInv, DiskInv
<1>18. ASSUME NEW e \in acked
       PROVE  \E s \in 0 .. n : StoredUnder(K, s, e)
  <2>1. PICK s \in 0 .. H.numFiles - 1 : StoredUnder(H, s, e)
    BY <1>17
  <2>2. /\ e \in Datums /\ H.numFiles \in Nat /\ H.numFiles > 0 /\ s \in 0 .. n
        /\ H.flags \subseteq K.flags /\ K.flags \subseteq H.flags \cup {"l2norm"}
    BY <1>5, <1>7, <1>10, <2>1, HeaderType DEF Includes
  <2>3. H.dim = e.dim /\ K.dim = e.dim
    BY <1>7, <1>10, <2>1, <2>2, SlotExtent
  <2>4. StoredUnder(K, s, e)
    BY <2>1, <2>2, <2>3 DEF StoredUnder
  <2> QED
    BY <2>2, <2>4
<1>19. DiskInv'
  <2>1. PICK J \in {H, K} : J = header'
    BY <1>9
  <2>2. Sound(J) /\ Normed(J)
    BY <1>3, <1>7 DEF ContentInv, DiskInv
  <2>3. \A e \in acked' : \E s \in 0 .. J.numFiles - 1 : StoredUnder(J, s, e)
    <3>1. CASE J = H /\ acked' = acked
      BY <1>17, <3>1
    <3>2. CASE J = K
      <4>1. n \in 0 .. n /\ (n + 1) - 1 = n
        OBVIOUS
      <4> QED
        BY <1>7, <1>9, <1>18, <3>2, <4>1
    <3> QED
      BY <1>9, <2>1, <3>1, <3>2
  <2>4. /\ (Sound(J)' <=> Sound(J)) /\ (Normed(J)' <=> Normed(J))
        /\ \A s, e : StoredUnder(J, s, e)' <=> StoredUnder(J, s, e)
    BY <1>8, TablesSame
  <2>5. \A g \in Handles : pc'[g] = "create" => pc[g] = "create"
    BY <1>8
  <2> QED
    BY <1>1, <1>8, <2>1, <2>2, <2>3, <2>4, <2>5 DEF DiskInv, ContentInv
<1>20. ASSUME NEW g \in Handles \ {h}
       PROVE  HandleInv(g)'
  BY <1>1, <1>8, OthersUnopened DEF Filled, Keyed, Loaded, Holding
<1> QED
  BY <1>16, <1>19, <1>20 DEF ContentInv

-----------------------------------------------------------------------------
(* The invariant holds. *)

LEMMA ForgetSame ==
  ASSUME NEW H \in SUBSET Handles, Forget(H)
  PROVE  \A g \in Handles : (g \notin H => Same(g)) /\ (g \in H => pc'[g] = "closed")
BY DEF Forget, Same

LEMMA ContentStep ==
  ASSUME WithVectors, TypeOK, TypeOK', WriterExclusion, ContentInv, [Next]_vars
  PROVE  ContentInv'
<1> USE TypeSplit
<1>1. CASE UNCHANGED vars
  <2>1. UNCHANGED <<disk, acked>> /\ \A g \in Handles : Same(g)
    BY <1>1 DEF vars, caches, Same
  <2> QED
    BY <2>1, QuietStep
<1>2. ASSUME NEW h \in Handles, CreateFile(h) \/ WriteNewHeader(h) \/ CreateFails(h)
      PROVE  ContentInv'
  BY <1>2, CreateStep
<1>3. ASSUME NEW h \in Handles, NEW kind \in {"read", "write"}, OpenFile(h, kind)
      PROVE  ContentInv'
  <2>1. UNCHANGED <<disk, acked>> /\ \A g \in Handles : Same(g) \/ pc'[g] = "lock"
    BY <1>3 DEF OpenFile, Goto, HandleTypeOK, Same, caches
  <2> QED
    BY <2>1, QuietStep
<1>4. ASSUME NEW h \in Handles, AcquireLock(h)
      PROVE  ContentInv'
  <2>1. UNCHANGED <<disk, acked>> /\ \A g \in Handles : Same(g) \/ pc'[g] = "header"
    BY <1>4 DEF AcquireLock, Goto, HandleTypeOK, Same, caches
  <2> QED
    BY <2>1, QuietStep
<1>5. ASSUME NEW H \in SUBSET Handles, Forget(H), UNCHANGED <<disk, acked>>
      PROVE  ContentInv'
  BY <1>5, ForgetSame, QuietStep
<1>6. ASSUME NEW h \in Handles, LockDenied(h) \/ HeaderUnreadable(h) \/ Close(h)
      PROVE  ContentInv'
  BY <1>5, <1>6 DEF LockDenied, HeaderUnreadable, Close, OpenError
<1>7. ASSUME NEW p \in Procs, Crash(p)
      PROVE  ContentInv'
  BY <1>5, <1>7 DEF Crash
<1>8. ASSUME NEW h \in Handles, ReadHeader(h) \/ CollectKeys(h) \/ CollectTrackLengths(h)
      PROVE  ContentInv'
  BY <1>8, OpenStep
<1>9. ASSUME NEW h \in Handles, Insert(h)
      PROVE  ContentInv'
  BY <1>9, CheckStep, SlotWriteStep, BlockWriteStep, FailedWriteStep, CommitStep DEF Insert
<1>10. ASSUME NEW h \in Handles, Power(h) \/ L2normExisting(h) \/ L2norm(h)
       PROVE  ContentInv'
  BY <1>10, NormWriteStep, FlagStep
<1> QED
  BY <1>1, <1>2, <1>3, <1>4, <1>6, <1>7, <1>8, <1>9, <1>10 DEF Next, Open

LEMMA ContentInit ==
  ASSUME Init
  PROVE  ContentInv
<1>1. TypeOK
  BY TypeInit DEF TypeInv
<1>2. trackTable \in [Slots -> Nat]
  BY <1>1 DEF TypeOK
<1>3. /\ \A h \in Handles : pc[h] = "closed"
      /\ header = NewHeader /\ acked = {}
  BY DEF Init
<1>4. VectorAt(trackTable, 0) = 0 /\ DoubleAt(trackTable, 0, 0) = 0
  BY <1>2, CapacityNat, VectorAtSteps, DoubleAtIsVectorAt
<1>5. Sound(header) /\ Normed(header)
  BY <1>3, <1>4 DEF NewHeader, Sound, Normed
<1>6. DiskInv
  BY <1>3, <1>5 DEF DiskInv
<1>7. \A h \in Handles : HandleInv(h)
  BY <1>3 DEF HandleInv, Loaded, Keyed, Filled, Stages
<1> QED
  BY <1>6, <1>7 DEF ContentInv

StoreInv == TypeInv /\ LockInv /\ ContentInv

LEMMA StoreInvariant ==
  ASSUME OneHandlePerProcess, WithVectors
  PROVE  /\ Init => StoreInv
         /\ StoreInv /\ [Next]_vars => StoreInv'
         /\ StoreInv => TypeOK /\ WriterExclusion /\ ContentInv
<1>1. Init => StoreInv
  BY TypeInit, LockInit0, ContentInit DEF StoreInv, LockInv
<1>2. StoreInv => TypeOK /\ WriterExclusion /\ ContentInv
  BY LockInvExcludes DEF StoreInv, TypeInv
<1>3. ASSUME StoreInv, [Next]_vars
      PROVE  StoreInv'
  <2>1. TypeInv' /\ LockInv'
    BY <1>3, TypeStep, LockStep DEF StoreInv, LockInv
  <2>2. ContentInv'
    BY <1>2, <1>3, <2>1, ContentStep DEF TypeInv
  <2> QED
    BY <2>1, <2>2 DEF StoreInv
<1> QED
  BY <1>1, <1>2, <1>3

-----------------------------------------------------------------------------
(* The properties. *)

(* What the committed header says is what the invariant says of it. *)
LEMMA StoredAtIsUnderHeader ==
  ASSUME NEW s, NEW d
  PROVE  StoredAt(s, d) <=> StoredUnder(header, s, d)
BY DEF StoredAt, StartOnDisk, StoredUnder, DoubleAt

(* An insert that returned 0 stays on disk, whole, whatever is inserted,   *)
(* fails, crashes or is opened later, failed syncs included.               *)
THEOREM AckedInsertsStay ==
  ASSUME OneHandlePerProcess, WithVectors
  PROVE  Spec => []AckedDurable
<1>1. StoreInv => AckedDurable
  BY StoreInvariant, StoredAtIsUnderHeader DEF ContentInv, DiskInv, AckedDurable
<1> QED
  BY <1>1, StoreInvariant, PTL DEF Spec

LEMMA ContentGivesRetrieval ==
  ASSUME WithVectors, TypeOK, ContentInv
  PROVE  RetrievalIntact
<1> USE TypeSplit
<1> SUFFICES ASSUME NEW h \in Handles, pc[h] = "open", NEW k \in Keys,
                    keymap[h][k] # NotFound
             PROVE  LET i == keymap[h][k] + 1
                    IN  /\ i \in DOMAIN keys[h] /\ keys[h][i] = k
                        /\ Holds(i - 1, offsets[h][i],
                                 [key |-> k, n |-> lengths[h][i], dim |-> hdr[h].dim,
                                  power |-> "power" \in hdr[h].flags,
                                  times |-> "times" \in hdr[h].flags])
  BY DEF RetrievalIntact
<1>1. HeaderLoaded(h) /\ KeysCached(h) /\ LengthsCached(h)
  BY DEF ContentInv, HandleInv, Loaded, Keyed, Filled
<1>2. PICK G \in Headers : G = hdr[h] /\ Sound(G)
  BY <1>1 DEF HandleTypeOK, HeaderLoaded
<1>3. PICK s \in 0 .. G.numFiles - 1 : s = keymap[h][k] /\ keyTable[s] = k
  BY <1>1, <1>2 DEF KeysCached
<1>4. PICK i \in 1 .. G.numFiles : i = s + 1 /\ i - 1 = s
  <2>1. s + 1 \in 1 .. G.numFiles /\ (s + 1) - 1 = s
    BY <1>2, HeaderType
  <2> QED
    BY <2>1
<1>5. PICK d \in Datums : StoredUnder(G, s, d)
  BY <1>2 DEF Sound
<1>6. i \in DOMAIN keys[h] /\ keys[h][i] = k
  BY <1>1, <1>2, <1>3, <1>4 DEF KeysCached
<1>7. lengths[h][i] = d.n /\ k = d.key
  BY <1>1, <1>2, <1>3, <1>4, <1>5 DEF LengthsCached, StoredUnder, Holds
<1>8. offsets[h][i] = DoubleAt(trackTable, G.dim, s)
  BY <1>1, <1>2, <1>4 DEF LengthsCached
<1>9. [key |-> k, n |-> lengths[h][i], dim |-> G.dim,
       power |-> "power" \in G.flags, times |-> "times" \in G.flags] = d
  <2>1. /\ d.dim = G.dim
        /\ d.power = ("power" \in G.flags) /\ d.times = ("times" \in G.flags)
    BY <1>5, DatumType DEF StoredUnder
  <2> QED
    BY <1>7, <2>1, DatumType
<1>10. Holds(s, offsets[h][i], d)
  BY <1>5, <1>8 DEF StoredUnder
<1> QED
  BY <1>2, <1>3, <1>4, <1>6, <1>9, <1>10

(* Through every open handle, whichever key is looked up selects that      *)
(* key's own vectors, powers and times, however the database was filled.   *)
THEOREM RetrievalStaysIntact ==
  ASSUME OneHandlePerProcess, WithVectors
  PROVE  Spec => []RetrievalIntact
<1>1. StoreInv => RetrievalIntact
  BY StoreInvariant, ContentGivesRetrieval
<1> QED
  BY <1>1, StoreInvariant, PTL DEF Spec

LEMMA ContentGivesCoherence ==
  ASSUME WithVectors, "sync" \notin Faults, TypeOK, ContentInv
  PROVE  CacheCoherent
<1> USE TypeSplit
<1> SUFFICES ASSUME NEW h \in Handles, pc[h] = "open"
             PROVE  /\ hdr[h].numFiles = header.numFiles /\ hdr[h].length = header.length
                    /\ header.flags \subseteq hdr[h].flags
                    /\ keys[h] = [i \in 1 .. header.numFiles |-> keyTable[i - 1]]
                    /\ lengths[h] = [i \in 1 .. header.numFiles |-> trackTable[i - 1]]
                    /\ offsets[h] = [i \in 1 .. header.numFiles |-> StartOnDisk(i - 1)]
  BY DEF CacheCoherent
<1>1. HeaderLoaded(h) /\ KeysCached(h) /\ LengthsCached(h)
  BY DEF ContentInv, HandleInv, Loaded, Keyed, Filled
<1>2. PICK G \in Headers : G = hdr[h] /\ Sound(G)
  BY <1>1 DEF HandleTypeOK, HeaderLoaded
<1>3. PICK H \in Headers : H = header /\ Sound(H)
  BY DEF DiskTypeOK, ContentInv, DiskInv
<1>4. G.numFiles = H.numFiles /\ Includes(G, H) /\ H.numFiles \in Nat
  BY <1>1, <1>2, <1>3, HeaderType DEF HeaderLoaded
<1>5. H.numFiles > 0 => G.dim = H.dim
  BY <1>3, <1>4, LengthCounts DEF Includes
<1>6. G.length = H.length
  <2>1. CASE H.numFiles = 0
    BY <1>2, <1>3, <1>4, <2>1, LengthCounts
  <2>2. CASE H.numFiles > 0
    BY <1>2, <1>3, <1>4, <1>5, <2>2 DEF Sound
  <2> QED
    BY <1>4, <2>1, <2>2
<1>7. \A i \in 1 .. H.numFiles : DoubleAt(trackTable, G.dim, i - 1) = StartOnDisk(i - 1)
  <2>1. ASSUME NEW i \in 1 .. H.numFiles
        PROVE  StartOnDisk(i - 1) = DoubleAt(trackTable, H.dim, i - 1)
    BY <1>3 DEF StartOnDisk, DoubleAt
  <2>2. ASSUME NEW i \in 1 .. H.numFiles
        PROVE  G.dim = H.dim
    BY <1>4, <1>5
  <2> QED
    BY <2>1, <2>2
<1>8. offsets[h] = [i \in 1 .. H.numFiles |-> StartOnDisk(i - 1)]
  BY <1>1, <1>2, <1>4, <1>7 DEF LengthsCached
<1> QED
  BY <1>1, <1>2, <1>3, <1>4, <1>6, <1>8 DEF Includes, KeysCached, LengthsCached

(* While no sync fails, what an idle handle has cached is what the file    *)
(* holds: nobody commits behind an open handle.                            *)
THEOREM CachesStayCoherent ==
  ASSUME OneHandlePerProcess, WithVectors, "sync" \notin Faults
  PROVE  Spec => []CacheCoherent
<1>1. StoreInv => CacheCoherent
  BY StoreInvariant, ContentGivesCoherence
<1> QED
  BY <1>1, StoreInvariant, PTL DEF Spec

LEMMA ContentGivesNorms ==
  ASSUME WithVectors, TypeOK, ContentInv
  PROVE  NormsCurrent
<1> USE TypeSplit
<1>1. PICK H \in Headers : H = header /\ Sound(H) /\ Normed(H)
  BY DEF DiskTypeOK, ContentInv, DiskInv
<1> SUFFICES ASSUME "l2norm" \in H.flags, H.length > 0,
                    NEW n, n = H.length \div H.dim, NEW v \in 0 .. n - 1
             PROVE  l2normTable[v] = NormBlock(dataTable, H.dim, n)[v]
  BY <1>1 DEF NormsCurrent
<1>2. H.numFiles > 0
  BY <1>1, LengthCounts, HeaderType
<1>3. n = VectorAt(trackTable, H.numFiles)
  BY <1>1, <1>2, LengthCounts
<1>4. l2normTable[v] = NormOf(dataTable, H.dim, v)
  BY <1>1, <1>3 DEF Normed, NormsFor
<1> QED
  BY <1>4 DEF NormBlock, NormOf

(* Once the header on disk says that there are norms, they are those of    *)
(* the vectors on disk, whichever call computed them.                      *)
THEOREM NormsStayCurrent ==
  ASSUME OneHandlePerProcess, WithVectors
  PROVE  Spec => []NormsCurrent
<1>1. StoreInv => NormsCurrent
  BY StoreInvariant, ContentGivesNorms
<1> QED
  BY <1>1, StoreInvariant, PTL DEF Spec

-----------------------------------------------------------------------------
(* Store implements Catalogue. *)

(* The tracks as the key and length tables and header H describe them. *)
Described(ks, ls, H) ==
  [i \in 1 .. H.numFiles |->
     [key |-> ks[i - 1], n |-> ls[i - 1], dim |-> H.dim,
      power |-> "power" \in H.flags, times |-> "times" \in H.flags]]

LEMMA StoredDescribed ==
  ASSUME NEW s, NEW d \in Datums, StoredAt(s, d)
  PROVE  d = [key |-> keyTable[s], n |-> trackTable[s], dim |-> header.dim,
              power |-> "power" \in header.flags, times |-> "times" \in header.flags]
<1>1. /\ d.key = keyTable[s] /\ d.n = trackTable[s] /\ d.dim = header.dim
      /\ d.power = ("power" \in header.flags) /\ d.times = ("times" \in header.flags)
  BY DatumType DEF StoredAt, Holds
<1> QED
  BY <1>1, DatumType

(* The committed tracks are what the tables describe. *)
LEMMA CommittedDescribed ==
  TypeOK /\ ContentInv =>
    /\ CommittedTracks = Described(keyTable, trackTable, header)
    /\ CommittedTracks \in Seq(Datums)
<1> SUFFICES ASSUME TypeOK, ContentInv
             PROVE  /\ CommittedTracks = Described(keyTable, trackTable, header)
                    /\ CommittedTracks \in Seq(Datums)
  OBVIOUS
<1>1. Sound(header) /\ header.numFiles \in Nat
  BY HeaderType, TypeSplit DEF ContentInv, DiskInv, DiskTypeOK
<1>2. ASSUME NEW i \in 1 .. header.numFiles
      PROVE  TrackAt(i - 1) \in Datums /\ StoredAt(i - 1, TrackAt(i - 1))
  <2>1. i - 1 \in 0 .. header.numFiles - 1
    BY <1>1
  <2>2. \E d \in Datums : StoredAt(i - 1, d)
    BY <1>1, <2>1, StoredAtIsUnderHeader DEF Sound
  <2> QED
    BY <2>2 DEF TrackAt
<1>3. \A i \in 1 .. header.numFiles :
        TrackAt(i - 1) = [key |-> keyTable[i - 1], n |-> trackTable[i - 1], dim |-> header.dim,
                          power |-> "power" \in header.flags, times |-> "times" \in header.flags]
  BY <1>2, StoredDescribed
<1> QED
  BY <1>1, <1>2, <1>3 DEF CommittedTracks, Described

LEMMA CatalogueInit ==
  ASSUME Init
  PROVE  Catalogue!Init
BY DEF Init, NewHeader, CommittedTracks, Catalogue!Init

(* A step that leaves the header, and the slots it counts, leaves the      *)
(* catalogue as it was.                                                    *)
LEMMA CatalogueStutters ==
  ASSUME TypeOK, TypeOK', ContentInv, ContentInv', UNCHANGED header,
         \A s \in 0 .. header.numFiles - 1 :
           keyTable'[s] = keyTable[s] /\ trackTable'[s] = trackTable[s]
  PROVE  UNCHANGED <<CommittedTracks, header.dim, header.flags>>
<1>1. PICK H \in Headers : H = header /\ H = header'
  BY TypeSplit DEF DiskTypeOK
<1>2. CommittedTracks = Described(keyTable, trackTable, H)
  BY <1>1, CommittedDescribed
<1>3. CommittedTracks' = Described(keyTable', trackTable', H)
  <2>1. (TypeOK /\ ContentInv => CommittedTracks = Described(keyTable, trackTable, header))'
    BY CommittedDescribed, PTL
  <2> QED
    BY <1>1, <2>1
<1>4. \A i \in 1 .. H.numFiles : keyTable'[i - 1] = keyTable[i - 1] /\ trackTable'[i - 1] = trackTable[i - 1]
  BY <1>1, HeaderType
<1>5. Described(keyTable', trackTable', H) = Described(keyTable, trackTable, H)
  BY <1>4 DEF Described
<1> QED
  BY <1>1, <1>2, <1>3, <1>5

(* Committing one more track appends it to the committed ones. *)
LEMMA CatalogueCommit ==
  ASSUME WithVectors, "sync" \notin Faults, TypeOK, TypeOK', ContentInv, ContentInv',
         NEW h \in Handles, Commit(h)
  PROVE  Catalogue!Next
<1> USE TypeSplit
<1>1. /\ pc[h] = "commit" /\ InsertUnderWay(h) /\ HeaderLoaded(h) /\ KeysCached(h)
  BY DEF Commit, Counted, ContentInv, HandleInv, Loaded, Keyed, Filled, Stages
<1>2. PICK G \in Headers : G = hdr[h]
  BY DEF HandleTypeOK
<1>3. PICK H \in Headers : H = header /\ Sound(H)
  BY DEF DiskTypeOK, ContentInv, DiskInv
<1>4. PICK d \in Datums : d = datum[h]
  BY <1>1, InsertExtent
<1>5. PICK n \in Nat : n = G.numFiles /\ n \in Slots
  BY <1>1, <1>2, InsertExtent
<1>6. PICK K : K = [G EXCEPT !.numFiles = @ + 1, !.length = @ + d.n * d.dim]
  OBVIOUS
<1>7. /\ K \in Headers /\ K.numFiles = n + 1 /\ K.dim = G.dim /\ K.flags = G.flags
      /\ StoredUnder(K, n, d)
  BY <1>1, <1>2, <1>4, <1>5, <1>6, OneMoreTrack
<1>8. UNCHANGED <<keyTable, trackTable>> /\ header' = K
  BY <1>2, <1>4, <1>6 DEF Commit, Counted, tables
<1>9. /\ H.numFiles = n /\ H.flags \subseteq G.flags /\ G.flags \subseteq H.flags \cup {"times"}
      /\ H.dim # 0 => G.dim = H.dim
      /\ n > 0 => G.flags \subseteq H.flags \cup {"l2norm"}
  BY <1>1, <1>2, <1>3, <1>5 DEF HeaderLoaded, Includes
<1>10. /\ d.dim = G.dim /\ keymap[h][d.key] = NotFound
       /\ d.power <=> "power" \in G.flags
       /\ d.times <=> "times" \in G.flags
  BY <1>1, <1>2, <1>4 DEF InsertUnderWay
<1>11. n > 0 => G.dim = H.dim
  BY <1>3, <1>9, LengthCounts
<1>12. K.flags = H.flags \cup (IF d.times THEN {"times"} ELSE {})
  BY <1>7, <1>9, <1>10
<1> DEFINE D == Described(keyTable, trackTable, H)
           E == Described(keyTable, trackTable, K)
<1>13. CommittedTracks = D /\ D \in Seq(Datums)
  BY <1>3, CommittedDescribed
<1>14. CommittedTracks' = E
  <2>1. (TypeOK /\ ContentInv => CommittedTracks = Described(keyTable, trackTable, header))'
    BY CommittedDescribed, PTL
  <2> QED
    BY <1>8, <2>1
<1>15. \A i \in 1 .. n : D[i].key = keyTable[i - 1]
  BY <1>9 DEF Described
<1>16. \A i \in DOMAIN D : D[i].key # d.key
  <2>1. \A s \in 0 .. n - 1 : keyTable[s] # d.key
    BY <1>1, <1>2, <1>5, <1>10 DEF KeysCached
  <2>2. DOMAIN D = 1 .. n
    BY <1>9 DEF Described
  <2> QED
    BY <1>15, <2>1, <2>2
<1>17. E = Append(D, d)
  <2> DEFINE f == [s \in 0 .. n - 1 |->
                     [key |-> keyTable[s], n |-> trackTable[s], dim |-> H.dim,
                      power |-> "power" \in H.flags, times |-> "times" \in H.flags]]
             g == [s \in 0 .. n |->
                     [key |-> keyTable[s], n |-> trackTable[s], dim |-> K.dim,
                      power |-> "power" \in K.flags, times |-> "times" \in K.flags]]
  <2>1. D = [i \in 1 .. n |-> f[i - 1]]
    BY <1>9 DEF Described
  <2>2. E = [i \in 1 .. n + 1 |-> g[i - 1]]
    BY <1>7 DEF Described
  <2>3. ASSUME NEW s \in 0 .. n - 1
        PROVE  g[s] = f[s]
    <3>1. n > 0 /\ s \in 0 .. n
      OBVIOUS
    <3>2. /\ K.dim = H.dim
          /\ ("power" \in K.flags) = ("power" \in H.flags)
          /\ ("times" \in K.flags) = ("times" \in H.flags)
      BY <1>7, <1>9, <1>11, <3>1
    <3> QED
      BY <3>1, <3>2
  <2>4. g[n] = d
    <3>1. /\ d.key = keyTable[n] /\ d.n = trackTable[n] /\ d.dim = K.dim
          /\ d.power = ("power" \in K.flags) /\ d.times = ("times" \in K.flags)
      BY <1>7, DatumType DEF StoredUnder, Holds
    <3>2. d = [key |-> d.key, n |-> d.n, dim |-> d.dim, power |-> d.power, times |-> d.times]
      BY DatumType
    <3>3. d = [key |-> keyTable[n], n |-> trackTable[n], dim |-> K.dim,
               power |-> "power" \in K.flags, times |-> "times" \in K.flags]
      BY ONLY <3>1, <3>2
    <3>4. n \in 0 .. n
      OBVIOUS
    <3> QED
      BY ONLY <3>3, <3>4
  <2> HIDE DEF D, E, f, g
  <2> QED
    <3>1. PICK a, b : a = f /\ b = g
      OBVIOUS
    <3>2. PICK ss \in Seq(Datums) : ss = D /\ Lists(ss, a, n)
      BY <1>13, <2>1, <3>1 DEF Lists
    <3>3. /\ ss \in Seq(Datums) /\ d \in Datums /\ n \in Nat
          /\ (\A i \in 0 .. n - 1 : b[i] = a[i]) /\ b[n] = d
      BY <2>3, <2>4, <3>1
    <3>4. Lists(Append(ss, d), b, n + 1)
      BY ONLY <3>2, <3>3, AppendEntry
    <3> QED
      BY <2>2, <3>1, <3>2, <3>4 DEF Lists
<1>18. D # <<>> => n > 0
  BY <1>9 DEF Described
<1> HIDE DEF D, E
<1>19. Catalogue!Insert(d)
  BY <1>3, <1>7, <1>8, <1>9, <1>10, <1>11, <1>12, <1>13, <1>14, <1>16, <1>17, <1>18
     DEF Catalogue!Insert
<1> QED
  BY <1>19 DEF Catalogue!Next

(* Setting a flag changes the settings as the catalogue allows. *)
LEMMA CatalogueFlag ==
  ASSUME WithVectors, "sync" \notin Faults, TypeOK, TypeOK', ContentInv, ContentInv',
         NEW h \in Handles, Power(h) \/ L2norm(h)
  PROVE  Catalogue!Next
<1> USE TypeSplit
<1>1. HeaderLoaded(h)
  BY DEF Power, L2norm, Writable, Idle, ContentInv, HandleInv, Loaded
<1>2. PICK G \in Headers : G = hdr[h] /\ Sound(G)
  BY <1>1 DEF HandleTypeOK, HeaderLoaded
<1>3. PICK H \in Headers : H = header /\ Sound(H)
  BY DEF DiskTypeOK, ContentInv, DiskInv
<1>4. PICK K \in Headers : K = header'
  BY DEF TypeOK
<1>5. /\ H.numFiles = G.numFiles /\ H.flags \subseteq G.flags
      /\ G.flags \subseteq H.flags \cup {"times"}
      /\ H.dim # 0 => G.dim = H.dim
      /\ H.numFiles > 0 => G.flags \subseteq H.flags \cup {"l2norm"}
  BY <1>1, <1>2, <1>3 DEF HeaderLoaded, Includes
<1>6. PICK flag \in {"power", "l2norm"} :
        /\ K.numFiles = G.numFiles /\ K.dim = G.dim /\ K.flags = G.flags \cup {flag}
        /\ flag = "power" => G.length = 0
        /\ flag = "l2norm" => G.length = 0 \/ G.numFiles > 0
  BY <1>2, <1>4 DEF Power, L2norm, SetFlag, Headers, ContentInv, HandleInv
<1>7. CommittedTracks = Described(keyTable, trackTable, H)
  BY <1>3, CommittedDescribed
<1>8. CommittedTracks' = Described(keyTable, trackTable, K)
  <2>1. (TypeOK /\ ContentInv => CommittedTracks = Described(keyTable, trackTable, header))'
    BY CommittedDescribed, PTL
  <2>2. UNCHANGED <<keyTable, trackTable>>
    BY DEF Power, L2norm, tables
  <2> QED
    BY <1>4, <2>1, <2>2
<1>9. CASE H.numFiles = 0
  <2>1. Described(keyTable, trackTable, H) = <<>> /\ Described(keyTable, trackTable, K) = <<>>
    BY <1>5, <1>6, <1>9 DEF Described
  <2>2. Catalogue!Prepare
    BY <1>3, <1>4, <1>5, <1>6, <1>7, <1>8, <2>1 DEF Catalogue!Prepare
  <2> QED
    BY <2>2 DEF Catalogue!Next
<1>10. CASE H.numFiles > 0
  <2>1. flag = "l2norm" /\ G.dim = H.dim
    BY <1>2, <1>3, <1>5, <1>6, <1>10, LengthCounts
  <2>2. K.flags = H.flags \cup {"l2norm"}
    BY <1>5, <1>6, <1>10, <2>1
  <2>3. ("power" \in K.flags) = ("power" \in H.flags) /\ ("times" \in K.flags) = ("times" \in H.flags)
    BY <2>2
  <2>4. Described(keyTable, trackTable, K) = Described(keyTable, trackTable, H)
    BY <1>5, <1>6, <2>1, <2>3 DEF Described
  <2>5. Catalogue!EnableNorms
    BY <1>3, <1>4, <1>6, <1>7, <1>8, <2>1, <2>2, <2>4 DEF Catalogue!EnableNorms
  <2> QED
    BY <2>5 DEF Catalogue!Next
<1> QED
  BY <1>3, <1>9, <1>10, HeaderType

(* The other steps write the header only where there is none yet, and the  *)
(* key and length tables only behind the tracks it counts.                 *)
LEMMA CatalogueKept ==
  ASSUME "sync" \notin Faults, TypeOK, TypeOK', ContentInv, [Next]_vars,
         \A h \in Handles : ~Commit(h) /\ ~Power(h) /\ ~L2norm(h)
  PROVE  /\ UNCHANGED header
         /\ \A s \in 0 .. header.numFiles - 1 :
              keyTable'[s] = keyTable[s] /\ trackTable'[s] = trackTable[s]
<1> USE TypeSplit
<1>1. CASE UNCHANGED <<header, keyTable, trackTable>>
  BY <1>1
<1>2. CASE UNCHANGED vars
  BY <1>1, <1>2 DEF vars, disk, tables
<1>3. ASSUME NEW p \in Procs, Crash(p)
      PROVE  UNCHANGED <<header, keyTable, trackTable>>
  BY <1>3 DEF Crash, disk, tables
<1>4. ASSUME NEW h \in Handles, CreateFile(h) \/ WriteNewHeader(h) \/ CreateFails(h)
      PROVE  UNCHANGED <<header, keyTable, trackTable>>
  <2>1. header = NewHeader
    BY <1>4 DEF CreateFile, WriteNewHeader, CreateFails, ContentInv, HandleInv, DiskInv
  <2> QED
    BY <1>4, <2>1 DEF CreateFile, WriteNewHeader, CreateFails, tables
<1>5. ASSUME NEW h \in Handles, Open(h) \/ Close(h)
      PROVE  UNCHANGED <<header, keyTable, trackTable>>
  BY <1>5 DEF Open, OpenFile, AcquireLock, LockDenied, OpenError, ReadHeader, HeaderUnreadable,
              CollectKeys, CollectTrackLengths, Close, disk, tables
<1>6. ASSUME NEW h \in Handles,
             \/ \E d \in Datums : RefuseInsert(h, d) \/ BeginInsert(h, d)
             \/ WriteData(h) \/ WritePower(h) \/ WriteTimes(h) \/ WriteNorms(h) \/ WriteFails(h)
             \/ L2normExisting(h)
      PROVE  UNCHANGED <<header, keyTable, trackTable>>
  BY <1>6 DEF RefuseInsert, BeginInsert, WriteData, WritePower, WriteTimes, WriteNorms,
              WriteFails, L2normExisting, disk, tables
<1>7. ASSUME NEW h \in Handles, WriteKey(h) \/ WriteLength(h)
      PROVE  /\ UNCHANGED header
             /\ \A s \in 0 .. header.numFiles - 1 :
                  keyTable'[s] = keyTable[s] /\ trackTable'[s] = trackTable[s]
  <2>1. HeaderLoaded(h)
    BY <1>7 DEF WriteKey, WriteLength, ContentInv, HandleInv, Loaded
  <2>2. PICK n \in Nat : n = header.numFiles /\ n = hdr[h].numFiles
    BY <2>1, HeaderType DEF HeaderLoaded, DiskTypeOK
  <2>3. \A s \in 0 .. n - 1 : s # n
    OBVIOUS
  <2>4. UNCHANGED header
    BY <1>7 DEF WriteKey, WriteLength
  <2>5. \A s \in 0 .. n - 1 : keyTable'[s] = keyTable[s] /\ trackTable'[s] = trackTable[s]
    BY <1>7, <2>2, <2>3, HeaderType DEF WriteKey, WriteLength, DiskTypeOK
  <2> QED
    BY <2>2, <2>4, <2>5
<1> QED
  BY <1>1, <1>2, <1>3, <1>4, <1>5, <1>6, <1>7 DEF Next, Insert

LEMMA CatalogueStep ==
  ASSUME WithVectors, "sync" \notin Faults, TypeOK, TypeOK', ContentInv, ContentInv',
         [Next]_vars
  PROVE  [Catalogue!Next]_<<CommittedTracks, header.dim, header.flags>>
<1>1. CASE \E h \in Handles : Commit(h)
  BY <1>1, CatalogueCommit
<1>2. CASE \E h \in Handles : Power(h) \/ L2norm(h)
  BY <1>2, CatalogueFlag
<1>3. CASE \A h \in Handles : ~Commit(h) /\ ~Power(h) /\ ~L2norm(h)
  BY <1>3, CatalogueKept, CatalogueStutters
<1> QED
  BY <1>1, <1>2, <1>3

(* Where no sync fails, the file is a Catalogue whatever its processes do: *)
(* each of their steps appends one whole new track to the committed ones,  *)
(* changes the settings the way the catalogue allows, or leaves it alone.  *)
THEOREM StoreImplementsCatalogue ==
  ASSUME OneHandlePerProcess, WithVectors, "sync" \notin Faults
  PROVE  Spec => ImplementsCatalogue
<1>1. StoreInv /\ StoreInv' /\ [Next]_vars
        => [Catalogue!Next]_<<CommittedTracks, header.dim, header.flags>>
  <2>1. StoreInv => TypeOK /\ ContentInv
    BY StoreInvariant
  <2>2. StoreInv' => TypeOK' /\ ContentInv'
    BY <2>1, PTL
  <2> QED
    BY <2>1, <2>2, CatalogueStep
<1> QED
  BY <1>1, StoreInvariant, CatalogueInit, PTL DEF Spec, ImplementsCatalogue, Catalogue!Spec
=============================================================================
