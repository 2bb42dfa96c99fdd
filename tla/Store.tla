-------------------------------- MODULE Store --------------------------------
(***************************************************************************)
(* The audioDB file, the processes that share it under FileLock, and the   *)
(* handles (adb_t) through which they create, open, fill and close it.     *)
(* One action per system call that other processes, a failure or a crash   *)
(* can separate from the next one.                                         *)
(*                                                                         *)
(* Offsets are counted in doubles from the start of each table, vectors    *)
(* from 0; where the tables lie in the file is module Layout's subject.    *)
(* Keys are shorter than ADB_FILETABLE_ENTRY_SIZE and the database is not  *)
(* a REFERENCES one.                                                       *)
(***************************************************************************)
EXTENDS FileLock, Offsets, Sequences, FiniteSets

CONSTANTS
  Handles,      \* adb_t's that may exist
  ProcOf,       \* the process each handle lives in
  Keys,         \* track keys
  Datums,       \* the adb_datum_t's that clients insert
  MaxTracks,    \* capacity of the per-track tables (maxfiles)
  DataSpace,    \* timesTableOffset - dataOffset, in doubles
  Faults,       \* what may go wrong: "write", "sync", "crash"
  NoKey,        \* content of a key table entry never written
  Blank         \* content of a table cell never written

ASSUME ProcOfAssumption == ProcOf \in [Handles -> Procs]
ASSUME DatumsAssumption ==
  Datums \subseteq [key: Keys, n: Nat, dim: Nat \ {0}, power: BOOLEAN, times: BOOLEAN]
ASSUME SpaceAssumption == MaxTracks \in Nat /\ DataSpace \in Nat
ASSUME FaultsAssumption == Faults \subseteq {"write", "sync", "crash"}
ASSUME SentinelAssumption ==
  NoKey \notin Keys /\ Blank \notin (Keys \X Nat) /\ Blank \notin Seq(Keys \X Nat)

VARIABLES
  file,         \* "absent", "empty" (created, no header yet) or "ready"
  header,       \* the header on disk
  keyTable, trackTable,                             \* indexed by track
  dataTable,                                        \* indexed by double
  powerTable, timesTable, l2normTable,              \* indexed by vector
  pc,           \* how far the call in progress on each handle is
  mode,         \* adb->flags: the lock kind O_RDONLY / O_RDWR asks for
  hdr, keys, keymap, lengths, offsets,              \* the rest of adb_t
  datum,        \* the datum being inserted
  acked         \* history: datums whose insert returned 0

tables     == <<keyTable, trackTable, dataTable, powerTable, timesTable, l2normTable>>
disk       == <<file, header, tables>>
caches     == <<keys, keymap, lengths, offsets>>
vars       == <<lock, disk, pc, mode, hdr, caches, datum, acked>>

-----------------------------------------------------------------------------
(* What the tables hold. *)

Slots    == 0 .. MaxTracks - 1
Cells    == 0 .. DataSpace - 1
NotFound == -1                          \* (uint32_t) -1 in audiodb_key_index
Flags    == {"power", "times", "l2norm"}
KeyEntries == Keys \cup {NoKey}
NoMap    == [k \in KeyEntries |-> NotFound]

(* The values a datum brings: its j-th double, its v-th power or time pair. *)
Value(d, j) == <<d.key, j>>
DataBlock(d)   == [j \in 0 .. d.n * d.dim - 1 |-> Value(d, j)]
VectorBlock(d) == [v \in 0 .. d.n - 1 |-> Value(d, v)]

(* The squared norm of a vector stands for the vector it was computed from. *)
NormBlock(block, dim, n) ==
  [v \in 0 .. n - 1 |-> [j \in 1 .. dim |-> block[v * dim + j - 1]]]

(* A write() of `block' at position `at' of a table. *)
Written(table, at, block) ==
  [i \in DOMAIN table |-> IF i - at \in DOMAIN block THEN block[i - at] ELSE table[i]]

NewHeader == [numFiles |-> 0, dim |-> 0, length |-> 0, flags |-> {}]

-----------------------------------------------------------------------------
Init ==
  /\ LockInit
  /\ file = "absent"
  /\ header = NewHeader
  /\ keyTable = [s \in Slots |-> NoKey]
  /\ trackTable = [s \in Slots |-> 0]
  /\ dataTable = [i \in Cells |-> Blank]
  /\ powerTable = [i \in Cells |-> Blank]
  /\ timesTable = [i \in Cells |-> Blank]
  /\ l2normTable = [i \in Cells |-> Blank]
  /\ pc = [h \in Handles |-> "closed"]
  /\ mode = [h \in Handles |-> "none"]
  /\ hdr = [h \in Handles |-> NewHeader]
  /\ keys = [h \in Handles |-> <<>>]
  /\ keymap = [h \in Handles |-> NoMap]
  /\ lengths = [h \in Handles |-> <<>>]
  /\ offsets = [h \in Handles |-> <<>>]
  /\ datum = [h \in Handles |-> Blank]
  /\ acked = {}

Goto(h, label) == pc' = [pc EXCEPT ![h] = label]

(* The handles in H are gone: freed, or never handed to the client. *)
Forget(H) ==
  /\ pc'      = [h \in Handles |-> IF h \in H THEN "closed" ELSE pc[h]]
  /\ mode'    = [h \in Handles |-> IF h \in H THEN "none" ELSE mode[h]]
  /\ hdr'     = [h \in Handles |-> IF h \in H THEN NewHeader ELSE hdr[h]]
  /\ keys'    = [h \in Handles |-> IF h \in H THEN <<>> ELSE keys[h]]
  /\ keymap'  = [h \in Handles |-> IF h \in H THEN NoMap ELSE keymap[h]]
  /\ lengths' = [h \in Handles |-> IF h \in H THEN <<>> ELSE lengths[h]]
  /\ offsets' = [h \in Handles |-> IF h \in H THEN <<>> ELSE offsets[h]]
  /\ datum'   = [h \in Handles |-> IF h \in H THEN Blank ELSE datum[h]]

-----------------------------------------------------------------------------
(* audiodb_create: O_EXCL makes the file, the header goes in without a     *)
(* lock, then audiodb_open takes over; the first descriptor stays open.    *)

CreateFile(h) ==
  /\ pc[h] = "closed" /\ file = "absent"
  /\ file' = "empty"
  /\ Goto(h, "create")
  /\ UNCHANGED <<lock, header, tables, mode, hdr, caches, datum, acked>>

WriteNewHeader(h) ==
  /\ pc[h] = "create"
  /\ file' = "ready" /\ header' = NewHeader
  /\ Goto(h, "lock")
  /\ mode' = [mode EXCEPT ![h] = "write"]
  /\ UNCHANGED <<lock, tables, hdr, caches, datum, acked>>

(* The header or the last byte could not be written: NULL, file left as is. *)
CreateFails(h) ==
  /\ "write" \in Faults
  /\ pc[h] = "create"
  /\ \/ UNCHANGED <<file, header>>
     \/ file' = "ready" /\ header' = NewHeader
  /\ Forget({h})
  /\ UNCHANGED <<lock, tables, acked>>

-----------------------------------------------------------------------------
(* audiodb_open. *)

OpenFile(h, kind) ==
  /\ pc[h] = "closed" /\ file # "absent"
  /\ Goto(h, "lock")
  /\ mode' = [mode EXCEPT ![h] = kind]
  /\ UNCHANGED <<lock, disk, hdr, caches, datum, acked>>

(* Mutant: every open asks for a read lock. *)
AcquireReadLock(h) ==
  /\ pc[h] = "lock"
  /\ Acquire(ProcOf[h], "read")
  /\ Goto(h, "header")
  /\ UNCHANGED <<disk, mode, hdr, caches, datum, acked>>

AcquireLock(h) ==
  /\ pc[h] = "lock"
  /\ Acquire(ProcOf[h], mode[h])
  /\ Goto(h, "header")
  /\ UNCHANGED <<disk, mode, hdr, caches, datum, acked>>

(* goto error: NULL is returned, and close(fd) drops the process's lock. *)
OpenError(h) ==
  /\ Forget({h})
  /\ Divest(ProcOf[h])
  /\ UNCHANGED <<disk, acked>>

Upgrading == {ProcOf[g] : g \in {g \in Handles : pc[g] = "lock" /\ mode[g] = "write"}}

LockDenied(h) ==
  /\ pc[h] = "lock" /\ mode[h] = "write"
  /\ WouldDeadlock(ProcOf[h], Upgrading)
  /\ OpenError(h)

ReadHeader(h) ==
  /\ pc[h] = "header" /\ file = "ready"
  /\ hdr' = [hdr EXCEPT ![h] = header]
  /\ Goto(h, "keys")
  /\ UNCHANGED <<lock, disk, mode, caches, datum, acked>>

HeaderUnreadable(h) ==
  /\ pc[h] = "header" /\ file = "empty"
  /\ OpenError(h)

(* Both collectors read their table only if there is data in the database. *)
Collected(h) == IF hdr[h].length > 0 THEN hdr[h].numFiles ELSE 0

(* Filling the map in index order leaves the last index of each key. *)
IsLast(i, k, ks, n) == i \in 1 .. n /\ ks[i] = k /\ \A j \in i + 1 .. n : ks[j] # k

(* Mutant: the map counts tracks from one. *)
MapOfFromOne(ks, n) ==
  [k \in KeyEntries |->
     IF \E i \in 1 .. n : ks[i] = k THEN CHOOSE i \in 1 .. n : IsLast(i, k, ks, n)
     ELSE NotFound]

MapOf(ks, n) ==
  [k \in KeyEntries |->
     IF \E i \in 1 .. n : ks[i] = k THEN (CHOOSE i \in 1 .. n : IsLast(i, k, ks, n)) - 1
     ELSE NotFound]

CollectKeys(h) ==
  /\ pc[h] = "keys"
  /\ LET ks == [i \in 1 .. Collected(h) |-> keyTable[i - 1]]
     IN  /\ keys' = [keys EXCEPT ![h] = ks]
         /\ keymap' = [keymap EXCEPT ![h] = MapOf(ks, Collected(h))]
  /\ Goto(h, "lengths")
  /\ UNCHANGED <<lock, disk, mode, hdr, lengths, offsets, datum, acked>>

(* Mutant: offsets in vectors instead of doubles. *)
CollectUnscaled(h) ==
  /\ pc[h] = "lengths"
  /\ LET n == Collected(h)
         start == Starts(n, trackTable)
     IN  /\ lengths' = [lengths EXCEPT ![h] = [i \in 1 .. n |-> trackTable[i - 1]]]
         /\ offsets' = [offsets EXCEPT ![h] = [i \in 1 .. n |-> start[i - 1]]]
  /\ Goto(h, "open")
  /\ UNCHANGED <<lock, disk, mode, hdr, keys, keymap, datum, acked>>

CollectTrackLengths(h) ==
  /\ pc[h] = "lengths"
  /\ LET n == Collected(h)
         start == Starts(n, [s \in Slots |-> trackTable[s] * hdr[h].dim])
     IN  /\ lengths' = [lengths EXCEPT ![h] = [i \in 1 .. n |-> trackTable[i - 1]]]
         /\ offsets' = [offsets EXCEPT ![h] = [i \in 1 .. n |-> start[i - 1]]]
  /\ Goto(h, "open")
  /\ UNCHANGED <<lock, disk, mode, hdr, keys, keymap, datum, acked>>

-----------------------------------------------------------------------------
(* audiodb_insert_datum, steps 1 to 5 of its comment.  A refusal that      *)
(* changes nothing (steps 1 and 2, and a wrong dimension) is stuttering.   *)

Idle(h)     == pc[h] = "open"
Writable(h) == Idle(h) /\ mode[h] = "write"

EnoughSpace(h, d) ==
  /\ hdr[h].length + d.n * d.dim < DataSpace
  /\ hdr[h].numFiles < MaxTracks

DimAgrees(h, d)   == hdr[h].dim \in {0, d.dim}
PowerAgrees(h, d) == d.power <=> "power" \in hdr[h].flags
TimesAgrees(h, d) ==
  \/ d.times <=> "times" \in hdr[h].flags
  \/ d.times /\ hdr[h].numFiles = 0

(* Mutant: step 4 is forgotten. *)
AdmissibleAnyKey(h, d) == PowerAgrees(h, d) /\ TimesAgrees(h, d)

Admissible(h, d) ==
  keymap[h][d.key] = NotFound /\ PowerAgrees(h, d) /\ TimesAgrees(h, d)

(* Step 3 has already stored the dimension when step 4 or 5 refuses. *)
RefuseInsert(h, d) ==
  /\ Writable(h) /\ EnoughSpace(h, d) /\ DimAgrees(h, d)
  /\ ~Admissible(h, d)
  /\ hdr' = [hdr EXCEPT ![h].dim = d.dim]
  /\ UNCHANGED <<lock, disk, pc, mode, caches, datum, acked>>

BeginInsert(h, d) ==
  /\ Writable(h) /\ EnoughSpace(h, d) /\ DimAgrees(h, d)
  /\ Admissible(h, d)
  /\ hdr' = [hdr EXCEPT ![h].dim = d.dim,
                        ![h].flags = @ \cup (IF d.times THEN {"times"} ELSE {})]
  /\ datum' = [datum EXCEPT ![h] = d]
  /\ Goto(h, "key")
  /\ UNCHANGED <<lock, disk, mode, caches, acked>>

(* Steps 6 and 7: the writes, each at the place the cached header says. *)

(* Mutant: norms are not stored. *)
AfterDataNoNorms(h, done) ==
  IF datum[h].power /\ done = "data" THEN "power"
  ELSE IF datum[h].times /\ done \in {"data", "power"} THEN "times"
  ELSE "commit"

AfterData(h, done) ==
  IF datum[h].power /\ done = "data" THEN "power"
  ELSE IF datum[h].times /\ done \in {"data", "power"} THEN "times"
  ELSE IF "l2norm" \in hdr[h].flags /\ done # "norms" THEN "norms"
  ELSE "commit"

FirstVector(h) == hdr[h].length \div datum[h].dim

WriteKey(h) ==
  /\ pc[h] = "key"
  /\ keyTable' = [keyTable EXCEPT ![hdr[h].numFiles] = datum[h].key]
  /\ Goto(h, "length")
  /\ UNCHANGED <<lock, file, header, trackTable, dataTable, powerTable, timesTable,
                 l2normTable, mode, hdr, caches, datum, acked>>

WriteLength(h) ==
  /\ pc[h] = "length"
  /\ trackTable' = [trackTable EXCEPT ![hdr[h].numFiles] = datum[h].n]
  /\ Goto(h, "data")
  /\ UNCHANGED <<lock, file, header, keyTable, dataTable, powerTable, timesTable,
                 l2normTable, mode, hdr, caches, datum, acked>>

WriteData(h) ==
  /\ pc[h] = "data"
  /\ dataTable' = Written(dataTable, hdr[h].length, DataBlock(datum[h]))
  /\ Goto(h, AfterData(h, "data"))
  /\ UNCHANGED <<lock, file, header, keyTable, trackTable, powerTable, timesTable,
                 l2normTable, mode, hdr, caches, datum, acked>>

WritePower(h) ==
  /\ pc[h] = "power"
  /\ powerTable' = Written(powerTable, FirstVector(h), VectorBlock(datum[h]))
  /\ Goto(h, AfterData(h, "power"))
  /\ UNCHANGED <<lock, file, header, keyTable, trackTable, dataTable, timesTable,
                 l2normTable, mode, hdr, caches, datum, acked>>

WriteTimes(h) ==
  /\ pc[h] = "times"
  /\ timesTable' = Written(timesTable, FirstVector(h), VectorBlock(datum[h]))
  /\ Goto(h, AfterData(h, "times"))
  /\ UNCHANGED <<lock, file, header, keyTable, trackTable, dataTable, powerTable,
                 l2normTable, mode, hdr, caches, datum, acked>>

WriteNorms(h) ==
  /\ pc[h] = "norms"
  /\ l2normTable' = Written(l2normTable, FirstVector(h),
                            NormBlock(DataBlock(datum[h]), datum[h].dim, datum[h].n))
  /\ Goto(h, AfterData(h, "norms"))
  /\ UNCHANGED <<lock, file, header, keyTable, trackTable, dataTable, powerTable,
                 timesTable, mode, hdr, caches, datum, acked>>

(* A write comes up short or fails: return 1, with nothing rolled back.    *)
(* Only the vector data are long enough to be cut.                         *)
WriteFails(h) ==
  /\ "write" \in Faults
  /\ pc[h] \in {"key", "length", "data", "power", "times", "norms"}
  /\ \/ UNCHANGED dataTable
     \/ /\ pc[h] = "data"
        /\ \E m \in 1 .. datum[h].n * datum[h].dim - 1 :
             dataTable' = Written(dataTable, hdr[h].length,
                                  [j \in 0 .. m - 1 |-> Value(datum[h], j)])
  /\ Goto(h, "open")
  /\ datum' = [datum EXCEPT ![h] = Blank]
  /\ UNCHANGED <<lock, file, header, keyTable, trackTable, powerTable, timesTable,
                 l2normTable, mode, hdr, caches, acked>>

(* Mutant: the length grows by vectors instead of doubles. *)
CountedByVector(h) == [hdr[h] EXCEPT !.numFiles = @ + 1, !.length = @ + datum[h].n]

Counted(h) == [hdr[h] EXCEPT !.numFiles = @ + 1, !.length = @ + datum[h].n * datum[h].dim]

(* Steps 8 and 9.  Step 8 cannot fail; if step 9 does, step 8 stands. *)
Commit(h) ==
  LET d == datum[h]
      new == Counted(h)
  IN  /\ pc[h] = "commit"
      /\ keys' = [keys EXCEPT ![h] = Append(@, d.key)]
      /\ keymap' = [keymap EXCEPT ![h][d.key] = hdr[h].numFiles]
      /\ lengths' = [lengths EXCEPT ![h] = Append(@, d.n)]
      /\ offsets' = [offsets EXCEPT ![h] = Append(@, hdr[h].length)]
      /\ hdr' = [hdr EXCEPT ![h] = new]
      /\ \/ header' = new /\ acked' = acked \cup {d}
         \/ "sync" \in Faults /\ header' \in {header, new} /\ UNCHANGED acked
      /\ Goto(h, "open")
      /\ datum' = [datum EXCEPT ![h] = Blank]
      /\ UNCHANGED <<lock, file, tables, mode>>

-----------------------------------------------------------------------------
(* audiodb_power and audiodb_l2norm: set the flag, then sync the header.   *)

SetFlag(h, flag) ==
  LET new == [hdr[h] EXCEPT !.flags = @ \cup {flag}]
  IN  /\ hdr' = [hdr EXCEPT ![h] = new]
      /\ \/ header' = new
         \/ "sync" \in Faults /\ UNCHANGED header

Power(h) ==
  /\ Writable(h)
  /\ hdr[h].length = 0
  /\ SetFlag(h, "power")
  /\ UNCHANGED <<lock, file, tables, pc, mode, caches, datum, acked>>

(* The norms of what is there already are written before the flag is set;  *)
(* a short write returns 1 with the flag off.                              *)
L2normExisting(h) ==
  /\ Writable(h)
  /\ "l2norm" \notin hdr[h].flags /\ hdr[h].length > 0
  /\ LET n == hdr[h].length \div hdr[h].dim
     IN  \/ /\ l2normTable' = Written(l2normTable, 0, NormBlock(dataTable, hdr[h].dim, n))
            /\ Goto(h, "l2norm")
         \/ /\ "write" \in Faults
            /\ \E m \in 1 .. n - 1 :
                 l2normTable' = Written(l2normTable, 0, NormBlock(dataTable, hdr[h].dim, m))
            /\ UNCHANGED pc
  /\ UNCHANGED <<lock, file, header, keyTable, trackTable, dataTable, powerTable,
                 timesTable, mode, hdr, caches, datum, acked>>

L2norm(h) ==
  /\ \/ pc[h] = "l2norm"
     \/ Writable(h) /\ "l2norm" \notin hdr[h].flags /\ hdr[h].length = 0
  /\ SetFlag(h, "l2norm")
  /\ Goto(h, "open")
  /\ UNCHANGED <<lock, file, tables, mode, caches, datum, acked>>

-----------------------------------------------------------------------------
(* Mutant: the lock outlives the handle. *)
CloseKeepsLock(h) ==
  /\ Idle(h)
  /\ Forget({h})
  /\ UNCHANGED <<lock, disk, acked>>

Close(h) ==
  /\ Idle(h)
  /\ Forget({h})
  /\ Divest(ProcOf[h])
  /\ UNCHANGED <<disk, acked>>

(* The process dies; the kernel keeps what it wrote and drops its lock. *)
Crash(p) ==
  LET H == {h \in Handles : ProcOf[h] = p}
  IN  /\ "crash" \in Faults
      /\ \E h \in H : pc[h] # "closed"
      /\ Forget(H)
      /\ Divest(p)
      /\ UNCHANGED <<disk, acked>>

Insert(h) ==
  \/ \E d \in Datums : RefuseInsert(h, d) \/ BeginInsert(h, d)
  \/ WriteKey(h) \/ WriteLength(h) \/ WriteData(h)
  \/ WritePower(h) \/ WriteTimes(h) \/ WriteNorms(h)
  \/ WriteFails(h)
  \/ Commit(h)

Open(h) ==
  \/ \E kind \in {"read", "write"} : OpenFile(h, kind)
  \/ AcquireLock(h) \/ LockDenied(h)
  \/ ReadHeader(h) \/ HeaderUnreadable(h)
  \/ CollectKeys(h) \/ CollectTrackLengths(h)

Next ==
  \/ \E h \in Handles :
       \/ CreateFile(h) \/ WriteNewHeader(h) \/ CreateFails(h)
       \/ Open(h)
       \/ Insert(h)
       \/ Power(h) \/ L2normExisting(h) \/ L2norm(h)
       \/ Close(h)
  \/ \E p \in Procs : Crash(p)

Spec == Init /\ [][Next]_vars

(* Fairness: a call in progress runs to its end, the kernel grants a lock  *)
(* that is free again and again to a process that keeps asking for it, and *)
(* a client does not keep its handle for ever.                             *)
CallInProgress(h) ==
  \/ WriteNewHeader(h) \/ ReadHeader(h) \/ HeaderUnreadable(h)
  \/ CollectKeys(h) \/ CollectTrackLengths(h)
  \/ WriteKey(h) \/ WriteLength(h) \/ WriteData(h)
  \/ WritePower(h) \/ WriteTimes(h) \/ WriteNorms(h) \/ Commit(h)
  \/ pc[h] = "l2norm" /\ L2norm(h)

FairSpec ==
  /\ Spec
  /\ \A h \in Handles :
       WF_vars(CallInProgress(h)) /\ SF_vars(AcquireLock(h)) /\ SF_vars(Close(h))

-----------------------------------------------------------------------------
(* Properties. *)

Labels == {"closed", "create", "lock", "header", "keys", "lengths", "open", "key",
           "length", "data", "power", "times", "norms", "commit", "l2norm"}

Headers == [numFiles : 0 .. MaxTracks, dim : Nat, length : Nat, flags : SUBSET Flags]

(* Every variable keeps the shape its C++ counterpart has: in particular   *)
(* no call takes numFiles past the capacity of the per-track tables.       *)
TypeOK ==
  /\ LockTypeOK
  /\ file \in {"absent", "empty", "ready"}
  /\ header \in Headers
  /\ keyTable \in [Slots -> KeyEntries]
  /\ trackTable \in [Slots -> Nat]
  /\ DOMAIN dataTable = Cells /\ DOMAIN powerTable = Cells
  /\ DOMAIN timesTable = Cells /\ DOMAIN l2normTable = Cells
  /\ pc \in [Handles -> Labels]
  /\ mode \in [Handles -> LockKinds]
  /\ hdr \in [Handles -> Headers]
  /\ keys \in [Handles -> Seq(KeyEntries)]
  /\ keymap \in [Handles -> [KeyEntries -> -1 .. MaxTracks - 1]]
  /\ lengths \in [Handles -> Seq(Nat)]
  /\ offsets \in [Handles -> Seq(Nat)]
  /\ datum \in [Handles -> Datums \cup {Blank}]
  /\ acked \subseteq Datums

(* Past acquire_lock and not yet closed. *)
Holding(h) == pc[h] \notin {"closed", "create", "lock"}

(* audiodb_open's promise to its caller: while a handle is open for        *)
(* writing, no other handle on the file is open at all.                    *)
WriterExclusion ==
  \A g, h \in Handles : g # h /\ Holding(g) /\ mode[g] = "write" => ~Holding(h)

(* A process holds a lock only while one of its handles is past            *)
(* acquire_lock: no failed open, closed handle or death leaves a lock       *)
(* behind that would keep every other process out.                          *)
LocksOwned ==
  \A p \in Procs : lock[p] # "none" => \E h \in Handles : ProcOf[h] = p /\ Holding(h)

(* Slot s of the tables holds all of datum d, its doubles from `start' on. *)
Holds(s, start, d) ==
  /\ keyTable[s] = d.key /\ trackTable[s] = d.n
  /\ start + d.n * d.dim <= DataSpace
  /\ \A j \in DOMAIN DataBlock(d) : dataTable[start + j] = Value(d, j)
  /\ \A v \in DOMAIN VectorBlock(d) :
       /\ d.power => powerTable[start \div d.dim + v] = Value(d, v)
       /\ d.times => timesTable[start \div d.dim + v] = Value(d, v)

(* The datum the committed header says slot s holds, if the tables agree.  *)
StartOnDisk(s) == Starts(s, [t \in Slots |-> trackTable[t] * header.dim])[s]
StoredAt(s, d) ==
  /\ d.dim = header.dim
  /\ d.power <=> "power" \in header.flags
  /\ d.times <=> "times" \in header.flags
  /\ Holds(s, StartOnDisk(s), d)

(* An insert that returned 0 is on disk, whole, for good: no later insert, *)
(* failed write, flag change, crash or reopen loses or overwrites it.      *)
AckedDurable ==
  \A d \in acked : \E s \in 0 .. header.numFiles - 1 : StoredAt(s, d)

(* audiodb_retrieve_datum through an open handle: the index keymap gives   *)
(* for a key selects that key, and the length and offset cached at that    *)
(* index select that key's own vectors, powers and times on disk.          *)
RetrievalIntact ==
  \A h \in Handles : pc[h] = "open" =>
    \A k \in Keys : keymap[h][k] # NotFound =>
      LET i == keymap[h][k] + 1
      IN  /\ i \in DOMAIN keys[h] /\ keys[h][i] = k
          /\ Holds(i - 1, offsets[h][i],
                   [key |-> k, n |-> lengths[h][i], dim |-> hdr[h].dim,
                    power |-> "power" \in hdr[h].flags,
                    times |-> "times" \in hdr[h].flags])

(* What an idle handle cached when it was opened, and has kept up since,   *)
(* is still what the file holds: nobody commits behind an open handle.     *)
CacheCoherent ==
  \A h \in Handles : pc[h] = "open" =>
    /\ hdr[h].numFiles = header.numFiles /\ hdr[h].length = header.length
    /\ header.flags \subseteq hdr[h].flags
    /\ keys[h] = [i \in 1 .. header.numFiles |-> keyTable[i - 1]]
    /\ lengths[h] = [i \in 1 .. header.numFiles |-> trackTable[i - 1]]
    /\ offsets[h] = [i \in 1 .. header.numFiles |-> StartOnDisk(i - 1)]

(* Once the committed header says L2NORM, the norm table holds the norm of *)
(* every committed vector, whichever of insert and audiodb_l2norm computed *)
(* it, so queries with unit norming never divide by a stale norm.          *)
NormsCurrent ==
  "l2norm" \in header.flags /\ header.length > 0 =>
    LET n == header.length \div header.dim
    IN  \A v \in 0 .. n - 1 :
          l2normTable[v] = NormBlock(dataTable, header.dim, n)[v]

(* A process waiting for its read lock gets it, even among writers.        *)
ReadersServed ==
  \A h \in Handles : pc[h] = "lock" /\ mode[h] = "read" ~> pc[h] # "lock"
=============================================================================
