------------------------------- MODULE Layout -------------------------------
(***************************************************************************)
(* Where audiodb_create puts the tables of a database file, and which      *)
(* bytes each later call writes.  Positions are bytes; the numbers the     *)
(* code fixes are constants so that TLC can use small ones.                *)
(***************************************************************************)
EXTENDS Integers

CONSTANTS
  PageSize,             \* getpagesize()
  DataUnit,             \* bytes per unit of datasize (1024 * 1024)
  Double,               \* sizeof(double)
  KeyEntry,             \* ADB_FILETABLE_ENTRY_SIZE
  TrackEntry,           \* ADB_TRACKTABLE_ENTRY_SIZE
  Word,                 \* 2^32, the modulus of unsigned arithmetic
  LargeTracks, LargeSize,                       \* ADB_FIXME_LARGE_ADB_...
  DefaultSize, DefaultTracks, DefaultDim,       \* ADB_DEFAULT_...
  DataSizes, TrackCounts, DataDims,     \* arguments of audiodb_create
  Dims, VectorCounts,                   \* of the datums inserted
  KeyLengths, PathLengths               \* bytes written for a key, a file name

ASSUME UnitsAssumption ==
  /\ {PageSize, DataUnit, Double, KeyEntry, TrackEntry, Word} \subseteq Nat \ {0}
  /\ {DefaultSize, DefaultTracks, DefaultDim} \subseteq Nat \ {0}
  /\ LargeTracks \in Nat /\ LargeSize \in Nat
ASSUME PagesAssumption == DataUnit % PageSize = 0
ASSUME InputsAssumption ==
  /\ DataSizes \subseteq Nat /\ TrackCounts \subseteq Nat /\ DataDims \subseteq Nat
  /\ Dims \subseteq Nat \ {0} /\ VectorCounts \subseteq Nat
  /\ KeyLengths \subseteq Nat /\ PathLengths \subseteq Nat

VARIABLES
  db,                           \* the offsets in the header, NoFile before
  length, numFiles, dim,        \* the rest of the header
  features,                     \* the features this database stores
  wrote                         \* extents the last call wrote to the tables

vars == <<db, length, numFiles, dim, features, wrote>>

NoFile == [key |-> 0, track |-> 0, data |-> 0, times |-> 0, power |-> 0, l2norm |-> 0,
           dbSize |-> 0, references |-> FALSE]

Features == {"power", "times", "l2norm"}
Tables   == {"key", "track", "data", "times", "power", "l2norm"}

(* Each table ends where the next one begins. *)
TableEnd(table) ==
  CASE table = "key"    -> db.track
    [] table = "track"  -> db.data
    [] table = "data"   -> db.times
    [] table = "times"  -> db.power
    [] table = "power"  -> db.l2norm
    [] table = "l2norm" -> db.dbSize

AlignPageUp(x) == ((x + PageSize - 1) \div PageSize) * PageSize

OrDefault(x, default) == IF x = 0 THEN default ELSE x

(* `size' bytes at position `at' of a table. *)
Extent(table, at, size) ==
  [table |-> table, from |-> db[table] + at, to |-> db[table] + at + size]

-----------------------------------------------------------------------------
Init ==
  /\ db = NoFile
  /\ length = 0 /\ numFiles = 0 /\ dim = 0
  /\ features = {}
  /\ wrote = {}

(* The offsets audiodb_create computes.  ADB_FILETABLE_ENTRY_SIZE * ntracks *)
(* is an unsigned product, the one for the track table a size_t one.        *)
Geometry(datasize, ntracks, datadim) ==
  LET keyBytes == (KeyEntry * ntracks) % Word
      key      == AlignPageUp(PageSize)         \* the header fits in one page
      track    == AlignPageUp(key + keyBytes)
      data     == AlignPageUp(track + TrackEntry * ntracks)
      databytes == datasize * DataUnit
      auxbytes == databytes \div datadim
      references == ntracks >= LargeTracks \/ datasize >= LargeSize
      times    == AlignPageUp(data + IF references THEN keyBytes ELSE databytes)
      power    == AlignPageUp(times + IF references THEN keyBytes ELSE 2 * auxbytes)
      l2norm   == AlignPageUp(power + IF references THEN keyBytes ELSE auxbytes)
      dbSize   == IF references THEN l2norm ELSE AlignPageUp(l2norm + auxbytes)
  IN  [key |-> key, track |-> track, data |-> data, times |-> times, power |-> power,
       l2norm |-> l2norm, dbSize |-> dbSize, references |-> references]

(* audiodb_create, and the flags the client sets while the file is empty. *)
Create(datasize, ntracks, datadim, stored) ==
  /\ db = NoFile
  /\ db' = Geometry(OrDefault(datasize, DefaultSize), OrDefault(ntracks, DefaultTracks),
                    OrDefault(datadim, DefaultDim))
  /\ features' = stored
  /\ UNCHANGED <<length, numFiles, dim, wrote>>

-----------------------------------------------------------------------------
(* Mutant: the space the earlier tracks take is forgotten. *)
SpaceForDatumAlone(size) == db.references \/ db.times > db.data + size

EnoughDataSpaceFree(size) == db.references \/ db.times > db.data + length + size

(* maxfiles: the smallest number of entries any per-track table has room for. *)
EnoughPerFileSpaceFree ==
  /\ numFiles < (db.track - db.key) \div KeyEntry
  /\ numFiles < (db.data - db.track) \div TrackEntry
  /\ db.references =>
       /\ numFiles < (db.times - db.data) \div KeyEntry
       /\ numFiles < (db.power - db.times) \div KeyEntry
       /\ numFiles < (db.dbSize - db.power) \div KeyEntry

(* Steps 6 and 7 of an insert of n vectors of dimension d. *)
Insert(n, d, keyLength, pathLength) ==
  LET size == Double * n * d
      vector == length \div d
  IN  /\ db # NoFile
      /\ EnoughDataSpaceFree(size) /\ EnoughPerFileSpaceFree
      /\ dim \in {0, d}
      /\ wrote' =
           {Extent("key", numFiles * KeyEntry, keyLength),
            Extent("track", numFiles * TrackEntry, TrackEntry)} \cup
           (IF db.references
            THEN {Extent(table, numFiles * KeyEntry, pathLength) :
                    table \in {"data"} \cup (features \ {"l2norm"})}
            ELSE {Extent("data", length, size)} \cup
                 {Extent(table, vector, Double * n) : table \in features \ {"times"}} \cup
                 {Extent(table, vector * 2, Double * n * 2) : table \in features \cap {"times"}})
      /\ length' = length + size
      /\ numFiles' = numFiles + 1
      /\ dim' = d
      /\ UNCHANGED <<db, features>>

(* audiodb_l2norm over data already there. *)
L2norm ==
  /\ db # NoFile
  /\ "l2norm" \notin features
  /\ features' = features \cup {"l2norm"}
  /\ IF ~db.references /\ length > 0
     THEN wrote' = {Extent("l2norm", 0, length \div dim)}
     ELSE wrote' = {}
  /\ UNCHANGED <<db, length, numFiles, dim>>

(* The sizes audiodb_dump asks for in restore.sh, and the file that         *)
(* audiodb_create makes of them.  Of a file of references they are sizes   *)
(* of other things, its l2norm table is empty, and the script is not one   *)
(* to restore it.                                                          *)
CeilDiv(a, b) == (a + b - 1) \div b

(* Mutant: the tracks are counted in the track table. *)
TracksOfTrackTable == (db.data - db.track) \div TrackEntry

RestoredTracks == (db.track - db.key) \div KeyEntry

RestoredGeometry ==
  Geometry(OrDefault((db.times - db.data) \div DataUnit, DefaultSize),
           OrDefault(RestoredTracks, DefaultTracks),
           OrDefault(CeilDiv(db.times - db.data, db.dbSize - db.l2norm), DefaultDim))

Next ==
  \/ \E datasize \in DataSizes, ntracks \in TrackCounts, datadim \in DataDims,
        stored \in SUBSET Features : Create(datasize, ntracks, datadim, stored)
  \/ \E n \in VectorCounts, d \in Dims, keyLength \in KeyLengths, pathLength \in PathLengths :
        Insert(n, d, keyLength, pathLength)
  \/ L2norm

Spec == Init /\ [][Next]_vars

-----------------------------------------------------------------------------
(* Everything is a number, the features are the ones the flags name, and   *)
(* the file never counts more tracks than its key table has entries.       *)
TypeOK ==
  /\ db \in [key : Nat, track : Nat, data : Nat, times : Nat, power : Nat, l2norm : Nat,
             dbSize : Nat, references : BOOLEAN]
  /\ length \in Nat /\ numFiles \in Nat /\ dim \in Nat
  /\ numFiles <= (db.track - db.key) \div KeyEntry
  /\ features \subseteq Features

(* Whatever insert and l2norm write to a table stays inside that table: no *)
(* insert that passed the space checks overwrites a later table or falls   *)
(* off the end of the file.                                                *)
WritesInsideTables ==
  \A x \in wrote : db[x.table] <= x.from /\ x.to <= TableEnd(x.table)

(* The conditions under which the rounding of the dump does no harm: the   *)
(* key table of the largest file with vectors fills its pages (as it does  *)
(* for pages of 4096 bytes, not for those of 65536), its size does not     *)
(* wrap, and no vector is longer than a page has bytes.                    *)
RoundsWell ==
  /\ ((LargeTracks - 1) * KeyEntry) % PageSize = 0
  /\ LargeTracks * KeyEntry <= Word
  /\ DefaultDim <= PageSize /\ \A datadim \in DataDims : datadim <= PageSize

(* The file restore.sh creates for a database with vectors of its own is   *)
(* one with vectors of its own too, and none of its tables is smaller than *)
(* the one dumped: whatever was in the database can be inserted again.     *)
RestoredHasRoom ==
  RoundsWell /\ ~ db.references /\ db.l2norm < db.dbSize =>
    LET new == RestoredGeometry
    IN  /\ ~ new.references
        /\ new.track - new.key >= db.track - db.key
        /\ new.data - new.track >= db.data - db.track
        /\ new.times - new.data = db.times - db.data
        /\ new.power - new.times >= db.power - db.times
        /\ new.l2norm - new.power >= db.l2norm - db.power
        /\ new.dbSize - new.l2norm >= db.dbSize - db.l2norm
=============================================================================
