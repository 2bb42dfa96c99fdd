---------------------------- MODULE LayoutProofs ----------------------------
(***************************************************************************)
(* The layout of a database file is sound for every page size, every size  *)
(* audiodb_create is asked for and every sequence of inserts, provided     *)
(* that no datum has fewer dimensions than the file was created for and    *)
(* that keys and file names fit their 256-byte entries.                    *)
(***************************************************************************)
EXTENDS Layout, TLAPS

(* What integer division means, in the form the other lemmas use it. *)
LEMMA Division ==
  ASSUME NEW a \in Nat, NEW k \in Nat \ {0}
  PROVE  /\ a \div k \in Nat
         /\ k * (a \div k) <= a
         /\ a < k * (a \div k) + k
OBVIOUS

LEMMA ProductsOrdered ==
  ASSUME NEW x \in Nat, NEW y \in Nat, NEW k \in Nat, x <= y
  PROVE  k * x \in Nat /\ k * x <= k * y
OBVIOUS

LEMMA DivisionExact ==
  ASSUME NEW q \in Nat, NEW k \in Nat \ {0}, NEW r \in Nat, r < k
  PROVE  (q * k + r) \div k = q
OBVIOUS

(* A multiple of k below a is at most a \div k of them. *)
LEMMA Fits ==
  ASSUME NEW a \in Nat, NEW k \in Nat \ {0}, NEW x \in Nat, k * x <= a
  PROVE  x <= a \div k
<1>1. PICK q \in Nat : q = a \div k /\ a < k * q + k
  BY Division
<1>2. CASE q + 1 <= x
  <2>1. k * (q + 1) <= k * x
    BY <1>2, ProductsOrdered
  <2> QED
    BY <1>1, <2>1
<1> QED
  BY <1>1, <1>2

LEMMA AlignUp ==
  ASSUME NEW x \in Nat
  PROVE  /\ AlignPageUp(x) \in Nat /\ x <= AlignPageUp(x)
         /\ \E q \in Nat : AlignPageUp(x) = q * PageSize
<1>1. PageSize \in Nat \ {0} /\ x + PageSize - 1 \in Nat
  BY UnitsAssumption
<1>2. PICK q \in Nat : q = (x + PageSize - 1) \div PageSize
                       /\ x + PageSize - 1 < PageSize * q + PageSize
  BY <1>1, Division
<1>3. AlignPageUp(x) = PageSize * q
  BY <1>1, <1>2 DEF AlignPageUp
<1> QED
  BY <1>1, <1>2, <1>3

LEMMA AlignedUp ==
  ASSUME NEW q \in Nat
  PROVE  AlignPageUp(q * PageSize) = q * PageSize
<1>1. PageSize \in Nat \ {0} /\ PageSize - 1 \in Nat
  BY UnitsAssumption
<1>2. (q * PageSize + (PageSize - 1)) \div PageSize = q
  BY <1>1, DivisionExact
<1>3. q * PageSize + PageSize - 1 = q * PageSize + (PageSize - 1)
  BY <1>1
<1> QED
  BY <1>2, <1>3 DEF AlignPageUp

-----------------------------------------------------------------------------
(* The conditions under which the layout is sound. *)
Sized ==
  /\ \A d \in Dims, datadim \in DataDims : OrDefault(datadim, DefaultDim) <= d
  /\ \A x \in KeyLengths \cup PathLengths : x <= KeyEntry

(* The shape audiodb_create gives the file: tables in order, the data      *)
(* table exactly `bytes' long, the others as long as that many bytes of    *)
(* vectors of dimension dd need.                                           *)
Shape(bytes, dd) ==
  /\ db \in [key : Nat, track : Nat, data : Nat, times : Nat, power : Nat, l2norm : Nat,
             dbSize : Nat, references : BOOLEAN]
  /\ db.key <= db.track /\ db.track <= db.data /\ db.data <= db.times
  /\ db.times <= db.power /\ db.power <= db.l2norm /\ db.l2norm <= db.dbSize
  /\ db.references => db.dbSize = db.l2norm
  /\ ~db.references =>
       /\ db.times = db.data + bytes
       /\ db.times + 2 * (bytes \div dd) <= db.power
       /\ db.power + bytes \div dd <= db.l2norm
       /\ db.l2norm + bytes \div dd <= db.dbSize

Shaped ==
  \E bytes \in Nat, dd \in Nat \ {0} : Shape(bytes, dd) /\ \A d \in Dims : dd <= d

(* The data inserted so far are whole vectors and do not fill their table. *)
WholeVectors ==
  /\ length > 0 => dim \in Dims
  /\ \E count \in Nat : length = Double * (dim * count)
  /\ ~db.references => length <= db.times - db.data

LayoutInv ==
  /\ TypeOK
  /\ db = NoFile => length = 0 /\ numFiles = 0 /\ wrote = {} /\ dim = 0
  /\ db # NoFile => Shaped /\ WholeVectors
  /\ WritesInsideTables

LEMMA GeometryShape ==
  ASSUME NEW datasize \in Nat, NEW ntracks \in Nat, NEW dd \in Nat \ {0},
         db' = Geometry(datasize, ntracks, dd)
  PROVE  Shape(datasize * DataUnit, dd)'
<1> DEFINE keyBytes == (KeyEntry * ntracks) % Word
           trackBytes == TrackEntry * ntracks
           bytes == datasize * DataUnit
           aux == bytes \div dd
<1>1. keyBytes \in Nat /\ trackBytes \in Nat /\ bytes \in Nat /\ aux \in Nat
  BY Division, UnitsAssumption
<1>2. /\ db'.key = AlignPageUp(PageSize)
      /\ db'.track = AlignPageUp(db'.key + keyBytes)
      /\ db'.data = AlignPageUp(db'.track + trackBytes)
      /\ db'.references \in BOOLEAN
  BY DEF Geometry
<1>3. db' \in [key : {db'.key}, track : {db'.track}, data : {db'.data}, times : {db'.times},
               power : {db'.power}, l2norm : {db'.l2norm}, dbSize : {db'.dbSize},
               references : BOOLEAN]
  BY DEF Geometry
<1>4. CASE db'.references
  <2>1. /\ db'.times = AlignPageUp(db'.data + keyBytes)
        /\ db'.power = AlignPageUp(db'.times + keyBytes)
        /\ db'.l2norm = AlignPageUp(db'.power + keyBytes)
        /\ db'.dbSize = db'.l2norm
    BY <1>4 DEF Geometry
  <2> HIDE DEF keyBytes, trackBytes
  <2>2. /\ db'.key \in Nat /\ db'.track \in Nat /\ db'.key <= db'.track
        /\ db'.data \in Nat /\ db'.track <= db'.data
    BY <1>1, <1>2, AlignUp, UnitsAssumption
  <2>3. /\ db'.times \in Nat /\ db'.data <= db'.times
        /\ db'.power \in Nat /\ db'.times <= db'.power
        /\ db'.l2norm \in Nat /\ db'.power <= db'.l2norm
    BY <1>1, <2>1, <2>2, AlignUp
  <2> QED
    BY <1>3, <1>4, <2>1, <2>2, <2>3 DEF Shape
<1>5. CASE ~db'.references
  <2>1. /\ db'.times = AlignPageUp(db'.data + bytes)
        /\ db'.power = AlignPageUp(db'.times + 2 * aux)
        /\ db'.l2norm = AlignPageUp(db'.power + aux)
        /\ db'.dbSize = AlignPageUp(db'.l2norm + aux)
    BY <1>5 DEF Geometry
  <2>2. PICK pages \in Nat : bytes = pages * PageSize
    <3>1. DataUnit = PageSize * (DataUnit \div PageSize)
      BY PagesAssumption, UnitsAssumption
    <3>2. PICK unit \in Nat : DataUnit = PageSize * unit
      BY <3>1, Division, UnitsAssumption
    <3>3. bytes = (datasize * unit) * PageSize /\ datasize * unit \in Nat
      BY <3>2, UnitsAssumption
    <3> QED
      BY <3>3
  <2> HIDE DEF keyBytes, trackBytes, bytes, aux
  <2>3. /\ db'.key \in Nat /\ db'.track \in Nat /\ db'.key <= db'.track
        /\ db'.data \in Nat /\ db'.track <= db'.data
    BY <1>1, <1>2, AlignUp, UnitsAssumption
  <2>4. PICK q \in Nat : db'.data = q * PageSize
    BY <1>1, <1>2, <2>3, AlignUp
  <2>5. db'.times = db'.data + bytes
    <3>1. db'.data + bytes = (q + pages) * PageSize /\ q + pages \in Nat
      BY <2>2, <2>4, UnitsAssumption
    <3> QED
      BY <2>1, <3>1, AlignedUp
  <2>6. db'.times \in Nat /\ db'.data <= db'.times
    BY <1>1, <2>3, <2>5
  <2>7. db'.power \in Nat /\ db'.times + 2 * aux <= db'.power
    BY <1>1, <2>1, <2>6, AlignUp
  <2>8. db'.l2norm \in Nat /\ db'.power + aux <= db'.l2norm
    BY <1>1, <2>1, <2>7, AlignUp
  <2>9. db'.dbSize \in Nat /\ db'.l2norm + aux <= db'.dbSize
    BY <1>1, <2>1, <2>8, AlignUp
  <2>10. db'.times <= db'.power /\ db'.power <= db'.l2norm /\ db'.l2norm <= db'.dbSize
    BY <1>1, <2>6, <2>7, <2>8, <2>9
  <2> QED
    BY <1>3, <1>5, <2>3, <2>5, <2>6, <2>7, <2>8, <2>9, <2>10 DEF Shape, bytes, aux
<1> QED
  BY <1>2, <1>4, <1>5

(* `count' vectors of dimension d that fit the data table leave room for   *)
(* their norms, powers and pairs of times in the tables sized by dd <= d.  *)
LEMMA FeaturesFit ==
  ASSUME NEW bytes \in Nat, NEW dd \in Nat \ {0}, NEW d \in Nat, dd <= d,
         NEW count \in Nat, Double * (d * count) <= bytes
  PROVE  Double * count <= bytes \div dd
<1> USE UnitsAssumption
<1>1. Double * count \in Nat /\ d * count \in Nat /\ dd * count \in Nat
  OBVIOUS
<1>2. dd * count <= d * count
  OBVIOUS
<1>3. Double * (dd * count) <= Double * (d * count)
  BY <1>1, <1>2, ProductsOrdered
<1>4. dd * (Double * count) = Double * (dd * count)
  OBVIOUS
<1>5. dd * (Double * count) <= bytes
  BY <1>1, <1>3, <1>4
<1> QED
  BY <1>1, <1>5, Fits

(* An entry of at most k bytes in one of the slots the space check allows. *)
LEMMA SlotFits ==
  ASSUME NEW a \in Nat, NEW k \in Nat \ {0}, NEW s \in Nat, s < a \div k,
         NEW x \in Nat, x <= k
  PROVE  s * k + x <= a
<1>1. PICK q \in Nat : q = a \div k /\ k * q <= a
  BY Division
<1>2. k * (s + 1) <= k * q
  BY <1>1, ProductsOrdered
<1>3. k * (s + 1) = s * k + k /\ s * k \in Nat /\ k * q \in Nat
  BY <1>1
<1> QED
  BY <1>1, <1>2, <1>3

-----------------------------------------------------------------------------
(* The arithmetic of one insert: `count' vectors were there before. *)
LEMMA InsertedVectors ==
  ASSUME TypeOK, WholeVectors, NEW n \in VectorCounts, NEW d \in Dims, dim \in {0, d}
  PROVE  \E count \in Nat :
           /\ length = Double * (d * count)
           /\ length \div d = Double * count
           /\ length + Double * n * d = Double * (d * (count + n))
<1> USE UnitsAssumption
<1>1. n \in Nat /\ d \in Nat \ {0} /\ dim \in Nat /\ length \in Nat
  BY InputsAssumption DEF TypeOK
<1>2. PICK count \in Nat : length = Double * (d * count)
  <2>1. PICK c \in Nat : length = Double * (dim * c)
    BY DEF WholeVectors
  <2>2. CASE dim = 0
    <3>1. length = Double * (d * 0)
      BY <1>1, <2>1, <2>2
    <3> QED
      BY <3>1
  <2> QED
    BY <2>1, <2>2
<1>3. length = (Double * count) * d + 0 /\ Double * count \in Nat
  BY <1>1, <1>2
<1>4. length \div d = Double * count
  BY <1>1, <1>3, DivisionExact
<1>5. length + Double * n * d = Double * (d * (count + n))
  BY <1>1, <1>2
<1> QED
  BY <1>2, <1>4, <1>5

LEMMA InsertInv ==
  ASSUME Sized, LayoutInv, NEW n \in VectorCounts, NEW d \in Dims,
         NEW keyLength \in KeyLengths, NEW pathLength \in PathLengths,
         Insert(n, d, keyLength, pathLength)
  PROVE  LayoutInv'
<1> USE UnitsAssumption
<1> DEFINE size == Double * n * d
           vector == length \div d
<1>1. /\ n \in Nat /\ d \in Nat \ {0} /\ keyLength \in Nat /\ pathLength \in Nat
      /\ keyLength <= KeyEntry /\ pathLength <= KeyEntry
  BY InputsAssumption DEF Sized
<1>2. /\ db # NoFile /\ UNCHANGED <<db, features>>
      /\ EnoughDataSpaceFree(size) /\ EnoughPerFileSpaceFree /\ dim \in {0, d}
      /\ length' = length + size /\ numFiles' = numFiles + 1 /\ dim' = d
  BY DEF Insert
<1>3. TypeOK /\ Shaped /\ WholeVectors
  BY <1>2 DEF LayoutInv
<1>4. PICK count \in Nat : /\ length = Double * (d * count)
                           /\ vector = Double * count
                           /\ length + size = Double * (d * (count + n))
  BY <1>2, <1>3, InsertedVectors
<1>5. PICK bytes \in Nat, dd \in Nat \ {0} : Shape(bytes, dd) /\ dd <= d
  BY <1>3 DEF Shaped
<1>6. length \in Nat /\ size \in Nat /\ vector \in Nat /\ count + n \in Nat /\ numFiles \in Nat
  BY <1>1, <1>3, <1>4 DEF TypeOK
<1>7. /\ db.key \in Nat /\ db.track \in Nat /\ db.data \in Nat /\ db.times \in Nat
      /\ db.power \in Nat /\ db.l2norm \in Nat /\ db.dbSize \in Nat
      /\ db.references \in BOOLEAN
      /\ db.key <= db.track /\ db.track <= db.data /\ db.data <= db.times
      /\ db.times <= db.power /\ db.power <= db.l2norm /\ db.l2norm <= db.dbSize
  BY <1>5 DEF Shape
<1> HIDE DEF size, vector
<1>8. TypeOK'
  <2>1. (db.track - db.key) \div KeyEntry \in Nat
    <3>1. db.track - db.key \in Nat
      BY <1>7
    <3> QED
      BY <3>1, Division
  <2>2. numFiles' <= (db'.track - db'.key) \div KeyEntry
    BY <1>2, <1>6, <2>1 DEF EnoughPerFileSpaceFree
  <2> QED
    BY <1>1, <1>2, <1>3, <1>6, <2>2 DEF TypeOK
<1>9. Shaped'
  BY <1>2, <1>3 DEF Shaped, Shape
<1>10. ~db.references => length + size <= db.times - db.data
  BY <1>2, <1>6, <1>7 DEF EnoughDataSpaceFree
<1>11. WholeVectors'
  <2>1. length' = Double * (dim' * (count + n)) /\ dim' \in Dims
    BY <1>2, <1>4
  <2>2. ~db'.references => length' <= db'.times - db'.data
    BY <1>2, <1>10
  <2> QED
    BY <1>6, <2>1, <2>2 DEF WholeVectors
<1>12. WritesInsideTables'
  <2>1. SUFFICES ASSUME NEW x \in wrote'
                 PROVE  db[x.table] <= x.from /\ x.to <= TableEnd(x.table)
    BY <1>2 DEF WritesInsideTables, TableEnd
  <2>2. CASE x = Extent("key", numFiles * KeyEntry, keyLength)
    <3>1. numFiles < (db.track - db.key) \div KeyEntry /\ db.track - db.key \in Nat
      BY <1>2, <1>7 DEF EnoughPerFileSpaceFree
    <3>2. numFiles * KeyEntry + keyLength <= db.track - db.key
      BY <1>1, <1>6, <3>1, SlotFits
    <3>3. numFiles * KeyEntry \in Nat
      BY <1>6
    <3> QED
      BY <1>1, <1>7, <2>2, <3>2, <3>3 DEF Extent, TableEnd
  <2>3. CASE x = Extent("track", numFiles * TrackEntry, TrackEntry)
    <3>1. numFiles < (db.data - db.track) \div TrackEntry /\ db.data - db.track \in Nat
      BY <1>2, <1>7 DEF EnoughPerFileSpaceFree
    <3>2. numFiles * TrackEntry + TrackEntry <= db.data - db.track
      <4>1. TrackEntry \in Nat \ {0} /\ TrackEntry \in Nat /\ TrackEntry <= TrackEntry
        OBVIOUS
      <4> QED
        BY <1>6, <3>1, <4>1, SlotFits
    <3>3. numFiles * TrackEntry \in Nat
      BY <1>6
    <3> QED
      BY <1>7, <2>3, <3>2, <3>3 DEF Extent, TableEnd
  <2>4. ASSUME db.references,
               NEW table \in {"data", "times", "power"},
               x = Extent(table, numFiles * KeyEntry, pathLength)
        PROVE  db[x.table] <= x.from /\ x.to <= TableEnd(x.table)
    <3>1. /\ numFiles < (db.times - db.data) \div KeyEntry
          /\ numFiles < (db.power - db.times) \div KeyEntry
          /\ numFiles < (db.dbSize - db.power) \div KeyEntry
      BY <1>2, <2>4 DEF EnoughPerFileSpaceFree
    <3>2. db.dbSize = db.l2norm
      BY <1>5, <2>4 DEF Shape
    <3>3. /\ numFiles * KeyEntry + pathLength <= db.times - db.data
          /\ numFiles * KeyEntry + pathLength <= db.power - db.times
          /\ numFiles * KeyEntry + pathLength <= db.dbSize - db.power
      <4>1. db.times - db.data \in Nat /\ db.power - db.times \in Nat
            /\ db.dbSize - db.power \in Nat
        BY <1>7
      <4> QED
        BY <1>1, <1>6, <3>1, <4>1, SlotFits
    <3>4. numFiles * KeyEntry \in Nat
      BY <1>6
    <3> QED
      BY <1>1, <1>7, <2>4, <3>2, <3>3, <3>4 DEF Extent, TableEnd
  <2>5. ASSUME ~db.references, x = Extent("data", length, size)
        PROVE  db[x.table] <= x.from /\ x.to <= TableEnd(x.table)
    BY <1>6, <1>7, <1>10, <2>5 DEF Extent, TableEnd
  <2>6. ASSUME ~db.references,
               \/ x = Extent("power", vector, Double * n)
               \/ x = Extent("l2norm", vector, Double * n)
               \/ x = Extent("times", vector * 2, Double * n * 2)
        PROVE  db[x.table] <= x.from /\ x.to <= TableEnd(x.table)
    <3>1. /\ db.times = db.data + bytes
          /\ db.times + 2 * (bytes \div dd) <= db.power
          /\ db.power + bytes \div dd <= db.l2norm
          /\ db.l2norm + bytes \div dd <= db.dbSize
      BY <1>5, <2>6 DEF Shape
    <3>2. Double * (count + n) <= bytes \div dd
      <4>1. Double * (d * (count + n)) <= bytes
        BY <1>4, <1>6, <1>7, <1>10, <2>6, <3>1
      <4> QED
        BY <1>1, <1>5, <1>6, <4>1, FeaturesFit
    <3>3. /\ Double * count \in Nat /\ Double * n \in Nat
          /\ Double * (count + n) = Double * count + Double * n
      BY <1>1
    <3>4. bytes \div dd \in Nat
      BY Division
    <3>5. vector + Double * n <= bytes \div dd
      BY <1>4, <3>2, <3>3
    <3>6. vector * 2 + Double * n * 2 <= 2 * (bytes \div dd)
      BY <1>6, <3>3, <3>4, <3>5
    <3> QED
      BY <1>6, <1>7, <2>6, <3>1, <3>3, <3>4, <3>5, <3>6 DEF Extent, TableEnd
  <2>7. features \subseteq {"power", "times", "l2norm"}
    BY <1>3 DEF TypeOK, Features
  <2>8. CASE db.references
    <3>1. \/ x = Extent("key", numFiles * KeyEntry, keyLength)
          \/ x = Extent("track", numFiles * TrackEntry, TrackEntry)
          \/ \E table \in {"data"} \cup (features \ {"l2norm"}) :
               x = Extent(table, numFiles * KeyEntry, pathLength)
      BY <2>8 DEF Insert
    <3> QED
      BY <2>2, <2>3, <2>4, <2>7, <2>8, <3>1
  <2>9. CASE ~db.references
    <3>1. \/ x = Extent("key", numFiles * KeyEntry, keyLength)
          \/ x = Extent("track", numFiles * TrackEntry, TrackEntry)
          \/ x = Extent("data", length, size)
          \/ \E table \in features \ {"times"} : x = Extent(table, vector, Double * n)
          \/ x = Extent("times", vector * 2, Double * n * 2)
      <4> HIDE DEF Extent
      <4> QED
        BY <2>9 DEF Insert, size, vector
    <3> QED
      BY <2>2, <2>3, <2>5, <2>6, <2>7, <2>9, <3>1
  <2> QED
    BY <1>7, <2>8, <2>9
<1> QED
  BY <1>2, <1>8, <1>9, <1>11, <1>12 DEF LayoutInv

-----------------------------------------------------------------------------
LEMMA CreateInv ==
  ASSUME Sized, LayoutInv, NEW datasize \in DataSizes, NEW ntracks \in TrackCounts,
         NEW datadim \in DataDims, NEW stored \in SUBSET Features,
         Create(datasize, ntracks, datadim, stored)
  PROVE  LayoutInv'
<1> DEFINE size == OrDefault(datasize, DefaultSize)
           count == OrDefault(ntracks, DefaultTracks)
           dd == OrDefault(datadim, DefaultDim)
<1>1. size \in Nat /\ count \in Nat /\ dd \in Nat \ {0}
  BY UnitsAssumption, InputsAssumption DEF OrDefault
<1>2. /\ db = NoFile /\ db' = Geometry(size, count, dd) /\ features' = stored
      /\ UNCHANGED <<length, numFiles, dim, wrote>>
  BY DEF Create
<1>3. length = 0 /\ numFiles = 0 /\ wrote = {} /\ dim = 0
  BY <1>2 DEF LayoutInv
<1>4. \A d \in Dims : dd <= d
  BY DEF Sized
<1> HIDE DEF size, count, dd
<1>5. Shape(size * DataUnit, dd)'
  BY <1>1, <1>2, GeometryShape
<1>6. size * DataUnit \in Nat
  BY <1>1, UnitsAssumption
<1>7. Shaped'
  BY <1>1, <1>4, <1>5, <1>6 DEF Shaped, Shape
<1>8. TypeOK'
  <2>1. db'.track - db'.key \in Nat
    BY <1>5 DEF Shape
  <2>2. (db'.track - db'.key) \div KeyEntry \in Nat
    BY <2>1, Division, UnitsAssumption
  <2> QED
    BY <1>2, <1>3, <1>5, <2>2 DEF TypeOK, Shape
<1>9. WholeVectors'
  <2>1. length' = Double * (dim' * 0) /\ length' = 0
    BY <1>2, <1>3, UnitsAssumption
  <2>2. length' <= db'.times - db'.data
    BY <1>5, <2>1 DEF Shape
  <2> QED
    BY <2>1, <2>2 DEF WholeVectors
<1>10. WritesInsideTables'
  BY <1>2, <1>3 DEF WritesInsideTables
<1> QED
  BY <1>2, <1>3, <1>7, <1>8, <1>9, <1>10 DEF LayoutInv

LEMMA L2normInv ==
  ASSUME LayoutInv, L2norm
  PROVE  LayoutInv'
<1>1. /\ db # NoFile /\ UNCHANGED <<db, length, numFiles, dim>>
      /\ features' = features \cup {"l2norm"}
  BY DEF L2norm
<1>2. TypeOK /\ Shaped /\ WholeVectors
  BY <1>1 DEF LayoutInv
<1>3. TypeOK' /\ Shaped' /\ WholeVectors'
  BY <1>1, <1>2 DEF TypeOK, Features, Shaped, Shape, WholeVectors
<1>4. WritesInsideTables'
  <2>1. CASE ~db.references /\ length > 0
    <3>1. wrote' = {Extent("l2norm", 0, length \div dim)}
      BY <2>1 DEF L2norm
    <3>2. dim \in Dims /\ dim \in Nat \ {0} /\ length \in Nat
      BY <1>2, <2>1, InputsAssumption DEF WholeVectors, TypeOK
    <3>3. PICK count \in Nat : length = Double * (dim * count)
      BY <1>2 DEF WholeVectors
    <3>4. PICK bytes \in Nat, dd \in Nat \ {0} : Shape(bytes, dd) /\ dd <= dim
      BY <1>2, <3>2 DEF Shaped
    <3>5. /\ db.data \in Nat /\ db.l2norm \in Nat /\ db.dbSize \in Nat
          /\ db.times = db.data + bytes
          /\ db.l2norm + bytes \div dd <= db.dbSize
      BY <2>1, <3>4 DEF Shape
    <3>6. length <= bytes
      <4>1. length <= db.times - db.data
        BY <1>2, <2>1 DEF WholeVectors
      <4>2. db.times - db.data = bytes
        BY <3>4, <3>5
      <4> QED
        BY <4>1, <4>2
    <3>7. Double * count <= bytes \div dd
      BY <3>2, <3>3, <3>4, <3>6, FeaturesFit
    <3>8. length \div dim = Double * count
      <4>1. length = (Double * count) * dim + 0 /\ Double * count \in Nat
        BY <3>2, <3>3, UnitsAssumption
      <4> QED
        BY <3>2, <4>1, DivisionExact
    <3>9. Double * count \in Nat /\ bytes \div dd \in Nat
      BY Division, UnitsAssumption
    <3> QED
      BY <1>1, <3>1, <3>5, <3>7, <3>8, <3>9 DEF WritesInsideTables, Extent, TableEnd
  <2>2. CASE ~(~db.references /\ length > 0)
    BY <2>2 DEF L2norm, WritesInsideTables
  <2> QED
    BY <2>1, <2>2
<1> QED
  BY <1>1, <1>3, <1>4 DEF LayoutInv

(* The invariant of the layout under its conditions. *)
LEMMA LayoutInvariant ==
  ASSUME Sized
  PROVE  Spec => []LayoutInv
<1>1. Init => LayoutInv
  <2>1. (0 - 0) \div KeyEntry \in Nat
    BY Division, UnitsAssumption
  <2> QED
    BY <2>1 DEF Init, LayoutInv, TypeOK, NoFile, Features, WritesInsideTables
<1>2. LayoutInv /\ [Next]_vars => LayoutInv'
  <2> SUFFICES ASSUME LayoutInv, [Next]_vars
               PROVE  LayoutInv'
    OBVIOUS
  <2>1. ASSUME NEW datasize \in DataSizes, NEW ntracks \in TrackCounts,
               NEW datadim \in DataDims, NEW stored \in SUBSET Features,
               Create(datasize, ntracks, datadim, stored)
        PROVE  LayoutInv'
    BY <2>1, CreateInv
  <2>2. ASSUME NEW n \in VectorCounts, NEW d \in Dims, NEW keyLength \in KeyLengths,
               NEW pathLength \in PathLengths, Insert(n, d, keyLength, pathLength)
        PROVE  LayoutInv'
    BY <2>2, InsertInv
  <2>3. CASE L2norm
    BY <2>3, L2normInv
  <2>4. CASE UNCHANGED vars
    BY <2>4 DEF vars, LayoutInv, TypeOK, Shaped, Shape, WholeVectors, WritesInsideTables,
                TableEnd
  <2> QED
    BY <2>1, <2>2, <2>3, <2>4 DEF Next
<1> QED
  BY <1>1, <1>2, PTL DEF Spec

(* Every insert and every l2norm writes inside the table it means to, for  *)
(* every geometry audiodb_create can compute and every sequence of calls,  *)
(* as long as no datum has fewer dimensions than the file was created for  *)
(* and keys and file names fit their entries.                              *)
THEOREM LayoutSound ==
  ASSUME Sized
  PROVE  Spec => []WritesInsideTables
<1>1. LayoutInv => WritesInsideTables
  BY DEF LayoutInv
<1> QED
  BY <1>1, LayoutInvariant, PTL

(* The file never counts more tracks than its key table has entries        *)
(* (insert.cpp:19-46), and every variable keeps its type.                  *)
THEOREM LayoutTypes ==
  ASSUME Sized
  PROVE  Spec => []TypeOK
<1>1. LayoutInv => TypeOK
  BY DEF LayoutInv
<1> QED
  BY <1>1, LayoutInvariant, PTL

-----------------------------------------------------------------------------
(* Restoring a dump.                                                       *)

LEMMA AlignShift ==
  ASSUME NEW q \in Nat, NEW x \in Nat
  PROVE  AlignPageUp(q * PageSize + x) = q * PageSize + AlignPageUp(x)
<1>1. PageSize \in Nat \ {0} /\ x + PageSize - 1 \in Nat
  BY UnitsAssumption
<1>2. PICK a \in Nat : /\ a = (x + PageSize - 1) \div PageSize
                       /\ PageSize * a <= x + PageSize - 1
                       /\ x + PageSize - 1 < PageSize * a + PageSize
  BY <1>1, Division
<1>3. PICK r \in Nat : r = x + PageSize - 1 - PageSize * a /\ r < PageSize
  <2>1. PageSize * a \in Nat
    BY <1>1
  <2> QED
    BY <1>1, <1>2, <2>1
<1>4. q * PageSize + x + PageSize - 1 = (q + a) * PageSize + r
  BY <1>1, <1>3
<1>5. ((q + a) * PageSize + r) \div PageSize = q + a
  BY <1>1, <1>3, DivisionExact
<1>6. (q + a) * PageSize = q * PageSize + a * PageSize
  BY <1>1
<1> QED
  BY <1>2, <1>4, <1>5, <1>6 DEF AlignPageUp

LEMMA AlignMonotone ==
  ASSUME NEW x \in Nat, NEW y \in Nat, x <= y
  PROVE  AlignPageUp(x) <= AlignPageUp(y)
<1>1. PageSize \in Nat \ {0} /\ x + PageSize - 1 \in Nat /\ y + PageSize - 1 \in Nat
  BY UnitsAssumption
<1>2. PICK a \in Nat : /\ a = (x + PageSize - 1) \div PageSize
                       /\ PageSize * a <= x + PageSize - 1
  BY <1>1, Division
<1>3. PageSize * a <= y + PageSize - 1
  <2>1. PageSize * a \in Nat
    BY <1>1
  <2> QED
    BY <1>1, <1>2, <2>1
<1>4. PICK b \in Nat : b = (y + PageSize - 1) \div PageSize
  BY <1>1, Division
<1>5. a <= b
  BY <1>1, <1>3, <1>4, Fits
<1>6. PageSize * a <= PageSize * b
  BY <1>1, <1>5, ProductsOrdered
<1> QED
  BY <1>1, <1>2, <1>4, <1>6 DEF AlignPageUp

(* The tables of a file with vectors of its own, by their sizes.           *)
LEMMA GeometryParts ==
  ASSUME NEW datasize \in Nat, NEW ntracks \in Nat, NEW dd \in Nat \ {0},
         ntracks < LargeTracks, datasize < LargeSize
  PROVE  LET g == Geometry(datasize, ntracks, dd)
             aux == (datasize * DataUnit) \div dd
         IN  /\ ~ g.references
             /\ g.key \in Nat /\ g.track \in Nat /\ g.data \in Nat /\ g.times \in Nat
             /\ g.power \in Nat /\ g.l2norm \in Nat /\ g.dbSize \in Nat
             /\ g.track - g.key = AlignPageUp((KeyEntry * ntracks) % Word)
             /\ g.data - g.track = AlignPageUp(TrackEntry * ntracks)
             /\ g.times - g.data = datasize * DataUnit
             /\ g.power - g.times = AlignPageUp(2 * aux)
             /\ g.l2norm - g.power = AlignPageUp(aux)
             /\ g.dbSize - g.l2norm = AlignPageUp(aux)
<1> DEFINE g == Geometry(datasize, ntracks, dd)
           bytes == datasize * DataUnit
           aux == bytes \div dd
           keyBytes == (KeyEntry * ntracks) % Word
           trackBytes == TrackEntry * ntracks
           Paged(x) == \E q \in Nat : x = q * PageSize
<1>1. keyBytes \in Nat /\ trackBytes \in Nat /\ bytes \in Nat /\ aux \in Nat /\ 2 * aux \in Nat
  BY Division, UnitsAssumption
<1>2. ~ (ntracks >= LargeTracks \/ datasize >= LargeSize)
  BY UnitsAssumption
<1>3. /\ ~ g.references
      /\ g.key = AlignPageUp(PageSize)
      /\ g.track = AlignPageUp(g.key + keyBytes)
      /\ g.data = AlignPageUp(g.track + trackBytes)
      /\ g.times = AlignPageUp(g.data + bytes)
      /\ g.power = AlignPageUp(g.times + 2 * aux)
      /\ g.l2norm = AlignPageUp(g.power + aux)
      /\ g.dbSize = AlignPageUp(g.l2norm + aux)
  BY <1>2 DEF Geometry
<1>4. Paged(bytes)
  <2>1. DataUnit = PageSize * (DataUnit \div PageSize)
    BY PagesAssumption, UnitsAssumption
  <2>2. PICK unit \in Nat : DataUnit = PageSize * unit
    BY <2>1, Division, UnitsAssumption
  <2>3. bytes = (datasize * unit) * PageSize /\ datasize * unit \in Nat
    BY <2>2, UnitsAssumption
  <2> QED
    BY <2>3
<1> HIDE DEF g, aux, keyBytes, trackBytes
<1>5. ASSUME NEW x, Paged(x), NEW y \in Nat
      PROVE  /\ x \in Nat /\ AlignPageUp(x + y) \in Nat /\ Paged(AlignPageUp(x + y))
             /\ AlignPageUp(x + y) - x = AlignPageUp(y)
  <2>1. PICK q \in Nat : x = q * PageSize
    BY <1>5
  <2>2. x \in Nat /\ x + y \in Nat
    BY <2>1, UnitsAssumption
  <2>3. AlignPageUp(x + y) = x + AlignPageUp(y) /\ AlignPageUp(y) \in Nat
    BY <2>1, AlignShift, AlignUp
  <2>4. AlignPageUp(x + y) \in Nat /\ Paged(AlignPageUp(x + y))
    BY <2>2, AlignUp
  <2> HIDE DEF Paged
  <2> QED
    BY <2>2, <2>3, <2>4
<1>6. Paged(g.key)
  <2>1. PageSize \in Nat
    BY UnitsAssumption
  <2> QED
    BY <1>3, <2>1, AlignUp
<1>7. AlignPageUp(bytes) = bytes
  BY <1>4, AlignedUp
<1> HIDE DEF bytes, Paged
<1>8. g.key \in Nat /\ Paged(g.track) /\ g.track - g.key = AlignPageUp(keyBytes)
  BY <1>1, <1>3, <1>5, <1>6
<1>9. g.track \in Nat /\ Paged(g.data) /\ g.data - g.track = AlignPageUp(trackBytes)
  BY <1>1, <1>3, <1>5, <1>8
<1>10. g.data \in Nat /\ Paged(g.times) /\ g.times - g.data = bytes
  BY <1>1, <1>3, <1>5, <1>7, <1>9
<1>11. g.times \in Nat /\ Paged(g.power) /\ g.power - g.times = AlignPageUp(2 * aux)
  BY <1>1, <1>3, <1>5, <1>10
<1>12. g.power \in Nat /\ Paged(g.l2norm) /\ g.l2norm - g.power = AlignPageUp(aux)
  BY <1>1, <1>3, <1>5, <1>11
<1>13. g.l2norm \in Nat /\ g.dbSize \in Nat /\ g.dbSize - g.l2norm = AlignPageUp(aux)
  BY <1>1, <1>3, <1>5, <1>12
<1> QED
  BY <1>3, <1>8, <1>9, <1>10, <1>11, <1>12, <1>13 DEF g, bytes, aux, keyBytes, trackBytes

(* Entries counted in the pages of the key table: no fewer than there      *)
(* were, and still not those of a file of references.                      *)
LEMMA TracksRecovered ==
  ASSUME RoundsWell, NEW n \in Nat \ {0}, n < LargeTracks
  PROVE  LET r == AlignPageUp((KeyEntry * n) % Word) \div KeyEntry
         IN  r \in Nat /\ n <= r /\ r < LargeTracks
<1> USE UnitsAssumption
<1>1. PICK c \in Nat : c = LargeTracks - 1 /\ n <= c
  OBVIOUS
<1>2. KeyEntry * n \in Nat /\ KeyEntry * n <= KeyEntry * c /\ KeyEntry * c \in Nat
  BY <1>1, ProductsOrdered
<1>3. (KeyEntry * n) % Word = KeyEntry * n
  <2>1. KeyEntry * LargeTracks = KeyEntry * c + KeyEntry /\ LargeTracks * KeyEntry = KeyEntry * LargeTracks
    BY <1>1
  <2>2. LargeTracks * KeyEntry <= Word
    BY DEF RoundsWell
  <2>3. KeyEntry * n < Word
    BY <1>2, <2>1, <2>2
  <2> QED
    BY <1>2, <2>3
<1>4. PICK q \in Nat : KeyEntry * c = q * PageSize
  <2>1. (c * KeyEntry) % PageSize = 0 /\ c * KeyEntry = KeyEntry * c
    BY <1>1 DEF RoundsWell
  <2>2. PICK x \in Nat : x = KeyEntry * c
    BY <1>2
  <2>3. x % PageSize = 0
    BY <2>1, <2>2
  <2>4. x = PageSize * (x \div PageSize) /\ x \div PageSize \in Nat
    BY <2>3, Division
  <2> QED
    BY <2>2, <2>4
<1>5. PICK a \in Nat : a = AlignPageUp(KeyEntry * n) /\ KeyEntry * n <= a /\ a <= KeyEntry * c
  <2>1. AlignPageUp(KeyEntry * n) <= AlignPageUp(KeyEntry * c)
    BY <1>2, AlignMonotone
  <2>2. AlignPageUp(KeyEntry * c) = KeyEntry * c
    BY <1>4, AlignedUp
  <2> QED
    BY <1>2, <2>1, <2>2, AlignUp
<1>6. PICK r \in Nat : r = a \div KeyEntry /\ KeyEntry * r <= a
  BY <1>5, Division
<1>7. n <= r
  BY <1>5, <1>6, Fits
<1>8. r <= c
  <2>1. KeyEntry * r \in Nat /\ KeyEntry * r <= KeyEntry * c
    BY <1>2, <1>5, <1>6
  <2>2. ~(c + 1 <= r)
    <3> SUFFICES ASSUME c + 1 <= r PROVE FALSE
      OBVIOUS
    <3>1. KeyEntry * (c + 1) <= KeyEntry * r
      BY <1>1, <1>6, ProductsOrdered
    <3>2. KeyEntry * (c + 1) = KeyEntry * c + KeyEntry
      BY <1>1
    <3> QED
      BY <1>2, <2>1, <3>1, <3>2
  <2> QED
    BY <1>1, <1>6, <2>2
<1> QED
  BY <1>1, <1>3, <1>5, <1>6, <1>7, <1>8

(* The dimension the dump asks for is not above the one of the file, so    *)
(* the tables sized by it are not below.  The page a table is rounded up   *)
(* to hides less than one vector of at most a page of numbers.             *)
LEMMA DimensionRecovered ==
  ASSUME NEW x \in Nat \ {0}, NEW q \in Nat, x = q * PageSize,
         NEW m \in Nat \ {0}, m <= PageSize, AlignPageUp(x \div m) # 0
  PROVE  LET dd == CeilDiv(x, AlignPageUp(x \div m))
         IN  dd \in Nat \ {0} /\ x \div m <= x \div dd
<1> USE UnitsAssumption
<1>1. PICK a \in Nat : a = x \div m /\ m * a <= x /\ x < m * a + m
  BY Division
<1>2. PICK b \in Nat : b = AlignPageUp(a) /\ a <= b /\ b # 0 /\ \E p \in Nat : b = p * PageSize
  BY <1>1, AlignUp
<1>3. m * a \in Nat /\ m * b \in Nat
  BY <1>1, <1>2, ProductsOrdered
<1>4. x <= m * b
  <2>1. CASE a + 1 <= b
    <3>1. m * (a + 1) <= m * b /\ m * (a + 1) = m * a + m
      BY <1>1, <1>2, <2>1, ProductsOrdered
    <3> QED
      BY <1>1, <1>3, <3>1
  <2>2. CASE a = b
    <3>1. PICK p \in Nat : b = p * PageSize
      BY <1>2
    <3>2. PICK mp \in Nat : mp = m * p
      BY <3>1
    <3>3. m * a = PageSize * mp
      BY <2>2, <3>1, <3>2
    <3>4. ~(mp + 1 <= q)
      <4> SUFFICES ASSUME mp + 1 <= q PROVE FALSE
        OBVIOUS
      <4>1. PageSize * (mp + 1) <= PageSize * q /\ PageSize * (mp + 1) = PageSize * mp + PageSize
        BY <3>2, ProductsOrdered
      <4>2. PageSize * q = x
        OBVIOUS
      <4>3. PageSize * mp \in Nat
        BY <3>2
      <4> QED
        BY <1>1, <3>3, <4>1, <4>2, <4>3
    <3>5. q <= mp
      BY <3>2, <3>4
    <3>6. PageSize * q <= PageSize * mp /\ PageSize * q = x
      BY <3>2, <3>5, ProductsOrdered
    <3> QED
      BY <2>2, <3>3, <3>6
  <2> QED
    BY <1>1, <1>2, <2>1, <2>2
<1>5. PICK dd \in Nat : dd = (x + b - 1) \div b /\ b * dd <= x + b - 1
  <2>1. b \in Nat \ {0} /\ x + b - 1 \in Nat
    BY <1>2
  <2> QED
    BY <2>1, Division
<1>6. dd # 0
  <2>1. b * 1 <= x + b - 1 /\ x + b - 1 \in Nat /\ b \in Nat \ {0}
    BY <1>2
  <2>2. 1 <= (x + b - 1) \div b
    BY <2>1, Fits
  <2> QED
    BY <1>5, <2>2
<1>7. dd <= m
  <2>1. ~(m + 1 <= dd)
    <3> SUFFICES ASSUME m + 1 <= dd PROVE FALSE
      OBVIOUS
    <3>1. b * (m + 1) <= b * dd
      BY <1>2, <1>5, ProductsOrdered
    <3>2. b * (m + 1) = m * b + b
      BY <1>2
    <3>3. b * dd \in Nat
      BY <1>2, <1>5
    <3> QED
      BY <1>2, <1>3, <1>4, <1>5, <3>1, <3>2, <3>3
  <2> QED
    BY <1>5, <2>1
<1>8. dd * a <= x
  <2>1. a * dd <= a * m
    BY <1>1, <1>5, <1>7, ProductsOrdered
  <2>2. a * dd = dd * a /\ a * m = m * a /\ dd * a \in Nat
    BY <1>1, <1>5
  <2> QED
    BY <1>1, <1>3, <2>1, <2>2
<1>9. a <= x \div dd
  BY <1>1, <1>5, <1>6, <1>8, Fits
<1> QED
  BY <1>1, <1>2, <1>5, <1>6, <1>9 DEF CeilDiv

(* Only audiodb_create decides the layout, from arguments that are not 0.  *)
Made ==
  db = NoFile \/ \E datasize \in Nat \ {0}, ntracks \in Nat \ {0}, dd \in Nat \ {0} :
                   /\ db = Geometry(datasize, ntracks, dd)
                   /\ RoundsWell => dd <= PageSize

LEMMA MadeHasRoom ==
  ASSUME Made
  PROVE  RestoredHasRoom
<1> SUFFICES ASSUME RoundsWell, ~ db.references, db.l2norm < db.dbSize
             PROVE  LET new == RestoredGeometry
                    IN  /\ ~ new.references
                        /\ new.track - new.key >= db.track - db.key
                        /\ new.data - new.track >= db.data - db.track
                        /\ new.times - new.data = db.times - db.data
                        /\ new.power - new.times >= db.power - db.times
                        /\ new.l2norm - new.power >= db.l2norm - db.power
                        /\ new.dbSize - new.l2norm >= db.dbSize - db.l2norm
  BY DEF RestoredHasRoom
<1> USE UnitsAssumption
<1>1. PICK s \in Nat \ {0}, n \in Nat \ {0}, m \in Nat \ {0} :
        db = Geometry(s, n, m) /\ m <= PageSize
  <2>1. db # NoFile
    BY DEF NoFile
  <2> QED
    BY <2>1 DEF Made
<1>2. n < LargeTracks /\ s < LargeSize
  <2>1. Geometry(s, n, m).references = (n >= LargeTracks \/ s >= LargeSize)
    BY DEF Geometry
  <2>2. ~ (n >= LargeTracks \/ s >= LargeSize)
    BY <1>1, <2>1
  <2> QED
    BY <2>2
<1>3. PICK x \in Nat \ {0} : x = s * DataUnit /\ \E q \in Nat : x = q * PageSize
  <2>1. DataUnit = PageSize * (DataUnit \div PageSize)
    BY PagesAssumption
  <2>2. PICK unit \in Nat \ {0} : DataUnit = PageSize * unit
    BY <2>1, Division
  <2>3. s * DataUnit = (s * unit) * PageSize /\ s * unit \in Nat /\ s * DataUnit \in Nat \ {0}
    BY <2>2
  <2> QED
    BY <2>3
<1>4. PICK a \in Nat : a = x \div m
  BY Division
<1>5. /\ db.track - db.key = AlignPageUp((KeyEntry * n) % Word)
      /\ db.data - db.track = AlignPageUp(TrackEntry * n)
      /\ db.times - db.data = x
      /\ db.power - db.times = AlignPageUp(2 * a)
      /\ db.l2norm - db.power = AlignPageUp(a)
      /\ db.dbSize - db.l2norm = AlignPageUp(a)
      /\ db.l2norm \in Nat /\ db.dbSize \in Nat
  <2>1. s * DataUnit = x /\ (s * DataUnit) \div m = a
    BY <1>3, <1>4
  <2>2. s \in Nat /\ n \in Nat
    OBVIOUS
  <2>3. LET g == Geometry(s, n, m)
            aux == (s * DataUnit) \div m
        IN  /\ g.track - g.key = AlignPageUp((KeyEntry * n) % Word)
            /\ g.data - g.track = AlignPageUp(TrackEntry * n)
            /\ g.times - g.data = s * DataUnit
            /\ g.power - g.times = AlignPageUp(2 * aux)
            /\ g.l2norm - g.power = AlignPageUp(aux)
            /\ g.dbSize - g.l2norm = AlignPageUp(aux)
            /\ g.l2norm \in Nat /\ g.dbSize \in Nat
    BY <1>2, <2>2, GeometryParts
  <2> QED
    BY <1>1, <2>1, <2>3
<1>6. PICK r \in Nat \ {0} : r = RestoredTracks /\ n <= r /\ r < LargeTracks
  BY <1>2, <1>5, TracksRecovered DEF RestoredTracks
<1>7. PICK dd \in Nat \ {0} : dd = CeilDiv(x, AlignPageUp(a)) /\ a <= x \div dd
  <2>1. AlignPageUp(a) # 0
    <3>1. AlignPageUp(a) \in Nat
      BY <1>4, AlignUp
    <3> QED
      BY <1>5, <3>1
  <2> QED
    BY <1>1, <1>3, <1>4, <2>1, DimensionRecovered
<1>8. (db.times - db.data) \div DataUnit = s
  <2>1. (s * DataUnit + 0) \div DataUnit = s
    BY DivisionExact
  <2>2. s * DataUnit + 0 = db.times - db.data
    BY <1>3, <1>5
  <2> QED
    BY <2>1, <2>2
<1>9. RestoredGeometry = Geometry(s, r, dd)
  <2>1. RestoredTracks # 0 /\ s # 0 /\ dd # 0
    BY <1>6
  <2>2. CeilDiv(db.times - db.data, db.dbSize - db.l2norm) = dd
    BY <1>5, <1>7
  <2> QED
    BY <1>6, <1>8, <2>1, <2>2 DEF RestoredGeometry, OrDefault
<1>10. PICK b \in Nat : b = x \div dd /\ a <= b
  BY <1>7, Division
<1> DEFINE new == Geometry(s, r, dd)
<1>11. /\ ~ new.references
       /\ new.track - new.key = AlignPageUp((KeyEntry * r) % Word)
       /\ new.data - new.track = AlignPageUp(TrackEntry * r)
       /\ new.times - new.data = x
       /\ new.power - new.times = AlignPageUp(2 * b)
       /\ new.l2norm - new.power = AlignPageUp(b)
       /\ new.dbSize - new.l2norm = AlignPageUp(b)
  <2>1. s * DataUnit = x /\ (s * DataUnit) \div dd = b
    BY <1>3, <1>10
  <2>2. s \in Nat /\ r \in Nat
    OBVIOUS
  <2> QED
    BY <1>2, <1>6, <2>1, <2>2, GeometryParts
<1> HIDE DEF new
<1>12. (KeyEntry * n) % Word = KeyEntry * n /\ (KeyEntry * r) % Word = KeyEntry * r
  <2>1. ASSUME NEW k \in Nat, k < LargeTracks PROVE (KeyEntry * k) % Word = KeyEntry * k
    <3>1. KeyEntry * (k + 1) <= KeyEntry * LargeTracks /\ KeyEntry * (k + 1) = KeyEntry * k + KeyEntry
      BY <2>1, ProductsOrdered
    <3>2. KeyEntry * k \in Nat /\ KeyEntry * LargeTracks \in Nat
          /\ LargeTracks * KeyEntry = KeyEntry * LargeTracks
      BY <2>1
    <3>3. KeyEntry * k < Word
      BY <3>1, <3>2 DEF RoundsWell
    <3> QED
      BY <3>2, <3>3
  <2> QED
    BY <1>2, <1>6, <2>1
<1>13. /\ KeyEntry * n \in Nat /\ KeyEntry * r \in Nat /\ KeyEntry * n <= KeyEntry * r
       /\ TrackEntry * n \in Nat /\ TrackEntry * r \in Nat /\ TrackEntry * n <= TrackEntry * r
       /\ 2 * a \in Nat /\ 2 * b \in Nat /\ 2 * a <= 2 * b
  BY <1>6, <1>10, ProductsOrdered
<1>14. /\ AlignPageUp(KeyEntry * n) <= AlignPageUp(KeyEntry * r)
       /\ AlignPageUp(TrackEntry * n) <= AlignPageUp(TrackEntry * r)
       /\ AlignPageUp(2 * a) <= AlignPageUp(2 * b)
       /\ AlignPageUp(a) <= AlignPageUp(b)
  BY <1>10, <1>13, AlignMonotone
<1>15. /\ AlignPageUp(KeyEntry * n) \in Nat /\ AlignPageUp(KeyEntry * r) \in Nat
       /\ AlignPageUp(TrackEntry * n) \in Nat /\ AlignPageUp(TrackEntry * r) \in Nat
       /\ AlignPageUp(2 * a) \in Nat /\ AlignPageUp(2 * b) \in Nat
       /\ AlignPageUp(a) \in Nat /\ AlignPageUp(b) \in Nat
  BY <1>13, AlignUp
<1>16. RestoredGeometry = new
  BY <1>9 DEF new
<1> QED
  BY <1>5, <1>11, <1>12, <1>14, <1>15, <1>16

(* Whatever sizes a database with vectors was created for, and whatever    *)
(* was inserted, the file its restore.sh creates (dump.cpp:193-206) again  *)
(* holds vectors itself, and none of its tables is smaller.                *)
THEOREM RoomToRestore == Spec => []RestoredHasRoom
<1>1. Init => Made
  BY DEF Init, Made
<1>2. Made /\ [Next]_vars => Made'
  <2> SUFFICES ASSUME Made, [Next]_vars PROVE Made'
    OBVIOUS
  <2>1. ASSUME NEW datasize \in DataSizes, NEW ntracks \in TrackCounts,
               NEW datadim \in DataDims, NEW stored \in SUBSET Features,
               Create(datasize, ntracks, datadim, stored)
        PROVE  Made'
    <3>1. PICK s \in Nat \ {0}, n \in Nat \ {0}, m \in Nat \ {0} :
            /\ s = OrDefault(datasize, DefaultSize) /\ n = OrDefault(ntracks, DefaultTracks)
            /\ m = OrDefault(datadim, DefaultDim)
      <4>1. datasize \in Nat /\ ntracks \in Nat /\ datadim \in Nat
        BY InputsAssumption
      <4>2. /\ OrDefault(datasize, DefaultSize) \in Nat \ {0}
            /\ OrDefault(ntracks, DefaultTracks) \in Nat \ {0}
            /\ OrDefault(datadim, DefaultDim) \in Nat \ {0}
        BY <4>1, UnitsAssumption DEF OrDefault
      <4> QED
        BY <4>2
    <3>2. RoundsWell => m <= PageSize
      BY <3>1 DEF RoundsWell, OrDefault
    <3>3. db' = Geometry(s, n, m)
      BY <2>1, <3>1 DEF Create
    <3> QED
      BY <3>2, <3>3 DEF Made, RoundsWell
  <2>2. CASE UNCHANGED db
    BY <2>2 DEF Made
  <2>3. (\E n \in VectorCounts, d \in Dims, keyLength \in KeyLengths, pathLength \in PathLengths :
           Insert(n, d, keyLength, pathLength)) \/ L2norm \/ UNCHANGED vars => UNCHANGED db
    BY DEF Insert, L2norm, vars
  <2> QED
    BY <2>1, <2>2, <2>3 DEF Next
<1>3. Made => RestoredHasRoom
  BY MadeHasRoom
<1> QED
  BY <1>1, <1>2, <1>3, PTL DEF Spec
=============================================================================
