----------------------------- MODULE QueryProofs -----------------------------
(***************************************************************************)
(* The loops of a query stay inside the query and inside the tracks, and   *)
(* come to an end, for all databases and queries: exhaustive queries,      *)
(* indexed ones and samples.  Indexed queries add each point once, and     *)
(* their exact evaluation reads only what the tracks hold.  The sums of    *)
(* windows, formed in place, are those of the windows' own cells, and the  *)
(* answer of an exhaustive query is the best of all there is to find; an   *)
(* exact indexed query adds the same points, of the windows its index      *)
(* reported.                                                               *)
(***************************************************************************)
EXTENDS IndexedQuery, Sample, AccumulationProofs

(* Where the data of each track start, and after the last those of all end. *)
Where == Starts(NumFiles, Sizes(db))

LEMMA Tables ==
  ASSUME db \in Databases
  PROVE  /\ NumFiles \in Nat /\ db.dim \in Nat \ {0}
         /\ Where[0] = 0
         /\ \A t \in 0 .. NumFiles : Where[t] \in Nat
         /\ \A t \in 0 .. NumFiles - 1 :
              /\ TrackLength(t) \in Nat /\ TrackOffset(t) = Where[t]
              /\ Where[t + 1] = Where[t] + TrackLength(t) * db.dim
              /\ Where[t + 1] <= Where[NumFiles]
         /\ db.data \in Seq(AnyDouble) /\ Len(db.data) = Where[NumFiles]
<1>1. /\ db.dim \in Nat \ {0} /\ db.lengths \in Seq(Nat)
      /\ NumFiles = Len(db.lengths) /\ DOMAIN db.offsets = 1 .. NumFiles
      /\ \A i \in DOMAIN db.offsets : db.offsets[i] = Where[i - 1]
      /\ db.data \in Seq(AnyDouble) /\ Len(db.data) = Where[NumFiles]
  BY DatabasesAssumption DEF Where, NumFiles
<1>2. PICK d \in Nat \ {0} : d = db.dim
  BY <1>1
<1>3. PICK n \in Nat : n = NumFiles
  BY <1>1
<1>4. \A t \in 0 .. n - 1 : t + 1 \in 1 .. n
  OBVIOUS
<1>5. \A t \in 0 .. n - 1 : TrackLength(t) \in Nat /\ TrackOffset(t) = Where[t]
  <2>1. \A i \in 1 .. n : db.lengths[i] \in Nat
    BY <1>1, <1>3
  <2>2. \A t \in 0 .. n - 1 : (t + 1) - 1 = t
    OBVIOUS
  <2>3. \A t \in 0 .. n - 1 : db.offsets[t + 1] = Where[t]
    BY <1>1, <1>3, <1>4, <2>2
  <2> QED BY <1>4, <2>1, <2>3 DEF TrackLength, TrackOffset
<1>6. PICK sizes : sizes = Sizes(db)
  OBVIOUS
<1>7. \A t \in 0 .. n - 1 : sizes[t] = TrackLength(t) * d /\ sizes[t] \in Nat
  <2> SUFFICES ASSUME NEW t \in 0 .. n - 1
               PROVE  sizes[t] = TrackLength(t) * d /\ sizes[t] \in Nat
    OBVIOUS
  <2>1. PICK l \in Nat : l = TrackLength(t)
    BY <1>5
  <2>2. sizes[t] = l * d
    BY <1>1, <1>2, <1>3, <1>6, <2>1 DEF Sizes, TrackLength
  <2> QED BY <2>1, <2>2
<1>8. PICK start : start = Where
  OBVIOUS
<1>9. Accumulates(start, n, sizes)
  BY <1>3, <1>6, <1>7, <1>8, StartsAccumulate DEF Where
<1>10. \A t \in 0 .. n - 1 : start[t + 1] = start[t] + sizes[t] /\ start[t + 1] <= start[n]
  <2> SUFFICES ASSUME NEW t \in 0 .. n - 1
               PROVE  start[t + 1] = start[t] + sizes[t] /\ start[t + 1] <= start[n]
    OBVIOUS
  <2>1. start[t + 1] = start[t] + sizes[t]
    BY <1>4, <1>9 DEF Accumulates
  <2>2. start[t] + sizes[t] <= start[n]
    BY <1>7, <1>9, AccumulationMonotone
  <2> QED BY <2>1, <2>2
<1>11. start[0] = 0 /\ \A t \in 0 .. n : start[t] \in Nat
  BY <1>9 DEF Accumulates
<1>12. \A t \in 0 .. n - 1 : /\ Where[t + 1] = Where[t] + TrackLength(t) * db.dim
                            /\ Where[t + 1] <= Where[n]
  BY ONLY <1>2, <1>7, <1>8, <1>10
<1> QED BY <1>1, <1>3, <1>5, <1>8, <1>11, <1>12

LEMMA QueryTypes ==
  ASSUME query \in Queries
  PROVE  /\ query.seqlen \in Nat \ {0} /\ query.start \in Nat
         /\ \A hop \in {query.qhop, query.ihop} : Hop(hop) \in Nat \ {0}
         /\ Len(query.sofar) \in Nat /\ DOMAIN query.sofar = 1 .. Len(query.sofar)
  BY QueriesAssumption DEF Hop

LEMMA DatumTypes ==
  ASSUME db \in Databases, query \in Queries, ~ QueryUnknown
  PROVE  QueryDatum.n \in Nat
<1>1. CASE query.datum.given
  BY <1>1, QueriesAssumption DEF QueryDatum
<1>2. CASE ~ query.datum.given
  <2>1. QueryTrack \in 0 .. NumFiles - 1
    BY <1>2 DEF QueryUnknown, QueryTrack
  <2>2. QueryDatum.n = TrackLength(QueryTrack)
    BY <1>2 DEF QueryDatum
  <2> QED BY <2>1, <2>2, Tables
<1> QED BY <1>1, <1>2

LEMMA QueryFits ==
  ASSUME db \in Databases, query \in Queries, ~ QueryUnknown, ~ QueryTooLong
  PROVE  QueryCount \in Nat /\ query.seqlen <= QueryCount
<1>1. QueryDatum.n \in Nat /\ query.start + query.seqlen <= QueryDatum.n
  BY QueryTypes, DatumTypes DEF QueryTooLong
<1>2. PICK n \in Nat : n = QueryDatum.n
  BY <1>1
<1>3. query.start + query.seqlen <= n
  BY <1>1, <1>2
<1> QED BY <1>2, <1>3, QueryTypes DEF QueryCount

-----------------------------------------------------------------------------
(* The loops.  The invariant adds to WindowsInTrack that the file is where  *)
(* the next track starts whenever the loop comes to it without a gap.       *)
AtTrack ==
  /\ pc = "tracks" => track \in 0 .. NumFiles /\ filepos = Where[track]
  /\ pc = "windows" => track \in 0 .. NumFiles - 1 /\ filepos = Where[track + 1]

LoopInv ==
  /\ db \in Databases /\ query \in Queries
  /\ j \in Nat /\ k \in Nat /\ track \in Nat /\ sofar \in Nat
  /\ pc \in {"tracks", "windows"} => ~ QueryUnknown /\ ~ QueryTooLong
  /\ AtTrack /\ WindowsInTrack

LEMMA LoopInitially == Init => LoopInv
  BY DEF Init, LoopInv, AtTrack, WindowsInTrack

LEMMA TrackRead ==
  ASSUME LoopInv, NEW t \in 0 .. NumFiles - 1, ReadFrom(t) = Where[t]
  PROVE  /\ FileRead(ReadFrom(t), TrackLength(t) * db.dim)
              = SubSeq(db.data, TrackOffset(t) + 1, TrackOffset(t) + TrackLength(t) * db.dim)
         /\ ReadFrom(t) + TrackLength(t) * db.dim = Where[t + 1]
<1>0. db \in Databases /\ t \in 0 .. NumFiles
  <2>1. db \in Databases
    BY DEF LoopInv
  <2> QED BY <2>1, Tables
<1>1. PICK w \in Nat : w = Where[t]
  BY <1>0, Tables
<1>2. PICK e \in Nat : e = Where[NumFiles] /\ NumFiles \in Nat
  BY <1>0, Tables
<1>3. PICK c \in Nat : c = TrackLength(t) * db.dim
  <2>1. TrackLength(t) \in Nat /\ db.dim \in Nat
    BY <1>0, Tables
  <2> QED BY <2>1
<1>4. w + c <= e /\ Where[t + 1] = w + c /\ TrackOffset(t) = w
  BY <1>1, <1>2, <1>3, <1>0, Tables
<1>5. PICK data \in Seq(AnyDouble) : data = db.data /\ Len(data) = e
  BY <1>2, <1>0, Tables
<1>6. \A i \in 1 .. c : w + i \in DOMAIN data
  BY <1>4, <1>5
<1>7. FileRead(w, c) = [i \in 1 .. c |-> data[w + i]]
  BY <1>5, <1>6 DEF FileRead
<1>8. SubSeq(data, w + 1, w + c) = [i \in 1 .. c |-> data[w + i]]
  <2>1. SubSeq(data, w + 1, w + c) \in Seq(AnyDouble) /\ Len(SubSeq(data, w + 1, w + c)) = c
        /\ \A i \in 1 .. c : SubSeq(data, w + 1, w + c)[i] = data[w + i]
    BY <1>4, <1>5, SubSeqProperties
  <2> QED BY <2>1
<1> QED BY <1>1, <1>3, <1>4, <1>5, <1>7, <1>8

(* Nothing of the tables or of the query changes during a call.             *)
LEMMA SameTables ==
  ASSUME UNCHANGED <<db, query>>
  PROVE  /\ Where' = Where /\ NumFiles' = NumFiles /\ QueryCount' = QueryCount
         /\ QueryUnknown' <=> QueryUnknown
         /\ QueryTooLong' <=> QueryTooLong
         /\ \A t : /\ TrackLength(t)' = TrackLength(t) /\ TrackOffset(t)' = TrackOffset(t)
                   /\ Key(t)' = Key(t)
<1>1. db' = db /\ query' = query
  OBVIOUS
<1>2. Where' = Where /\ NumFiles' = NumFiles
  BY <1>1 DEF Where, NumFiles, Sizes
<1>3. \A t : /\ TrackLength(t)' = TrackLength(t) /\ TrackOffset(t)' = TrackOffset(t)
             /\ Key(t)' = Key(t)
  BY <1>1 DEF TrackLength, TrackOffset, Key
<1>4. QueryUnknown' <=> QueryUnknown
  BY <1>1 DEF QueryUnknown, Key, NumFiles
<1>5. QueryDatum'.n = QueryDatum.n
  BY <1>1 DEF QueryDatum, QueryTrack, TrackLength, Key, NumFiles
<1>6. (QueryTooLong' <=> QueryTooLong) /\ QueryCount' = QueryCount
  BY <1>1, <1>4, <1>5 DEF QueryTooLong, QueryCount, Exhaustive
<1> QED BY <1>2, <1>3, <1>4, <1>6

LEMMA NextTrackStep ==
  ASSUME LoopInv, NextTrack
  PROVE  LoopInv'
<1>1. /\ db' = db /\ query' = query /\ sofar' = sofar /\ allowed' = allowed
      /\ j' = 0 /\ k' = 0
  BY DEF NextTrack
<1>2. /\ db \in Databases /\ query \in Queries /\ track \in 0 .. NumFiles /\ filepos = Where[track]
      /\ ~ QueryUnknown /\ ~ QueryTooLong /\ sofar \in Nat
  BY DEF NextTrack, LoopInv, AtTrack
<1>3. NumFiles \in Nat /\ query.seqlen \in Nat \ {0} /\ QueryCount \in Nat /\ query.seqlen <= QueryCount
  BY <1>2, Tables, QueryTypes, QueryFits
<1>4. PICK t : t = Min(Unvisited)
  OBVIOUS
<1>5. t \in Unvisited
  <2>1. Unvisited \in SUBSET Nat /\ Unvisited # {}
    BY <1>2, <1>3 DEF NextTrack, Unvisited
  <2>2. \E x \in Unvisited : \A y \in Unvisited : x <= y
    BY <2>1, LeastNatural
  <2> QED BY <1>4, <2>2 DEF Min
<1>6. t \in 0 .. NumFiles - 1 /\ t \in Nat /\ track <= t /\ Key(t) \in allowed
  BY <1>2, <1>3, <1>5 DEF Unvisited
<1>7. ReadFrom(t) = Where[t]
  BY <1>2, <1>6, Tables DEF ReadFrom
<1>8. /\ buffer' = SubSeq(db.data, TrackOffset(t) + 1, TrackOffset(t) + TrackLength(t) * db.dim)
      /\ filepos' = Where[t + 1]
  <2>1. /\ buffer' = FileRead(ReadFrom(t), TrackLength(t) * db.dim)
        /\ filepos' = ReadFrom(t) + TrackLength(t) * db.dim
    BY <1>4 DEF NextTrack
  <2> QED BY <1>6, <1>7, <2>1, TrackRead
<1>9. \/ /\ query.seqlen <= TrackLength(t) /\ pc' = "windows" /\ track' = t
      \/ pc' = "tracks" /\ track' = t + 1
  BY <1>4 DEF NextTrack
<1>10. TrackLength(t) \in Nat
  BY <1>2, <1>6, Tables
<1>11. CASE query.seqlen <= TrackLength(t) /\ pc' = "windows" /\ track' = t
  <2>1. AtTrack'
    BY <1>1, <1>6, <1>8, <1>11, SameTables DEF AtTrack
  <2>2. /\ QueryCount' = QueryCount /\ TrackLength(t)' = TrackLength(t)
        /\ TrackOffset(t)' = TrackOffset(t) /\ Key(t)' = Key(t)
    BY <1>1, SameTables
  <2>3. 0 + query.seqlen <= QueryCount /\ 0 + query.seqlen <= TrackLength(t)
    BY <1>3, <1>10, <1>11
  <2>4. TrackLength(track)' = TrackLength(t) /\ TrackOffset(track)' = TrackOffset(t)
        /\ Key(track)' = Key(t)
    BY <1>1, <1>11 DEF TrackLength, TrackOffset, Key
  <2>5. WindowsInTrack'
    BY <1>1, <1>6, <1>8, <2>2, <2>3, <2>4 DEF WindowsInTrack
  <2> QED BY <1>1, <1>2, <1>6, <1>11, <2>1, <2>5, SameTables DEF LoopInv
<1>12. CASE pc' = "tracks" /\ track' = t + 1
  <2>1. AtTrack'
    BY <1>1, <1>3, <1>6, <1>8, <1>12, SameTables DEF AtTrack
  <2>2. WindowsInTrack'
    BY <1>12 DEF WindowsInTrack
  <2> QED BY <1>1, <1>2, <1>6, <1>12, <2>1, <2>2, SameTables DEF LoopInv
<1> QED BY <1>9, <1>11, <1>12

LEMMA WindowStep ==
  ASSUME LoopInv, Window
  PROVE  LoopInv'
<1>1. /\ db' = db /\ query' = query /\ sofar' = sofar /\ allowed' = allowed
      /\ filepos' = filepos /\ buffer' = buffer /\ pc = "windows"
  BY DEF Window
<1>2. /\ db \in Databases /\ query \in Queries /\ track \in 0 .. NumFiles - 1
      /\ filepos = Where[track + 1]
      /\ ~ QueryUnknown /\ ~ QueryTooLong /\ sofar \in Nat /\ j \in Nat /\ k \in Nat
      /\ j + query.seqlen <= QueryCount /\ k + query.seqlen <= TrackLength(track)
      /\ Key(track) \in allowed
      /\ buffer = SubSeq(db.data, TrackOffset(track) + 1,
                         TrackOffset(track) + TrackLength(track) * db.dim)
  BY <1>1 DEF LoopInv, AtTrack, WindowsInTrack
<1>3. /\ NumFiles \in Nat /\ query.seqlen \in Nat \ {0} /\ QueryCount \in Nat
      /\ TrackLength(track) \in Nat
      /\ Hop(query.qhop) \in Nat \ {0} /\ Hop(query.ihop) \in Nat \ {0}
  BY <1>2, Tables, QueryTypes, QueryFits
<1>4. \/ /\ k' = k + Hop(query.ihop) /\ k' <= TrackLength(track) - query.seqlen
         /\ j' = j /\ track' = track /\ pc' = "windows"
      \/ /\ k' = 0 /\ j' = j + Hop(query.qhop) /\ j' <= QueryCount - query.seqlen
         /\ track' = track /\ pc' = "windows"
      \/ k' = 0 /\ j' = j + Hop(query.qhop) /\ track' = track + 1 /\ pc' = "tracks"
  <2>1. PICK nextj, nextk : nextj = j + Hop(query.qhop) /\ nextk = k + Hop(query.ihop)
    OBVIOUS
  <2>2. IF nextk <= TrackLength(track) - query.seqlen
        THEN k' = nextk /\ j' = j /\ track' = track /\ pc' = pc
        ELSE /\ k' = 0 /\ j' = nextj
             /\ IF nextj <= QueryCount - query.seqlen THEN track' = track /\ pc' = pc
                ELSE track' = track + 1 /\ pc' = "tracks"
    BY <2>1 DEF Window, LastWindow
  <2>3. CASE nextk <= TrackLength(track) - query.seqlen
    BY ONLY <1>1, <2>1, <2>2, <2>3
  <2>4. CASE ~ (nextk <= TrackLength(track) - query.seqlen)
    <3>1. CASE nextj <= QueryCount - query.seqlen
      BY ONLY <1>1, <2>1, <2>2, <2>4, <3>1
    <3>2. CASE ~ (nextj <= QueryCount - query.seqlen)
      BY ONLY <1>1, <2>1, <2>2, <2>4, <3>2
    <3> QED BY <3>1, <3>2
  <2> QED BY <2>3, <2>4
<1>5. k' \in Nat /\ j' \in Nat
  <2>1. PICK q \in Nat, i \in Nat : q = Hop(query.qhop) /\ i = Hop(query.ihop)
    BY <1>3
  <2>2. (k' = k + i \/ k' = 0) /\ (j' = j \/ j' = j + q)
    BY <1>4, <2>1
  <2>3. j \in Nat /\ k \in Nat /\ q \in Nat /\ i \in Nat
    BY <1>2
  <2> QED BY ONLY <2>2, <2>3
<1>6. CASE track' = track /\ pc' = "windows"
  <2>1. j' + query.seqlen <= QueryCount /\ k' + query.seqlen <= TrackLength(track)
    <3>1. PICK w \in Nat, c \in Nat, l \in Nat, q \in Nat, i \in Nat :
            /\ w = query.seqlen /\ c = QueryCount /\ l = TrackLength(track)
            /\ q = Hop(query.qhop) /\ i = Hop(query.ihop)
      BY <1>3
    <3>2. j + w <= c /\ k + w <= l /\ j \in Nat /\ k \in Nat
      BY <1>2, <3>1
    <3>3. \/ k' = k + i /\ k' <= l - w /\ j' = j
          \/ k' = 0 /\ j' = j + q /\ j' <= c - w
      BY <1>2, <1>4, <1>6, <3>1
    <3>4. j' + w <= c /\ k' + w <= l
      BY <3>1, <3>2, <3>3
    <3> QED BY <3>1, <3>4
  <2>2. AtTrack' /\ WindowsInTrack'
    BY <1>1, <1>2, <1>6, <2>1, SameTables DEF AtTrack, WindowsInTrack
  <2> QED BY <1>1, <1>2, <1>5, <1>6, <2>2, SameTables DEF LoopInv
<1>7. CASE track' = track + 1 /\ pc' = "tracks"
  <2>1. AtTrack' /\ WindowsInTrack'
    BY <1>1, <1>2, <1>3, <1>7, SameTables DEF AtTrack, WindowsInTrack
  <2> QED BY <1>1, <1>2, <1>5, <1>7, <2>1, SameTables DEF LoopInv
<1> QED BY <1>4, <1>6, <1>7

LEMMA LoopStep == LoopInv /\ [Next]_vars => LoopInv'
<1> SUFFICES ASSUME LoopInv, [Next]_vars PROVE LoopInv'
  OBVIOUS
(* Steps before and after the loops, and steps that change nothing here.    *)
<1>1. ASSUME UNCHANGED <<db, query>>, j' \in Nat, k' \in Nat, track' \in Nat, sofar' \in Nat,
             pc' \notin {"tracks", "windows"}
      PROVE  LoopInv'
  BY <1>1 DEF LoopInv, AtTrack, WindowsInTrack
<1>2. j \in Nat /\ k \in Nat /\ track \in Nat /\ sofar \in Nat
  BY DEF LoopInv
<1>3. CASE AllowKeys
  BY <1>1, <1>2, <1>3 DEF AllowKeys, loops
<1>4. CASE AddSoFar
  BY <1>1, <1>2, <1>4 DEF AddSoFar, loops
<1>5. CASE SetUp
  <2>1. /\ db' = db /\ query' = query /\ j' = j /\ k' = k /\ sofar' = sofar
        /\ filepos' = 0 /\ track' = 0 /\ pc' = "tracks" /\ ~ QueryUnknown /\ ~ QueryTooLong
    BY <1>5 DEF SetUp, Refused
  <2>2. NumFiles \in Nat /\ Where[0] = 0
    BY Tables DEF LoopInv
  <2>3. AtTrack' /\ WindowsInTrack'
    BY <2>1, <2>2, SameTables DEF AtTrack, WindowsInTrack
  <2> QED BY <2>1, <2>3, SameTables DEF LoopInv
<1>6. CASE Refuse
  BY <1>1, <1>2, <1>6 DEF Refuse, loops
<1>7. CASE NextTrack
  BY <1>7, NextTrackStep
<1>8. CASE LastTrack
  BY <1>1, <1>2, <1>8 DEF LastTrack, loops
<1>9. CASE Window
  BY <1>9, WindowStep
<1>10. CASE Collect
  BY <1>1, <1>2, <1>10 DEF Collect, loops
<1>11. CASE UNCHANGED vars
  <2>1. UNCHANGED <<db, query, pc, sofar, allowed, filepos, track, j, k, buffer>>
    BY <1>11 DEF vars, loops
  <2> QED BY <2>1, SameTables DEF LoopInv, AtTrack, WindowsInTrack
<1> QED BY <1>3, <1>4, <1>5, <1>6, <1>7, <1>8, <1>9, <1>10, <1>11 DEF Next

(* Whatever tracks a query passes over, the doubles it has read when it     *)
(* comes to compare windows are those of the track it is at, and the        *)
(* windows lie inside that track and inside the query: no hop steps over    *)
(* the last one, and the file is where the loop takes it to be although it  *)
(* seeks only after a gap (query.cpp:552-612).                              *)
THEOREM WindowsStayInTrack == Spec => []WindowsInTrack
<1>1. LoopInv => WindowsInTrack
  BY DEF LoopInv
<1> QED BY LoopInitially, LoopStep, <1>1, PTL DEF Spec

-----------------------------------------------------------------------------
(* A query comes to an end: every step takes it further.                    *)
Stages == {"start", "sofar", "tracks", "windows", "points", "done", "refused"}

CallInv == LoopInv /\ pc \in Stages /\ IsFiniteSet(ranked)

LEMMA Rises ==
  ASSUME NEW n \in 1 .. 7, Stage'[n] > Stage[n], \A m \in 1 .. n - 1 : Stage'[m] = Stage[m]
  PROVE  Later(Stage', Stage)
<1>1. DOMAIN Stage' = 1 .. 7
  BY DEF Stage
<1> QED BY <1>1 DEF Later

(* The part of a call, the first component of Stage.                        *)
Part ==
  CASE pc = "start" -> 0 [] pc = "sofar" -> 1 [] pc \in {"tracks", "windows"} -> 2
    [] pc = "points" -> 3 [] pc \in {"done", "refused"} -> 4

LEMMA StageIs ==
  /\ Stage[1] = Part /\ Stage[2] = sofar /\ Stage[3] = track
  /\ Stage[4] = (IF pc = "windows" THEN 1 ELSE 0)
  /\ Stage[5] = j /\ Stage[6] = k /\ Stage[7] = Cardinality(ranked)
  /\ Stage'[1] = Part' /\ Stage'[2] = sofar' /\ Stage'[3] = track'
  /\ Stage'[4] = (IF pc' = "windows" THEN 1 ELSE 0)
  /\ Stage'[5] = j' /\ Stage'[6] = k' /\ Stage'[7] = Cardinality(ranked)'
  BY DEF Stage, Part

(* A step to a later part; the others stay in the part they are in.         *)
LEMMA LaterPart ==
  ASSUME \/ pc = "start" /\ pc' = "sofar"
         \/ pc = "sofar" /\ pc' \in {"tracks", "refused"}
         \/ pc = "tracks" /\ pc' = "points"
         \/ pc = "points" /\ pc' = "done"
  PROVE  Later(Stage', Stage)
<1>1. Part' > Part
  BY DEF Part
<1>2. 1 \in 1 .. 7 /\ \A m \in 1 .. 1 - 1 : Stage'[m] = Stage[m]
  OBVIOUS
<1> QED BY <1>1, <1>2, StageIs, Rises

LEMMA SamePart ==
  ASSUME \/ pc' = pc
         \/ {pc, pc'} \subseteq {"tracks", "windows"}
  PROVE  Part' = Part
  BY DEF Part

LEMMA AddsNoRank == ASSUME NEW p, AddPoint(p) PROVE ranked' = ranked
  BY DEF AddPoint, emptying

LEMMA NextTrackGoesOn ==
  ASSUME LoopInv, NextTrack
  PROVE  Later(Stage', Stage) /\ ranked' = ranked /\ pc' \in Stages
<1>1. sofar' = sofar /\ pc = "tracks" /\ ranked' = ranked
  BY DEF NextTrack, accVars, emptying
<1>2. PICK t : t = Min(Unvisited)
  OBVIOUS
<1>3. t \in Nat /\ track <= t /\ track \in Nat
  <2>1. NumFiles \in Nat /\ track \in Nat
    BY Tables DEF LoopInv
  <2>2. Unvisited \in SUBSET Nat /\ Unvisited # {}
    BY <2>1 DEF NextTrack, Unvisited
  <2>3. \E x \in Unvisited : \A y \in Unvisited : x <= y
    BY <2>2, LeastNatural
  <2>4. t \in Unvisited
    BY <1>2, <2>3 DEF Min
  <2> QED BY <2>1, <2>4 DEF Unvisited
<1>4. \/ pc' = "windows" /\ track' = t
      \/ pc' = "tracks" /\ track' = t + 1
  BY <1>2 DEF NextTrack
<1>5. Part' = Part
  BY <1>1, <1>4, SamePart
<1>6. CASE track' > track
  <2>1. 3 \in 1 .. 7 /\ Stage'[3] > Stage[3]
    BY <1>6, StageIs
  <2>2. \A m \in 1 .. 3 - 1 : Stage'[m] = Stage[m]
    BY <1>1, <1>5, StageIs
  <2> QED BY <1>1, <1>4, <2>1, <2>2, Rises DEF Stages
<1>7. CASE track' = track /\ pc' = "windows"
  <2>1. 4 \in 1 .. 7 /\ Stage'[4] > Stage[4]
    BY <1>1, <1>7, StageIs
  <2>2. \A m \in 1 .. 4 - 1 : Stage'[m] = Stage[m]
    BY <1>1, <1>5, <1>7, StageIs
  <2> QED BY <1>1, <1>4, <2>1, <2>2, Rises DEF Stages
<1> QED BY <1>3, <1>4, <1>6, <1>7

LEMMA WindowGoesOn ==
  ASSUME LoopInv, Window
  PROVE  Later(Stage', Stage) /\ ranked' = ranked /\ pc' \in Stages
<1>1. sofar' = sofar /\ pc = "windows"
  BY DEF Window
<1>2. ranked' = ranked
  BY AddsNoRank DEF Window, MatchWindows, accVars, emptying
<1>3. \/ k' = k + Hop(query.ihop) /\ j' = j /\ track' = track /\ pc' = "windows"
      \/ j' = j + Hop(query.qhop) /\ track' = track /\ pc' = "windows"
      \/ track' = track + 1 /\ pc' = "tracks"
  BY <1>1 DEF Window
<1>4. j \in Nat /\ k \in Nat /\ track \in Nat /\ query \in Queries
  BY DEF LoopInv
<1>5. PICK q \in Nat \ {0}, i \in Nat \ {0} : q = Hop(query.qhop) /\ i = Hop(query.ihop)
  BY <1>4, QueryTypes
<1>6. Part' = Part /\ pc' \in Stages
  BY <1>1, <1>3, SamePart DEF Stages
<1>7. CASE k' = k + i /\ j' = j /\ track' = track /\ pc' = "windows"
  <2>1. 6 \in 1 .. 7 /\ Stage'[6] > Stage[6]
    BY <1>4, <1>5, <1>7, StageIs
  <2>2. \A m \in 1 .. 6 - 1 : Stage'[m] = Stage[m]
    BY <1>1, <1>6, <1>7, StageIs
  <2> QED BY <1>2, <1>6, <2>1, <2>2, Rises
<1>8. CASE j' = j + q /\ track' = track /\ pc' = "windows"
  <2>1. 5 \in 1 .. 7 /\ Stage'[5] > Stage[5]
    BY <1>4, <1>5, <1>8, StageIs
  <2>2. \A m \in 1 .. 5 - 1 : Stage'[m] = Stage[m]
    BY <1>1, <1>6, <1>8, StageIs
  <2> QED BY <1>2, <1>6, <2>1, <2>2, Rises
<1>9. CASE track' = track + 1
  <2>1. 3 \in 1 .. 7 /\ Stage'[3] > Stage[3]
    BY <1>4, <1>9, StageIs
  <2>2. \A m \in 1 .. 3 - 1 : Stage'[m] = Stage[m]
    BY <1>1, <1>6, StageIs
  <2> QED BY <1>2, <1>6, <2>1, <2>2, Rises
<1> QED BY <1>3, <1>5, <1>7, <1>8, <1>9

LEMMA CollectGoesOn ==
  ASSUME LoopInv, IsFiniteSet(ranked), Collect
  PROVE  Later(Stage', Stage) /\ IsFiniteSet(ranked') /\ pc' \in Stages
<1>1. pc = "points" /\ sofar' = sofar /\ track' = track /\ j' = j /\ k' = k
  BY DEF Collect, loops
<1>2. CASE RankTrack /\ UNCHANGED pc
  <2>1. PICK key : key \notin ranked /\ ranked' = ranked \cup {key}
    BY <1>2 DEF RankTrack
  <2>2. /\ IsFiniteSet(ranked \cup {key}) /\ Cardinality(ranked) \in Nat
        /\ Cardinality(ranked \cup {key}) = Cardinality(ranked) + 1
    BY <2>1, FS_AddElement, FS_CardinalityType
  <2>3. Cardinality(ranked)' = Cardinality(ranked \cup {key})
    BY <2>1
  <2>4. 7 \in 1 .. 7 /\ Stage'[7] > Stage[7]
    BY <2>2, <2>3, StageIs
  <2>5. Part' = Part
    BY <1>2, SamePart
  <2>6. \A m \in 1 .. 7 - 1 : Stage'[m] = Stage[m]
    BY <1>1, <1>2, <2>5, StageIs
  <2> QED BY <1>1, <1>2, <2>1, <2>2, <2>4, <2>6, Rises DEF Stages
<1>3. CASE GetPoints /\ pc' = "done"
  <2>1. ranked' = ranked
    BY <1>3 DEF GetPoints
  <2> QED BY <1>1, <1>3, <2>1, LaterPart DEF Stages
<1> QED BY <1>2, <1>3 DEF Collect

LEMMA CallInitially == Init => CallInv
<1> SUFFICES ASSUME Init PROVE CallInv
  OBVIOUS
<1>1. IsFiniteSet(ranked)
  BY FS_EmptySet DEF Init, AccInit
<1> QED BY <1>1, LoopInitially DEF Init, CallInv, Stages

LEMMA CallStep ==
  ASSUME CallInv, Next
  PROVE  Later(Stage', Stage) /\ IsFiniteSet(ranked') /\ pc' \in Stages
<1>1. LoopInv /\ IsFiniteSet(ranked)
  BY DEF CallInv
<1>2. CASE AllowKeys
  <2>1. pc = "start" /\ pc' = "sofar" /\ ranked' = ranked
    BY <1>2 DEF AllowKeys, accVars, emptying
  <2> QED BY <1>1, <2>1, LaterPart DEF Stages
<1>3. CASE AddSoFar
  <2>1. pc = "sofar" /\ pc' = "sofar" /\ sofar' = sofar + 1 /\ ranked' = ranked
    BY <1>3, AddsNoRank DEF AddSoFar
  <2>2. Part' = Part
    BY <2>1, SamePart
  <2>3. 2 \in 1 .. 7 /\ Stage'[2] > Stage[2]
    BY <1>1, <2>1, StageIs DEF LoopInv
  <2>4. \A m \in 1 .. 2 - 1 : Stage'[m] = Stage[m]
    BY <2>2, StageIs
  <2> QED BY <1>1, <2>1, <2>3, <2>4, Rises DEF Stages
<1>4. CASE SetUp
  <2>1. pc = "sofar" /\ pc' = "tracks" /\ ranked' = ranked
    BY <1>4 DEF SetUp, accVars, emptying
  <2> QED BY <1>1, <2>1, LaterPart DEF Stages
<1>5. CASE Refuse
  <2>1. pc = "sofar" /\ pc' = "refused" /\ ranked' = ranked
    BY <1>5 DEF Refuse, accVars, emptying
  <2> QED BY <1>1, <2>1, LaterPart DEF Stages
<1>6. CASE NextTrack
  BY <1>1, <1>6, NextTrackGoesOn
<1>7. CASE LastTrack
  <2>1. pc = "tracks" /\ pc' = "points" /\ ranked' = ranked
    BY <1>7 DEF LastTrack, accVars, emptying
  <2> QED BY <1>1, <2>1, LaterPart DEF Stages
<1>8. CASE Window
  BY <1>1, <1>8, WindowGoesOn
<1>9. CASE Collect
  BY <1>1, <1>9, CollectGoesOn
<1> QED BY <1>2, <1>3, <1>4, <1>5, <1>6, <1>7, <1>8, <1>9 DEF Next

(* Every step of an exhaustive query takes it to a later pair of windows, a *)
(* later track or a later part of the call, whatever hops were asked for: a *)
(* hop size of 0 is taken as 1, and no step leads back (query.cpp:552-660). *)
THEOREM QueryGoesOn == Spec => GoesOn
<1>1. CallInv /\ [Next]_vars => CallInv' /\ [Later(Stage', Stage)]_vars
  <2> SUFFICES ASSUME CallInv, [Next]_vars PROVE CallInv' /\ [Later(Stage', Stage)]_vars
    OBVIOUS
  <2>1. LoopInv'
    BY LoopStep DEF CallInv
  <2>2. CASE Next
    BY <2>1, <2>2, CallStep DEF CallInv
  <2>3. CASE UNCHANGED vars
    <3>1. pc' = pc /\ ranked' = ranked
      BY <2>3 DEF vars, accVars, emptying
    <3> QED BY <2>1, <2>3, <3>1 DEF CallInv
  <2> QED BY <2>2, <2>3
<1> QED BY <1>1, CallInitially, PTL DEF Spec, GoesOn

-----------------------------------------------------------------------------
(* Sampling.  A number drawn on hops is a multiple of the hop, below the    *)
(* count of windows, whether or not the hop divides the count.              *)
LEMMA OnHopsBelow ==
  ASSUME NEW n \in Nat, NEW hop \in Nat \ {0}, NEW x \in OnHops(n, hop)
  PROVE  x \in Nat /\ x < n /\ \E m \in 0 .. x : x = m * hop
<1>1. PICK m \in 0 .. (n + hop - 1) \div hop - 1 : x = hop * m
  BY DEF OnHops
<1>2. PICK q \in Nat : q = (n + hop - 1) \div hop /\ q * hop <= n + hop - 1
  <2>1. n + hop - 1 \in Nat
    OBVIOUS
  <2>2. \A a \in Nat : a \div hop \in Nat /\ (a \div hop) * hop <= a
    OBVIOUS
  <2> QED BY <2>1, <2>2
<1>3. m \in Nat /\ m + 1 <= q
  BY <1>1, <1>2
<1>4. (m + 1) * hop <= q * hop
  <2>1. PICK d \in Nat : q = (m + 1) + d
    <3>1. q - (m + 1) \in Nat /\ q = (m + 1) + (q - (m + 1))
      BY <1>2, <1>3
    <3> QED BY <3>1
  <2>2. q * hop = (m + 1) * hop + d * hop /\ d * hop \in Nat
    BY <1>3, <2>1
  <2> QED BY <1>3, <2>2
<1>5. (m + 1) * hop = m * hop + hop /\ m * hop \in Nat /\ hop * m = m * hop
  BY <1>3
<1>6. m * hop < n
  BY <1>2, <1>4, <1>5
<1>7. m <= m * hop
  <2>1. hop - 1 \in Nat /\ m * hop = m * (hop - 1) + m /\ m * (hop - 1) \in Nat
    BY <1>3
  <2> QED BY <1>3, <2>1
<1> QED BY <1>1, <1>3, <1>5, <1>6, <1>7

SamplePlace ==
  pc = "measure" =>
    /\ track \in 0 .. NumFiles - 1 /\ Props(track) > 0
    /\ k \in OnHops(Props(track), HopTrack)
    /\ IF query.pairs
       THEN /\ track1 # track /\ track1 \in 0 .. NumFiles - 1 /\ Props(track1) > 0
            /\ j \in OnHops(Props(track1), HopTrack)
       ELSE j \in QueryWindows

SampleInv ==
  /\ db \in Databases /\ query \in Queries
  /\ pc \in {"draw", "measure"} /\ ~ query.pairs => ~ QueryUnknown /\ ~ QueryTooLong
  /\ SamplePlace

LEMMA PropsCount ==
  ASSUME db \in Databases, query \in Queries, NEW t \in 0 .. NumFiles - 1, Props(t) > 0
  PROVE  /\ Key(t) \in allowed /\ Props(t) \in Nat
         /\ \A x \in Nat : x < Props(t) => x + query.seqlen <= TrackLength(t)
<1>1. PICK l \in Nat, w \in Nat : l = TrackLength(t) /\ w = query.seqlen
  BY Tables, QueryTypes
<1>2. Key(t) \in allowed /\ l - w + 1 > 0 /\ Props(t) = l - w + 1
  BY <1>1 DEF Props
<1> QED BY <1>1, <1>2

LEMMA SampleInside == SampleInv => SampledInside
<1> SUFFICES ASSUME SampleInv, pc = "measure" PROVE SampledInside
  BY DEF SampledInside
<1>1. db \in Databases /\ query \in Queries /\ SamplePlace
  BY DEF SampleInv
<1>2. /\ track \in 0 .. NumFiles - 1 /\ Props(track) > 0 /\ k \in OnHops(Props(track), HopTrack)
  BY <1>1 DEF SamplePlace
<1>3. HopTrack \in Nat \ {0} /\ HopQuery \in Nat \ {0}
  BY <1>1, QueryTypes DEF HopTrack, HopQuery
<1>4. /\ Key(track) \in allowed /\ k + query.seqlen <= TrackLength(track)
      /\ OnHop(k, query.ihop)
  <2>1. k \in Nat /\ k < Props(track) /\ \E m \in 0 .. k : k = m * HopTrack
    BY <1>1, <1>2, <1>3, PropsCount, OnHopsBelow
  <2> QED BY <1>1, <1>2, <2>1, PropsCount DEF OnHop, HopTrack
<1>5. CASE query.pairs
  <2>1. /\ track1 # track /\ track1 \in 0 .. NumFiles - 1 /\ Props(track1) > 0
        /\ j \in OnHops(Props(track1), HopTrack)
    BY <1>1, <1>5 DEF SamplePlace
  <2>2. j \in Nat /\ j < Props(track1)
    BY <1>1, <1>3, <2>1, PropsCount, OnHopsBelow
  <2> QED BY <1>1, <1>4, <1>5, <2>1, <2>2, PropsCount DEF SampledInside
<1>6. CASE ~ query.pairs
  <2>1. ~ QueryUnknown /\ ~ QueryTooLong /\ j \in QueryWindows
    BY <1>1, <1>6 DEF SampleInv, SamplePlace
  <2>2. PICK n \in Nat, w \in Nat, s \in Nat :
          n = QueryDatum.n /\ w = query.seqlen /\ s = query.start
    BY <1>1, <2>1, DatumTypes, QueryTypes
  <2>3. s + w <= n
    BY <2>1, <2>2 DEF QueryTooLong
  <2>4. CASE Exhaustive
    <3>1. j \in OnHops(n - w, HopQuery) /\ n - w \in Nat
      BY <2>1, <2>2, <2>3, <2>4 DEF QueryWindows, QueryCount
    <3>2. j \in Nat /\ j < n - w
      BY <1>3, <3>1, OnHopsBelow
    <3>3. j + w <= n
      BY <2>2, <3>2
    <3> QED BY <1>4, <1>6, <2>2, <3>3 DEF SampledInside
  <2>5. CASE ~ Exhaustive
    <3>1. j = s
      BY <2>1, <2>2, <2>5 DEF QueryWindows
    <3> QED BY <1>4, <1>6, <2>2, <2>3, <3>1 DEF SampledInside
  <2> QED BY <2>4, <2>5
<1> QED BY <1>5, <1>6

LEMMA RandomTracksTyped ==
  ASSUME NEW t \in RandomTracks, t # NoTrack
  PROVE  t \in 0 .. NumFiles - 1 /\ Props(t) > 0
  BY DEF RandomTracks

LEMMA SampleStep == SampleInv /\ [SampleNext]_sampleVars => SampleInv'
<1> SUFFICES ASSUME SampleInv, [SampleNext]_sampleVars PROVE SampleInv'
  OBVIOUS
<1>1. UNCHANGED <<db, query>>
  BY DEF SampleNext, AllowKeys, Collect, RefuseSample, StartSample, DrawPair, Draw, DrawNothing,
         Measure, EnoughSamples, sampleVars, vars
<1>2. db' \in Databases /\ query' \in Queries
  BY <1>1 DEF SampleInv
(* Steps that do not come to a measurement.                                 *)
<1>3. ASSUME pc' # "measure", pc' = "draw" => ~ SampleRefused \/ pc \in {"draw", "measure"}
      PROVE  SampleInv'
  <2>1. SamplePlace'
    BY <1>3 DEF SamplePlace
  <2>2. pc' = "draw" /\ ~ query.pairs => ~ QueryUnknown /\ ~ QueryTooLong
    BY <1>3 DEF SampleInv, SampleRefused
  <2> QED BY <1>1, <1>2, <1>3, <2>1, <2>2, SameTables DEF SampleInv
<1>4. CASE AllowKeys \/ Collect \/ RefuseSample \/ StartSample \/ DrawNothing \/ Measure
           \/ EnoughSamples
  <2>1. pc' # "measure"
    BY <1>4 DEF AllowKeys, Collect, RefuseSample, StartSample, DrawNothing, Measure, EnoughSamples
  <2>2. pc' = "draw" => ~ SampleRefused \/ pc \in {"draw", "measure"}
    BY <1>4 DEF AllowKeys, Collect, RefuseSample, StartSample, DrawNothing, Measure, EnoughSamples
  <2> QED BY <1>3, <2>1, <2>2
(* The operators a draw is made with are the same afterwards.               *)
<1>5. ASSUME UNCHANGED allowed
      PROVE  /\ \A t : Props(t)' = Props(t)
             /\ HopTrack' = HopTrack /\ QueryWindows' = QueryWindows /\ NumFiles' = NumFiles
  <2>1. \A t : Props(t)' = Props(t)
    BY <1>1, <1>5 DEF Props, TrackLength, Key
  <2>2. HopTrack' = HopTrack /\ HopQuery' = HopQuery
    BY <1>1 DEF HopTrack, HopQuery, Hop
  <2> QED BY <1>1, <2>1, <2>2, SameTables DEF QueryWindows, Exhaustive
<1>6. CASE DrawPair
  <2>1. /\ pc = "draw" /\ query.pairs /\ UNCHANGED allowed
        /\ track1' \in RandomTracks /\ track' \in RandomTracks
        /\ \/ track1' = track' /\ UNCHANGED pc
           \/ /\ track1' # track' /\ j' \in OnHops(Props(track1'), HopTrack)
              /\ k' \in OnHops(Props(track'), HopTrack) /\ pc' = "measure"
    BY <1>6 DEF DrawPair
  <2>2. CASE track1' = track' /\ UNCHANGED pc
    BY <1>3, <2>1, <2>2
  <2>3. CASE /\ track1' # track' /\ j' \in OnHops(Props(track1'), HopTrack)
             /\ k' \in OnHops(Props(track'), HopTrack) /\ pc' = "measure"
    <3>1. track1' # NoTrack /\ track' # NoTrack
      BY <2>1, <2>3 DEF RandomTracks, NoTrack
    <3>2. /\ track1' \in 0 .. NumFiles - 1 /\ Props(track1') > 0
          /\ track' \in 0 .. NumFiles - 1 /\ Props(track') > 0
      BY <2>1, <3>1, RandomTracksTyped
    <3>3. SamplePlace'
      BY <1>1, <1>5, <2>1, <2>3, <3>2 DEF SamplePlace
    <3> QED BY <1>1, <1>2, <2>1, <3>3 DEF SampleInv
  <2> QED BY <2>1, <2>2, <2>3
<1>7. CASE Draw
  <2>1. /\ pc = "draw" /\ ~ query.pairs /\ ~ NothingToDraw /\ UNCHANGED allowed
        /\ track' \in RandomTracks /\ j' \in QueryWindows
        /\ k' \in OnHops(Props(track'), HopTrack) /\ pc' = "measure"
    BY <1>7 DEF Draw
  <2>2. track' # NoTrack
    BY <2>1 DEF NothingToDraw, RandomTracks, NoTrack
  <2>3. track' \in 0 .. NumFiles - 1 /\ Props(track') > 0
    BY <2>1, <2>2, RandomTracksTyped
  <2>4. SamplePlace'
    BY <1>1, <1>5, <2>1, <2>3 DEF SamplePlace
  <2>5. ~ QueryUnknown /\ ~ QueryTooLong
    BY <2>1 DEF SampleInv
  <2> QED BY <1>1, <1>2, <2>4, <2>5, SameTables DEF SampleInv
<1>8. CASE UNCHANGED sampleVars
  <2>1. UNCHANGED <<pc, allowed, track, track1, j, k>>
    BY <1>8 DEF sampleVars, vars, loops
  <2>2. SamplePlace'
    BY <1>1, <1>5, <2>1 DEF SampleInv, SamplePlace
  <2> QED BY <1>1, <1>2, <2>1, <2>2, SameTables DEF SampleInv
<1> QED BY <1>4, <1>6, <1>7, <1>8 DEF SampleNext

(* Whatever the generator draws, and whatever hops are asked for, the       *)
(* windows measured are inside an allowed track and inside the query, and   *)
(* those of a pair are of two tracks (sample.cpp:213-243): also when hops   *)
(* do not divide the count of windows, and when no track has any.           *)
THEOREM SamplesInside == SampleSpec => []SampledInside
<1>1. SampleInit => SampleInv
  BY DEF SampleInit, Init, SampleInv, SamplePlace
<1> QED BY <1>1, SampleStep, SampleInside, PTL DEF SampleSpec

-----------------------------------------------------------------------------
(* Indexed queries: what an index reports again is not added again.         *)
Triple(p) == <<p.ikey, p.qpos, p.ipos>>

EarlierTo(n) == {i \in Earlier : i <= n}

FreshOnce ==
  LET before == Cardinality(Earlier)
  IN  /\ before <= Len(offered)
      /\ \A m \in before + 1 .. Len(offered) : Triple(offered[m]) \in seen
      /\ \A m, n \in before + 1 .. Len(offered) : Triple(offered[m]) = Triple(offered[n]) => m = n

AddInv ==
  /\ query \in Queries
  /\ \E S : offered \in Seq(S)
  /\ pc = "start" => offered = <<>> /\ sofar = 0
  /\ pc \in {"start", "sofar", "index", "allocate"} => lsh = NoLsh /\ seen = {}
  /\ pc = "sofar" => sofar \in 0 .. Len(query.sofar) /\ Len(offered) = Cardinality(EarlierTo(sofar))
  /\ pc \in {"index", "allocate"} => Len(offered) = Cardinality(Earlier)
  /\ lsh # NoLsh =>
       /\ pc \in {"shingles", "retrieve", "evaluate", "points", "done", "refused", "dead"}
       /\ FreshOnce

LEMMA EarlierFinite ==
  ASSUME query \in Queries
  PROVE  /\ IsFiniteSet(Earlier) /\ Cardinality(Earlier) \in Nat
         /\ EarlierTo(Len(query.sofar)) = Earlier
         /\ Cardinality(EarlierTo(0)) = 0
         /\ \A n \in Nat : IsFiniteSet(EarlierTo(n))
<1>1. PICK l \in Nat : l = Len(query.sofar) /\ DOMAIN query.sofar = 1 .. l
  BY QueryTypes
<1>2. IsFiniteSet(1 .. l) /\ Earlier \subseteq 1 .. l
  BY <1>1, FS_Interval DEF Earlier
<1>3. IsFiniteSet(Earlier) /\ Cardinality(Earlier) \in Nat
  BY <1>2, FS_Subset, FS_CardinalityType
<1>4. EarlierTo(l) = Earlier /\ EarlierTo(0) = {}
  <2>1. \A i \in Earlier : i <= l /\ ~ (i <= 0)
    BY <1>1, <1>2
  <2> QED BY <2>1 DEF EarlierTo
<1>5. \A n \in Nat : EarlierTo(n) \subseteq Earlier
  BY DEF EarlierTo
<1> QED BY <1>1, <1>3, <1>4, <1>5, FS_Subset, FS_EmptySet

LEMMA OneMoreEarlier ==
  ASSUME query \in Queries, NEW n \in 0 .. Len(query.sofar) - 1
  PROVE  /\ Cardinality(EarlierTo(n)) \in Nat
         /\ Cardinality(EarlierTo(n + 1))
              = Cardinality(EarlierTo(n)) + (IF query.sofar[n + 1].dist # NaN THEN 1 ELSE 0)
<1>1. PICK l \in Nat : l = Len(query.sofar) /\ DOMAIN query.sofar = 1 .. l
  BY QueryTypes
<1>2. n \in Nat /\ n + 1 \in 1 .. l
  BY <1>1
<1>3. IsFiniteSet(EarlierTo(n)) /\ Cardinality(EarlierTo(n)) \in Nat
  BY <1>2, EarlierFinite, FS_CardinalityType
<1>4. \A i \in 1 .. l : i <= n + 1 <=> i <= n \/ i = n + 1
  BY <1>2
<1>5. Earlier \subseteq 1 .. l /\ (n + 1 \in Earlier <=> query.sofar[n + 1].dist # NaN)
  BY <1>1, <1>2 DEF Earlier
<1>6. CASE query.sofar[n + 1].dist # NaN
  <2>1. \A i \in Earlier : i <= n + 1 <=> i <= n \/ i = n + 1
    BY <1>4, <1>5
  <2>2. n + 1 \in Earlier /\ n + 1 <= n + 1 /\ ~ (n + 1 <= n)
    BY <1>2, <1>5, <1>6
  <2>3. EarlierTo(n + 1) = EarlierTo(n) \cup {n + 1} /\ n + 1 \notin EarlierTo(n)
    BY <2>1, <2>2 DEF EarlierTo
  <2> QED BY <1>3, <1>6, <2>3, FS_AddElement
<1>7. CASE ~ (query.sofar[n + 1].dist # NaN)
  <2>1. EarlierTo(n + 1) = EarlierTo(n)
    BY <1>2, <1>4, <1>5, <1>7 DEF EarlierTo
  <2> QED BY <1>3, <1>7, <2>1
<1> QED BY <1>6, <1>7

(* What add_point makes of the history.                                     *)
LEMMA PointAdded ==
  ASSUME NEW S, offered \in Seq(S), NEW p, AddPoint(p)
  PROVE  \/ p.dist = NaN /\ offered' = offered
         \/ /\ p.dist # NaN
            /\ offered' \in Seq(S \cup {p}) /\ Len(offered') = Len(offered) + 1
            /\ offered'[Len(offered) + 1] = p
            /\ \A i \in 1 .. Len(offered) : offered'[i] = offered[i]
<1>1. CASE p.dist = NaN
  BY <1>1 DEF AddPoint, filling
<1>2. CASE p.dist # NaN
  <2>1. offered' = Append(offered, p)
    BY <1>2 DEF AddPoint, AddNearest, AddToQueue
  <2>2. offered \in Seq(S \cup {p}) /\ p \in S \cup {p}
    OBVIOUS
  <2> QED BY <1>2, <2>1, <2>2, AppendProperties
<1> QED BY <1>1, <1>2

LEMMA AddedIfNew ==
  ASSUME query \in Queries, UNCHANGED query, NEW S, offered \in Seq(S), FreshOnce, NEW p,
         \/ UNCHANGED <<seen, offered>>
         \/ Triple(p) \notin seen /\ seen' = seen \cup {Triple(p)} /\ AddPoint(p)
  PROVE  FreshOnce' /\ \E T : offered' \in Seq(T)
<1>1. PICK e \in Nat : e = Cardinality(Earlier) /\ Cardinality(Earlier)' = e
  <2>1. Earlier' = Earlier
    BY DEF Earlier
  <2> QED BY <2>1, EarlierFinite
<1>2. PICK l \in Nat : l = Len(offered)
  OBVIOUS
<1>3. /\ e <= l /\ \A m \in e + 1 .. l : Triple(offered[m]) \in seen
      /\ \A m, n \in e + 1 .. l : Triple(offered[m]) = Triple(offered[n]) => m = n
  BY <1>1, <1>2 DEF FreshOnce
<1>4. CASE UNCHANGED <<seen, offered>>
  <2>1. Len(offered') = l
    BY <1>2, <1>4
  <2>2. FreshOnce'
    BY <1>1, <1>3, <1>4, <2>1 DEF FreshOnce, Triple
  <2> QED BY <1>4, <2>2
<1>5. CASE Triple(p) \notin seen /\ seen' = seen \cup {Triple(p)} /\ AddPoint(p)
  <2>1. CASE offered' = offered
    <3>1. Len(offered') = l
      BY <1>2, <2>1
    <3>2. FreshOnce'
      BY <1>1, <1>3, <1>5, <2>1, <3>1 DEF FreshOnce, Triple
    <3> QED BY <2>1, <3>2
  <2>2. CASE /\ offered' \in Seq(S \cup {p}) /\ Len(offered') = l + 1 /\ offered'[l + 1] = p
             /\ \A i \in 1 .. l : offered'[i] = offered[i]
    <3>1. \A m \in e + 1 .. l + 1 : m = l + 1 \/ (m \in e + 1 .. l /\ offered'[m] = offered[m])
      BY <2>2
    <3>2. \A m \in e + 1 .. l + 1 :
            \/ m = l + 1 /\ Triple(offered'[m]) = Triple(p)
            \/ m \in e + 1 .. l /\ Triple(offered'[m]) = Triple(offered[m])
      BY <2>2, <3>1
    <3>3. \A m \in e + 1 .. l + 1 : Triple(offered'[m]) \in seen'
      BY <1>3, <1>5, <3>2
    <3>4. \A m, n \in e + 1 .. l + 1 : Triple(offered'[m]) = Triple(offered'[n]) => m = n
      BY <1>3, <1>5, <3>2
    <3>5. e <= l + 1
      BY <1>3
    <3>6. FreshOnce'
      BY <1>1, <2>2, <3>3, <3>4, <3>5 DEF FreshOnce, Triple
    <3> QED BY <2>2, <3>6
  <2> QED BY <1>2, <1>5, <2>1, <2>2, PointAdded
<1> QED BY <1>4, <1>5

LEMMA SoFarAdded ==
  ASSUME AddInv, AddSoFar, UNCHANGED perCall
  PROVE  AddInv'
<1>1. /\ pc = "sofar" /\ pc' = "sofar" /\ sofar' = sofar + 1 /\ query' = query
      /\ sofar < Len(query.sofar) /\ AddPoint(query.sofar[sofar + 1])
      /\ lsh' = lsh /\ seen' = seen
  BY DEF AddSoFar, perCall
<1>2. /\ query \in Queries /\ lsh = NoLsh /\ seen = {} /\ sofar \in 0 .. Len(query.sofar)
      /\ Len(offered) = Cardinality(EarlierTo(sofar))
  BY <1>1 DEF AddInv
<1>3. sofar \in 0 .. Len(query.sofar) - 1 /\ sofar + 1 \in 0 .. Len(query.sofar)
  BY <1>1, <1>2, QueryTypes
<1>4. PICK S : offered \in Seq(S)
  BY DEF AddInv
<1>5. /\ Len(offered') = Len(offered) + (IF query.sofar[sofar + 1].dist # NaN THEN 1 ELSE 0)
      /\ \E T : offered' \in Seq(T)
  <2>1. PICK p : p = query.sofar[sofar + 1]
    OBVIOUS
  <2>2. AddPoint(p)
    BY <1>1, <2>1
  <2>3. CASE p.dist = NaN /\ offered' = offered
    BY <1>2, <1>3, <1>4, <2>1, <2>3
  <2>4. CASE p.dist # NaN /\ offered' \in Seq(S \cup {p}) /\ Len(offered') = Len(offered) + 1
    BY <2>1, <2>4
  <2> QED BY <1>4, <2>2, <2>3, <2>4, PointAdded
<1>6. EarlierTo(sofar)' = EarlierTo(sofar + 1)
  BY <1>1 DEF EarlierTo, Earlier
<1>7. Len(offered') = Cardinality(EarlierTo(sofar))'
  BY <1>2, <1>3, <1>5, <1>6, OneMoreEarlier
<1> QED BY <1>1, <1>2, <1>3, <1>5, <1>7 DEF AddInv

LEMMA NothingAdded ==
  ASSUME query \in Queries, UNCHANGED <<query, offered, seen>>
  PROVE  /\ FreshOnce' <=> FreshOnce
         /\ Cardinality(Earlier)' = Cardinality(Earlier)
         /\ \A n : Cardinality(EarlierTo(n))' = Cardinality(EarlierTo(n))
<1>1. Earlier' = Earlier
  BY DEF Earlier
<1>2. \A n : EarlierTo(n)' = EarlierTo(n)
  BY <1>1 DEF EarlierTo
<1> QED BY <1>1, <1>2 DEF FreshOnce

(* Steps that add nothing, to a place where the same is known.              *)
LEMMA QuietCall ==
  ASSUME AddInv, UNCHANGED <<query, offered, seen, lsh, sofar>>,
         \/ pc' = pc
         \/ pc = "start" /\ pc' = "sofar"
         \/ pc = "sofar" /\ sofar = Len(query.sofar) /\ pc' = "index"
         \/ pc = "index" /\ pc' = "allocate"
         \/ pc' \in {"tracks", "windows"} /\ pc \in {"sofar", "tracks", "windows"}
         \/ pc' \in {"shingles", "retrieve", "evaluate", "points", "done", "refused", "dead"}
  PROVE  AddInv'
<1>1. query \in Queries
  BY DEF AddInv
<1>2. FreshOnce' <=> FreshOnce
  BY <1>1, NothingAdded
<1>3. Cardinality(Earlier)' = Cardinality(Earlier)
  BY <1>1, NothingAdded
<1>4. Cardinality(EarlierTo(sofar))' = Cardinality(EarlierTo(sofar))
  BY <1>1, NothingAdded DEF EarlierTo, Earlier
<1>5. pc' = "sofar" =>
        sofar' \in 0 .. Len(query'.sofar) /\ Len(offered') = Cardinality(EarlierTo(sofar))'
  <2>1. CASE pc = "start"
    <3>1. sofar = 0 /\ offered = <<>> /\ Cardinality(EarlierTo(0)) = 0 /\ Len(query.sofar) \in Nat
      BY <1>1, <2>1, EarlierFinite, QueryTypes DEF AddInv
    <3> QED BY <1>4, <3>1
  <2>2. CASE pc = "sofar"
    BY <1>4, <2>2 DEF AddInv
  <2> QED BY <2>1, <2>2
<1>6. pc' \in {"index", "allocate"} => Len(offered') = Cardinality(Earlier)'
  <2>1. CASE pc = "sofar" /\ sofar = Len(query.sofar)
    BY <1>1, <1>3, <2>1, EarlierFinite DEF AddInv
  <2>2. CASE pc \in {"index", "allocate"}
    BY <1>3, <2>2 DEF AddInv
  <2> QED BY <2>1, <2>2
<1>7. /\ pc' = "start" => offered' = <<>> /\ sofar' = 0
      /\ pc' \in {"start", "sofar", "index", "allocate"} => lsh' = NoLsh /\ seen' = {}
  BY DEF AddInv
<1>8. lsh' # NoLsh =>
        /\ pc' \in {"shingles", "retrieve", "evaluate", "points", "done", "refused", "dead"}
        /\ FreshOnce'
  BY <1>2 DEF AddInv
<1>9. query' \in Queries /\ \E S : offered' \in Seq(S)
  BY DEF AddInv
<1> QED BY <1>5, <1>6, <1>7, <1>8, <1>9 DEF AddInv

LEMMA ReportAdds ==
  ASSUME AddInv, Report
  PROVE  AddInv'
<1>1. /\ pc = "retrieve" /\ UNCHANGED <<query, pc, lsh, sofar>>
  BY DEF Report
<1>2. PICK id \in Ids(lsh) :
        \/ UNCHANGED <<seen, accVars>>
        \/ AddApproximate(id)
  BY DEF Report
<1>3. PICK p : p = [ikey |-> Key(TrackId(id)), qpos |-> ReportedQpos(j), ipos |-> TrackPos(id),
                    dist |-> query.radius]
  OBVIOUS
<1>4. p.ikey = Key(TrackId(id)) /\ p.qpos = ReportedQpos(j) /\ p.ipos = TrackPos(id)
  BY <1>3
<1>5. \/ UNCHANGED <<seen, offered>>
      \/ Triple(p) \notin seen /\ seen' = seen \cup {Triple(p)} /\ AddPoint(p)
  <2>1. CASE UNCHANGED <<seen, accVars>>
    BY <2>1 DEF accVars
  <2>2. CASE AddApproximate(id)
    <3>1. Triple(p) = <<Key(TrackId(id)), ReportedQpos(j), TrackPos(id)>>
      BY <1>4 DEF Triple
    <3>2. \/ UNCHANGED <<seen, accVars>>
          \/ Triple(p) \notin seen /\ seen' = seen \cup {Triple(p)} /\ AddPoint(p)
      BY <1>3, <2>2, <3>1 DEF AddApproximate
    <3> QED BY <3>2 DEF accVars
  <2> QED BY <1>2, <2>1, <2>2
<1>6. PICK S : offered \in Seq(S)
  BY DEF AddInv
<1>7. CASE lsh # NoLsh
  <2>1. FreshOnce' /\ \E T : offered' \in Seq(T)
    BY <1>1, <1>5, <1>6, <1>7, AddedIfNew DEF AddInv
  <2> QED BY <1>1, <2>1 DEF AddInv
<1>8. CASE lsh = NoLsh
  <2>1. \E T : offered' \in Seq(T)
    BY <1>5, <1>6, PointAdded
  <2> QED BY <1>1, <1>8, <2>1 DEF AddInv
<1> QED BY <1>7, <1>8

LEMMA EvaluateAdds ==
  ASSUME AddInv, Evaluate
  PROVE  AddInv'
<1>1. /\ pc = "evaluate" /\ UNCHANGED <<query, lsh, sofar>> /\ pc' \in {"dead", "evaluate"}
  BY DEF Evaluate
<1>2. PICK p : UNCHANGED <<seen, accVars>> \/ AddEvaluated(p)
  BY DEF Evaluate
<1>3. \/ UNCHANGED <<seen, offered>>
      \/ Triple(p) \notin seen /\ seen' = seen \cup {Triple(p)} /\ AddPoint(p)
  BY <1>2 DEF AddEvaluated, Triple, accVars
<1>4. PICK S : offered \in Seq(S)
  BY DEF AddInv
<1>5. CASE lsh # NoLsh
  <2>1. FreshOnce' /\ \E T : offered' \in Seq(T)
    BY <1>1, <1>3, <1>4, <1>5, AddedIfNew DEF AddInv
  <2> QED BY <1>1, <2>1 DEF AddInv
<1>6. CASE lsh = NoLsh
  <2>1. \E T : offered' \in Seq(T)
    BY <1>3, <1>4, PointAdded
  <2> QED BY <1>1, <1>6, <2>1 DEF AddInv
<1> QED BY <1>5, <1>6

LEMMA LoadAdds ==
  ASSUME AddInv, LoadIndex
  PROVE  AddInv'
<1>1. /\ pc = "allocate" /\ UNCHANGED <<query, offered, seen, sofar>>
      /\ \/ lsh' = NoLsh /\ pc' = "dead"
         \/ lsh' # NoLsh /\ pc' = "shingles"
  BY DEF LoadIndex, accVars
<1>2. query \in Queries /\ Len(offered) = Cardinality(Earlier)
  BY <1>1 DEF AddInv
<1>3. Cardinality(Earlier)' = Cardinality(Earlier) /\ Cardinality(Earlier) \in Nat
  BY <1>1, <1>2, NothingAdded, EarlierFinite
<1>4. PICK e \in Nat : e = Cardinality(Earlier)
  BY <1>3
<1>5. e + 1 .. e = {}
  OBVIOUS
<1>6. FreshOnce'
  BY <1>1, <1>2, <1>3, <1>4, <1>5 DEF FreshOnce
<1> QED BY <1>1, <1>2, <1>6 DEF AddInv

(* Steps of the loop of Query: none while an index is in use.               *)
LEMMA LoopAdds ==
  ASSUME AddInv, Window, UNCHANGED perCall
  PROVE  AddInv'
<1>1. /\ pc = "windows" /\ UNCHANGED <<query, sofar, lsh, seen>> /\ pc' \in {"windows", "tracks"}
  BY DEF Window, perCall
<1>2. PICK S : offered \in Seq(S)
  BY DEF AddInv
<1>3. \E T : offered' \in Seq(T)
  <2>1. \/ offered' = offered
        \/ AddPoint(Point(track, j, k))
    BY DEF Window, MatchWindows, accVars
  <2> QED BY <1>2, <2>1, PointAdded
<1>4. lsh = NoLsh
  BY <1>1 DEF AddInv
<1> QED BY <1>1, <1>3, <1>4 DEF AddInv

LEMMA CallAdds ==
  ASSUME AddInv, CallSteps
  PROVE  AddInv'
<1>1. UNCHANGED <<seen, lsh>> /\ UNCHANGED perCall
  BY DEF CallSteps, perCall
<1>2. CASE AllowKeys
  <2>1. UNCHANGED <<query, offered, sofar>> /\ pc = "start" /\ pc' = "sofar"
    BY <1>2 DEF AllowKeys, accVars
  <2> QED BY <1>1, <2>1, QuietCall
<1>3. CASE AddSoFar
  BY <1>1, <1>3, SoFarAdded
<1>4. CASE Collect
  <2>1. UNCHANGED <<query, offered, sofar>> /\ (pc' = pc \/ pc' = "done")
    BY <1>4 DEF Collect, RankTrack, GetPoints, filling
  <2> QED BY <1>1, <2>1, QuietCall
<1>5. CASE SetUp
  <2>1. UNCHANGED <<query, offered, sofar>> /\ pc = "sofar" /\ pc' = "tracks"
    BY <1>5 DEF SetUp, accVars
  <2> QED BY <1>1, <2>1, QuietCall
<1>6. CASE Refuse
  <2>1. UNCHANGED <<query, offered, sofar>> /\ pc' = "refused"
    BY <1>6 DEF Refuse, accVars
  <2> QED BY <1>1, <2>1, QuietCall
<1>7. CASE NextTrack
  <2>1. UNCHANGED <<query, offered, sofar>> /\ pc = "tracks" /\ pc' \in {"tracks", "windows"}
    BY <1>7 DEF NextTrack, accVars
  <2> QED BY <1>1, <2>1, QuietCall
<1>8. CASE LastTrack
  <2>1. UNCHANGED <<query, offered, sofar>> /\ pc' = "points"
    BY <1>8 DEF LastTrack, accVars
  <2> QED BY <1>1, <2>1, QuietCall
<1>9. CASE Window
  BY <1>1, <1>9, LoopAdds
<1> QED BY <1>2, <1>3, <1>4, <1>5, <1>6, <1>7, <1>8, <1>9 DEF CallSteps

LEMMA AddInitially == IndexedInit => AddInv
<1> SUFFICES ASSUME IndexedInit PROVE AddInv
  OBVIOUS
<1>1. query \in Queries /\ offered = <<>> /\ pc = "start" /\ sofar = 0 /\ lsh = NoLsh /\ seen = {}
  BY DEF IndexedInit, Init, AccInit, InitCall
<1>2. offered \in Seq({})
  BY <1>1
<1> QED BY <1>1, <1>2 DEF AddInv

LEMMA AddStep == AddInv /\ [IndexedNext]_allVars => AddInv'
<1> SUFFICES ASSUME AddInv, [IndexedNext]_allVars PROVE AddInv'
  OBVIOUS
<1>1. CASE CallSteps
  BY <1>1, CallAdds
<1>2. CASE NextCall
  <2>1. /\ query' \in Queries /\ offered' = <<>> /\ pc' = "start" /\ sofar' = 0
        /\ lsh' = NoLsh /\ seen' = {}
    BY <1>2 DEF NextCall
  <2>2. offered' \in Seq({})
    BY <2>1
  <2> QED BY <2>1, <2>2 DEF AddInv
<1>3. CASE Build \/ UNCHANGED allVars
  <2>1. UNCHANGED <<query, offered, seen, lsh, sofar, pc>>
    BY <1>3 DEF Build, allVars, queryVars, perCall, accVars
  <2> QED BY <2>1, QuietCall
<1>4. CASE Dispatch
  <2>1. /\ UNCHANGED <<query, offered, seen, lsh, sofar>>
        /\ pc = "sofar" /\ sofar = Len(query.sofar) /\ pc' = "index"
    BY <1>4 DEF Dispatch, perCall, accVars
  <2> QED BY <2>1, QuietCall
<1>5. CASE IndexVanished
  <2>1. UNCHANGED <<query, offered, seen, lsh, sofar>> /\ pc' = "points"
    BY <1>5 DEF IndexVanished, perCall, accVars
  <2> QED BY <2>1, QuietCall
<1>6. CASE Allocate
  <2>1. UNCHANGED <<query, offered, seen, lsh, sofar>> /\ pc = "index" /\ pc' = "allocate"
    BY <1>6 DEF Allocate, perCall, accVars
  <2> QED BY <2>1, QuietCall
<1>7. CASE LoadIndex
  BY <1>7, LoadAdds
<1>8. CASE MakeShingles
  <2>1. UNCHANGED <<query, offered, seen, lsh, sofar>> /\ pc' \in {"refused", "retrieve"}
    BY <1>8 DEF MakeShingles, perCall, accVars
  <2> QED BY <2>1, QuietCall
<1>9. CASE Report
  BY <1>9, ReportAdds
<1>10. CASE NextShingle
  <2>1. UNCHANGED <<query, offered, seen, lsh, sofar>> /\ (pc' = pc \/ pc' \in {"evaluate", "points"})
    BY <1>10 DEF NextShingle, accVars
  <2> QED BY <2>1, QuietCall
<1>11. CASE LoadTrack
  <2>1. UNCHANGED <<query, offered, seen, lsh, sofar>> /\ (pc' = pc \/ pc' = "dead")
    BY <1>11 DEF LoadTrack, perCall, accVars
  <2> QED BY <2>1, QuietCall
<1>12. CASE TrackUnread
  <2>1. UNCHANGED <<query, offered, seen, lsh, sofar>> /\ pc' = "points"
    BY <1>12 DEF TrackUnread, perCall, accVars
  <2> QED BY <2>1, QuietCall
<1>13. CASE Evaluate
  BY <1>13, EvaluateAdds
<1>14. CASE QueueEmpty
  <2>1. UNCHANGED <<query, offered, seen, lsh, sofar>> /\ pc' = "points"
    BY <1>14 DEF QueueEmpty, perCall, accVars
  <2> QED BY <2>1, QuietCall
<1> QED BY <1>1, <1>2, <1>3, <1>4, <1>5, <1>6, <1>7, <1>8, <1>9, <1>10, <1>11, <1>12, <1>13,
           <1>14 DEF IndexedNext

LEMMA OnceEach == AddInv => AddedOnce
<1> SUFFICES ASSUME AddInv, lsh # NoLsh PROVE AddedOnce
  BY DEF AddedOnce
<1>1. query \in Queries /\ FreshOnce
  BY DEF AddInv
<1>2. PICK S : offered \in Seq(S)
  BY DEF AddInv
<1>3. PICK e \in Nat : e = Cardinality(Earlier)
  BY <1>1, EarlierFinite
<1>4. PICK l \in Nat : l = Len(offered)
  BY <1>2
<1>5. /\ e <= l
      /\ \A m, n \in e + 1 .. l : Triple(offered[m]) = Triple(offered[n]) => m = n
  BY <1>1, <1>3, <1>4 DEF FreshOnce
<1>6. \A i \in e + 1 .. l : offered[i] \in S
  BY <1>2, <1>4
<1>7. /\ DOMAIN Fresh = 1 .. l - e
      /\ \A m \in 1 .. l - e : Fresh[m] = offered[e + m]
  <2>1. /\ Len(SubSeq(offered, e + 1, l)) = l - e /\ SubSeq(offered, e + 1, l) \in Seq(S)
        /\ \A m \in 1 .. l - e : SubSeq(offered, e + 1, l)[m] = offered[e + m]
    BY <1>2, <1>4, <1>5, <1>6, SubSeqProperties
  <2> QED BY <1>3, <1>4, <2>1 DEF Fresh
<1>8. ASSUME NEW m \in 1 .. l - e, NEW n \in 1 .. l - e,
             Fresh[m].ikey = Fresh[n].ikey, Fresh[m].qpos = Fresh[n].qpos,
             Fresh[m].ipos = Fresh[n].ipos
      PROVE  m = n
  <2>1. e + m \in e + 1 .. l /\ e + n \in e + 1 .. l
    BY <1>5
  <2>2. Triple(offered[e + m]) = Triple(offered[e + n])
    BY <1>7, <1>8 DEF Triple
  <2> QED BY <1>5, <2>1, <2>2
<1> QED BY <1>7, <1>8 DEF AddedOnce

(* However many tables, probes and windows of an index report a point, and  *)
(* however often the index is rebuilt meanwhile, the point is handed to the *)
(* accumulator once (query-indexed.cpp:59, query.cpp:521); the results so   *)
(* far are not counted: they may hold the same point again.                 *)
THEOREM EachPointOnce == IndexedSpec => []AddedOnce
  BY AddInitially, AddStep, OnceEach, PTL DEF IndexedSpec

-----------------------------------------------------------------------------
(* Where the windows are that an index reports.                             *)

(* The first vector of each track, as an index counts them.                 *)
VectorStart == Starts(NumFiles, [t \in 0 .. NumFiles - 1 |-> TrackLength(t)])

LEMMA VectorStarts ==
  ASSUME db \in Databases
  PROVE  /\ Accumulates(VectorStart, NumFiles, [t \in 0 .. NumFiles - 1 |-> TrackLength(t)])
         /\ \A t \in 0 .. NumFiles : VectorStart[t] \in Nat /\ Where[t] = VectorStart[t] * db.dim
         /\ \A t \in 0 .. NumFiles - 1 : FirstVector(t) = VectorStart[t]
<1>1. PICK n \in Nat, d \in Nat \ {0} : n = NumFiles /\ d = db.dim
  BY Tables
<1>2. PICK ls : ls = [t \in 0 .. n - 1 |-> TrackLength(t)]
  OBVIOUS
<1>3. \A t \in 0 .. n - 1 : ls[t] \in Nat /\ ls[t] = TrackLength(t)
  BY <1>1, <1>2, Tables
<1>4. PICK f : f = VectorStart
  OBVIOUS
<1>5. Accumulates(f, n, ls)
  BY <1>1, <1>2, <1>3, <1>4, StartsAccumulate DEF VectorStart
<1>6. \A t \in 0 .. n : f[t] \in Nat
  BY <1>5 DEF Accumulates
<1>7. PICK ss : ss = Sizes(db)
  OBVIOUS
<1>8. \A t \in 0 .. n - 1 : ss[t] = ls[t] * d
  BY <1>1, <1>3, <1>7, DatabasesAssumption DEF Sizes, TrackLength, NumFiles
<1>9. \A t \in 0 .. n - 1 : ss[t] \in Nat
  <2> SUFFICES ASSUME NEW t \in 0 .. n - 1 PROVE ss[t] \in Nat
    OBVIOUS
  <2>1. PICK l \in Nat : l = ls[t]
    BY <1>3
  <2> QED BY <1>8, <2>1
<1>10. Accumulates(Where, n, ss)
  BY <1>1, <1>7, <1>9, StartsAccumulate DEF Where
<1>11. PICK g : g = [t \in 0 .. n |-> f[t] * d]
  OBVIOUS
<1>12. Accumulates(g, n, ss)
  <2>1. \A t \in 0 .. n : g[t] = f[t] * d /\ g[t] \in Nat
    <3> SUFFICES ASSUME NEW t \in 0 .. n PROVE g[t] = f[t] * d /\ g[t] \in Nat
      OBVIOUS
    <3>1. PICK v \in Nat : v = f[t]
      BY <1>6
    <3> QED BY <1>11, <3>1
  <2>2. g \in [0 .. n -> Nat]
    BY <1>11, <2>1
  <2>3. g[0] = 0
    BY <1>5, <2>1 DEF Accumulates
  <2>4. \A t \in 1 .. n : g[t] = g[t - 1] + ss[t - 1]
    <3> SUFFICES ASSUME NEW t \in 1 .. n PROVE g[t] = g[t - 1] + ss[t - 1]
      OBVIOUS
    <3>1. t - 1 \in 0 .. n - 1 /\ t - 1 \in 0 .. n /\ t \in 0 .. n
      OBVIOUS
    <3>2. PICK v \in Nat, l \in Nat : v = f[t - 1] /\ l = ls[t - 1]
      BY <1>3, <1>6, <3>1
    <3>3. f[t] = v + l
      BY <1>5, <3>2 DEF Accumulates
    <3>4. g[t] = (v + l) * d /\ g[t - 1] = v * d /\ ss[t - 1] = l * d
      BY <1>8, <2>1, <3>1, <3>2, <3>3
    <3>5. (v + l) * d = v * d + l * d
      OBVIOUS
    <3> QED BY ONLY <3>4, <3>5
  <2> QED BY <2>2, <2>3, <2>4 DEF Accumulates
<1>13. \A t \in 0 .. n : Where[t] = f[t] * d
  <2>1. \A t \in 0 .. n : Where[t] = g[t]
    BY <1>10, <1>12, AccumulationsAgree
  <2> QED BY <1>11, <2>1
<1>14. \A t \in 0 .. n - 1 : FirstVector(t) = f[t]
  <2> SUFFICES ASSUME NEW t \in 0 .. n - 1 PROVE FirstVector(t) = f[t]
    OBVIOUS
  <2>1. PICK v \in Nat : v = f[t]
    BY <1>6
  <2>2. Where[t] = v * d
    BY <1>13, <2>1
  <2>3. TrackOffset(t) = Where[t]
    BY <1>1, Tables
  <2>4. (v * d) \div d = v
    OBVIOUS
  <2> QED BY <1>1, <2>1, <2>2, <2>3, <2>4 DEF FirstVector
<1> QED BY <1>1, <1>2, <1>4, <1>5, <1>6, <1>13, <1>14

LEMMA SameTrackId ==
  ASSUME NEW n \in Nat, NEW f, NEW g, \A i \in 0 .. n - 1 : f[i] = g[i], NEW id
  PROVE  IndexToTrackId(f, n, id) = IndexToTrackId(g, n, id)
<1> DEFINE P(t) == t \in 0 .. n - 1 /\ f[t] <= id /\ \A u \in t + 1 .. n - 1 : f[u] > id
           Q(t) == t \in 0 .. n - 1 /\ g[t] <= id /\ \A u \in t + 1 .. n - 1 : g[u] > id
<1>1. \A t : P(t) <=> Q(t)
  OBVIOUS
<1>2. IndexToTrackId(f, n, id) = CHOOSE t : P(t)
  BY DEF IndexToTrackId
<1>3. IndexToTrackId(g, n, id) = CHOOSE t : Q(t)
  BY DEF IndexToTrackId
<1>4. (CHOOSE t : P(t)) = (CHOOSE t : Q(t))
  BY <1>1
<1> QED BY <1>2, <1>3, <1>4

(* The number of a window leads back to it, by any starts that agree.       *)
LEMMA BackToTrack ==
  ASSUME NEW n \in Nat, NEW ls, \A i \in 0 .. n - 1 : ls[i] \in Nat, NEW g, g = Starts(n, ls),
         NEW h, \A i \in 0 .. n - 1 : h[i] = g[i],
         NEW t \in 0 .. n - 1, NEW p \in 0 .. ls[t] - 1, NEW id, id = IndexFromTrackInfo(g, t, p)
  PROVE  IndexToTrackId(h, n, id) = t /\ IndexToTrackPos(h, t, id) = p
<1>1. IndexToTrackId(g, n, id) = t /\ IndexToTrackPos(g, t, id) = p
  BY IndexRoundTrip
<1>2. IndexToTrackId(h, n, id) = IndexToTrackId(g, n, id)
  BY SameTrackId
<1>3. IndexToTrackPos(h, t, id) = IndexToTrackPos(g, t, id)
  BY DEF IndexToTrackPos
<1> QED BY <1>1, <1>2, <1>3

(* What an index may be of: tracks the handle knows, or those and more.     *)
Known(index) ==
  /\ index.covers \in Seq(Nat)
  /\ IsPrefix(index.covers, db.lengths) \/ IsPrefix(db.lengths, index.covers)

(* A window inside its track, as the queue holds it.                        *)
Pairs == [trackID : Nat, qpos : Nat, spos : Nat]

Inside(p) ==
  /\ p.trackID \in 0 .. NumFiles - 1 /\ p.spos \in Nat
  /\ p.spos + query.seqlen <= TrackLength(p.trackID)

(* What a prefix has, the whole has at the same places.                     *)
LEMMA PrefixCells ==
  ASSUME NEW S, NEW s \in Seq(S), NEW r \in Seq(S), IsPrefix(s, r)
  PROVE  Len(s) <= Len(r) /\ \A i \in 1 .. Len(s) : s[i] = r[i]
<1>1. PICK m \in Nat, n \in Nat : m = Len(s) /\ n = Len(r)
  OBVIOUS
<1>2. m <= n /\ SubSeq(s, 1, m) = SubSeq(r, 1, m)
  BY <1>1 DEF IsPrefix
<1>3. ASSUME NEW i \in 1 .. m
      PROVE  SubSeq(s, 1, m)[i] = s[i] /\ SubSeq(r, 1, m)[i] = r[i]
  BY <1>1, <1>2
<1> QED
  BY <1>1, <1>2, <1>3

(* The windows of an index that is not newer than the handle are inside the *)
(* tracks the handle knows.                                                 *)
LEMMA ReportedInside ==
  ASSUME db \in Databases, query \in Queries, Known(lsh), lsh.name = Name(query),
         Len(lsh.covers) <= NumFiles, NEW id \in Ids(lsh)
  PROVE  /\ TrackId(id) \in 0 .. NumFiles - 1 /\ TrackPos(id) \in Nat
         /\ TrackPos(id) + query.seqlen <= TrackLength(TrackId(id))
<1>1. PICK n \in Nat, w \in Nat \ {0} : n = NumFiles /\ w = query.seqlen /\ n = Len(db.lengths)
  BY Tables, QueryTypes, DatabasesAssumption DEF NumFiles
<1>2. PICK c : c \in Seq(Nat) /\ c = lsh.covers
  BY DEF Known
<1>3. PICK m \in Nat : m = Len(c) /\ m <= n
  BY <1>1, <1>2
<1>4. \A i \in 1 .. m : c[i] = db.lengths[i] /\ c[i] \in Nat
  <2>1. db.lengths \in Seq(Nat)
    BY DatabasesAssumption
  <2>2. CASE IsPrefix(c, db.lengths)
    <3>1. Len(c) <= Len(db.lengths) /\ \A i \in 1 .. Len(c) : c[i] = db.lengths[i]
      BY ONLY <1>2, <2>1, <2>2, PrefixCells
    <3>2. \A i \in 1 .. Len(c) : c[i] \in Nat
      BY ONLY <1>2
    <3> QED BY ONLY <1>3, <3>1, <3>2
  <2>3. CASE IsPrefix(db.lengths, c)
    <3>1. Len(db.lengths) = m
      BY <1>1, <1>2, <1>3, <2>3 DEF IsPrefix
    <3>2. Len(db.lengths) <= Len(c) /\ \A i \in 1 .. Len(db.lengths) : db.lengths[i] = c[i]
      BY ONLY <1>2, <2>1, <2>3, PrefixCells
    <3>3. \A i \in 1 .. Len(c) : c[i] \in Nat
      BY ONLY <1>2
    <3> QED BY ONLY <1>3, <3>1, <3>2, <3>3
  <2> QED BY <1>2, <2>2, <2>3 DEF Known
<1>5. PICK sc : sc = [t \in 0 .. m - 1 |-> c[t + 1]]
  OBVIOUS
<1>6. PICK ls : ls = [t \in 0 .. n - 1 |-> TrackLength(t)]
  OBVIOUS
<1>7. \A t \in 0 .. n - 1 : ls[t] \in Nat /\ ls[t] = TrackLength(t)
  BY <1>1, <1>6, Tables
<1>8. \A t \in 0 .. m - 1 : t \in 0 .. n - 1 /\ sc[t] = ls[t] /\ sc[t] = c[t + 1]
  <2>1. \A t \in 0 .. m - 1 : t + 1 \in 1 .. m /\ t \in 0 .. n - 1
    BY <1>3
  <2> QED BY <1>4, <1>5, <1>7, <2>1 DEF TrackLength
<1>9. PICK f : f = Starts(m, sc)
  OBVIOUS
<1>10. Accumulates(f, m, sc)
  BY <1>7, <1>8, <1>9, StartsAccumulate
<1>11. PICK g : g = Starts(n, ls) /\ g = VectorStart
  BY <1>1, <1>6 DEF VectorStart
<1>12. Accumulates(g, n, ls)
  BY <1>7, <1>11, StartsAccumulate
<1>13. \A t \in 0 .. m : f[t] = g[t]
  BY <1>3, <1>8, <1>10, <1>12, AccumulationsAgree
<1>14. PICK t \in 0 .. m - 1 : \E p \in 0 .. c[t + 1] - w : id = IndexFromTrackInfo(f, t, p)
  <2>1. lsh.name[2] = w
    BY <1>1 DEF Name
  <2>2. PICK st : st = Starts(Len(lsh.covers), [u \in 0 .. Len(lsh.covers) - 1 |-> lsh.covers[u + 1]])
    OBVIOUS
  <2>3. id \in UNION {{IndexFromTrackInfo(Starts(Len(lsh.covers), [u \in 0 .. Len(lsh.covers) - 1 |-> lsh.covers[u + 1]]), i, p) :
                        p \in 0 .. lsh.covers[i + 1] - lsh.name[2]} : i \in 0 .. Len(lsh.covers) - 1}
    BY DEF Ids
  <2>4. PICK o \in 0 .. Len(lsh.covers) - 1 :
          \E p \in 0 .. lsh.covers[o + 1] - lsh.name[2] : id = IndexFromTrackInfo(st, o, p)
    <3>1. \E o \in 0 .. Len(lsh.covers) - 1 : \E p \in 0 .. lsh.covers[o + 1] - lsh.name[2] :
            id = IndexFromTrackInfo(Starts(Len(lsh.covers), [u \in 0 .. Len(lsh.covers) - 1 |-> lsh.covers[u + 1]]), o, p)
      BY ONLY <2>3
    <3> QED BY ONLY <2>2, <3>1
  <2>5. o \in 0 .. m - 1 /\ \E p \in 0 .. c[o + 1] - w : id = IndexFromTrackInfo(st, o, p)
    BY <1>2, <1>3, <2>1, <2>4
  <2>6. st = f
    <3>1. Starts(Len(lsh.covers), [u \in 0 .. Len(lsh.covers) - 1 |-> lsh.covers[u + 1]]) =
          Starts(m, [u \in 0 .. m - 1 |-> c[u + 1]])
      BY ONLY <1>2, <1>3
    <3> QED BY ONLY <1>5, <1>9, <2>2, <3>1
  <2> QED BY <2>5, <2>6
<1>15. PICK p : p \in 0 .. c[t + 1] - w /\ id = IndexFromTrackInfo(f, t, p)
  BY <1>14
<1>16. /\ t \in 0 .. n - 1 /\ id = IndexFromTrackInfo(g, t, p)
       /\ p \in Nat /\ p + w <= ls[t] /\ p \in 0 .. ls[t] - 1
  <2>1. t \in 0 .. m /\ f[t] = g[t]
    BY <1>13
  <2>2. PICK l \in Nat : l = ls[t] /\ l = c[t + 1]
    BY <1>7, <1>8
  <2>3. p \in Nat /\ p + w <= l /\ p \in 0 .. l - 1
    BY <1>15, <2>2
  <2> QED BY <1>8, <1>15, <2>1, <2>2, <2>3 DEF IndexFromTrackInfo
<1>17. \A u \in 0 .. n - 1 : StartOf[u] = g[u]
  BY <1>1, <1>11, VectorStarts DEF StartOf
<1>18. TrackId(id) = t /\ TrackPos(id) = p
  <2>1. PICK h : h = StartOf /\ \A u \in 0 .. n - 1 : h[u] = g[u]
    BY <1>17
  <2>2. IndexToTrackId(h, n, id) = t /\ IndexToTrackPos(h, t, id) = p
    <3>1. n \in Nat /\ (\A i \in 0 .. n - 1 : ls[i] \in Nat) /\ g = Starts(n, ls)
      BY <1>7, <1>11
    <3>2. \A i \in 0 .. n - 1 : h[i] = g[i]
      BY <2>1
    <3>3. t \in 0 .. n - 1 /\ p \in 0 .. ls[t] - 1 /\ id = IndexFromTrackInfo(g, t, p)
      BY <1>16
    <3> QED BY ONLY <3>1, <3>2, <3>3, BackToTrack
  <2> QED BY <1>1, <2>1, <2>2 DEF TrackId, TrackPos
<1> QED BY <1>1, <1>7, <1>16, <1>18

(* The queue is never without a top: of any pairs one is after all others.  *)
LEMMA TopExists ==
  ASSUME NEW S \in SUBSET Pairs, IsFiniteSet(S), S # {}
  PROVE  \E p \in S : \A q \in S \ {p} : Greater(p, q)
<1> DEFINE Q == {s \in SUBSET S : s # {} => \E p \in s : \A q \in s \ {p} : Greater(p, q)}
<1>1. {} \in Q
  OBVIOUS
<1>2. ASSUME NEW s \in Q, NEW x \in S \ s
      PROVE  s \cup {x} \in Q
  <2>1. CASE s = {}
    BY <2>1
  <2>2. CASE s # {}
    <3>1. PICK p \in s : \A q \in s \ {p} : Greater(p, q)
      BY <2>2
    <3>2. x \in Pairs /\ p \in Pairs /\ x # p
      OBVIOUS
    <3>3. Greater(p, x) \/ Greater(x, p)
      BY <3>2 DEF Greater, Pairs
    <3>4. CASE Greater(p, x)
      BY <3>1, <3>4
    <3>5. CASE Greater(x, p)
      <4>1. \A q \in s : Greater(x, q)
        <5> SUFFICES ASSUME NEW q \in s, q # p PROVE Greater(x, q)
          BY <3>5
        <5>1. Greater(p, q) /\ q \in Pairs
          BY <3>1
        <5> QED BY <3>2, <3>5, <5>1 DEF Greater, Pairs
      <4> QED BY <4>1
    <3> QED BY <3>3, <3>4, <3>5
  <2> QED BY <2>1, <2>2
<1>3. Q = SUBSET S
  <2>1. Q \in SUBSET SUBSET S
    OBVIOUS
  <2> HIDE DEF Q
  <2> QED BY <1>1, <1>2, <2>1, SubsetInduction
<1> QED BY <1>3

-----------------------------------------------------------------------------
(* Exact evaluation: what the queue holds and what has been loaded for it.  *)
Trusted == lsh # NoLsh /\ ~ Newer /\ (UsesPower => db.hasPower)

QueueInside ==
  /\ queue = [p \in DOMAIN queue |-> queue[p]] /\ IsFiniteSet(DOMAIN queue)
  /\ DOMAIN queue \subseteq Pairs
  /\ \A p \in DOMAIN queue : Inside(p)

Loaded ==
  track \in 0 .. NumFiles - 1 /\ UsesPower => Len(dbpointers.power) = TrackLength(track)

IndexedParts == {"shingles", "retrieve", "evaluate", "points", "done", "refused", "dead"}

FilesKnown ==
  /\ DOMAIN files = {Name(q) : q \in Queries}
  /\ \A x \in DOMAIN files : files[x] # NoIndex => Known([covers |-> files[x]])
  /\ cached # NoLsh => Known(cached)

LshKnown ==
  /\ lsh # NoLsh => Known(lsh) /\ lsh.name = Name(query) /\ pc \in IndexedParts
  /\ pc \in {"shingles", "retrieve", "evaluate"} => lsh # NoLsh
  /\ lsh = NoLsh => ~ wild /\ queue = EmptyBag
  /\ pc = "retrieve" => j \in Nat

TrustedSound ==
  Trusted => /\ ~ wild /\ pc # "dead" /\ QueueInside
             /\ pc = "evaluate" => Loaded

SoundInv ==
  /\ db \in Databases /\ query \in Queries
  /\ FilesKnown /\ LshKnown /\ TrustedSound

(* Sums are kept in place: windows of a track, and after them its last      *)
(* cells, as many as the track has vectors.                                 *)
LEMMA SumsInPlace ==
  ASSUME NEW s \in Seq(AnyDouble), NEW n \in Nat
  PROVE  Len(SequenceSum(s, n)) = Len(s)
  BY DEF SequenceSum

LEMMA PowersLoaded ==
  ASSUME db \in Databases, query \in Queries, db.hasPower, NEW t \in 0 .. NumFiles - 1
  PROVE  Len(TrackPointers(t).power) = TrackLength(t)
<1>1. PICK d \in Nat \ {0} : d = db.dim
  BY Tables
<1>2. PICK v \in Nat, l \in Nat : v = FirstVector(t) /\ l = TrackLength(t)
  <2>1. NumFiles \in Nat
    BY Tables
  <2>2. t \in 0 .. NumFiles
    BY <2>1
  <2> QED BY <2>2, Tables, VectorStarts
<1>3. PICK power \in Seq(AnyDouble) : power = db.power /\ Len(power) * d = Len(db.data)
  BY <1>1, DatabasesAssumption
<1>4. (v + l) * d <= Len(power) * d
  <2>1. NumFiles \in Nat
    BY Tables
  <2>2. t \in 0 .. NumFiles
    BY <2>1
  <2>3. Where[t] = v * d
    BY <1>1, <1>2, <2>2, VectorStarts
  <2>4. Where[t + 1] = Where[t] + l * d /\ Where[t + 1] <= Len(db.data)
    BY <1>1, <1>2, Tables
  <2>5. (v + l) * d = v * d + l * d /\ v * d \in Nat /\ l * d \in Nat
    OBVIOUS
  <2> QED BY ONLY <1>3, <2>3, <2>4, <2>5
<1>5. v + l <= Len(power)
  <2>1. PICK n \in Nat : n = Len(power)
    BY <1>3
  <2>2. ASSUME n < v + l PROVE FALSE
    <3>1. PICK e \in Nat : v + l = n + 1 + e
      <4>1. v + l - (n + 1) \in Nat /\ v + l = n + 1 + (v + l - (n + 1))
        BY <2>2
      <4> QED BY <4>1
    <3>2. (n + 1 + e) * d = n * d + d + e * d /\ e * d \in Nat /\ n * d \in Nat
      OBVIOUS
    <3> QED BY <1>4, <2>1, <3>1, <3>2
  <2> QED BY <2>1, <2>2
<1>6. /\ SubSeq(power, v + 1, v + l) \in Seq(AnyDouble)
      /\ Len(SubSeq(power, v + 1, v + l)) = l
  <2>1. \A i \in v + 1 .. v + l : power[i] \in AnyDouble
    BY <1>3, <1>5
  <2> QED BY <2>1, SubSeqProperties
<1>7. TrackPointers(t).power = SequenceSum(SubSeq(power, v + 1, v + l), query.seqlen)
  BY <1>2, <1>3 DEF TrackPointers
<1>8. PICK n \in Nat : n = query.seqlen
  BY QueryTypes
<1>9. Len(SequenceSum(SubSeq(power, v + 1, v + l), n)) = l
  <2>1. PICK part \in Seq(AnyDouble) : part = SubSeq(power, v + 1, v + l) /\ Len(part) = l
    BY <1>6
  <2>2. Len(SequenceSum(part, n)) = Len(part)
    BY SumsInPlace
  <2> QED BY <2>1, <2>2
<1> QED BY <1>2, <1>7, <1>8, <1>9

(* The top of a queue is one of its pairs.                                  *)
LEMMA TopOfQueue ==
  ASSUME queue = [p \in DOMAIN queue |-> queue[p]], IsFiniteSet(DOMAIN queue),
         DOMAIN queue \subseteq Pairs, queue # EmptyBag
  PROVE  TopPair \in DOMAIN queue
<1>1. DOMAIN queue # {}
  BY DEF EmptyBag, SetToBag
<1>2. \E p \in DOMAIN queue : \A q \in DOMAIN queue \ {p} : Greater(p, q)
  BY <1>1, TopExists
<1> QED BY <1>2 DEF TopPair, BagToSet

LEMMA TopInQueue ==
  ASSUME QueueInside, queue # EmptyBag
  PROVE  TopPair \in DOMAIN queue /\ TopPair \in Pairs /\ Inside(TopPair)
<1>1. TopPair \in DOMAIN queue
  BY TopOfQueue DEF QueueInside
<1> QED BY <1>1 DEF QueueInside

LEMMA Enqueued ==
  ASSUME QueueInside, NEW p \in Pairs, Inside(p), UNCHANGED <<db, query>>,
         queue' = queue (+) SetToBag({p})
  PROVE  QueueInside'
<1>1. DOMAIN queue' = DOMAIN queue \cup {p} /\ queue' = [q \in DOMAIN queue' |-> queue'[q]]
  BY DEF (+), SetToBag
<1>2. IsFiniteSet(DOMAIN queue') /\ DOMAIN queue' \subseteq Pairs
  <2>1. IsFiniteSet(DOMAIN queue) /\ DOMAIN queue \subseteq Pairs
    BY DEF QueueInside
  <2>2. PICK S : S = DOMAIN queue
    OBVIOUS
  <2>3. IsFiniteSet(S \cup {p})
    BY <2>1, <2>2, FS_AddElement
  <2> QED BY <1>1, <2>1, <2>2, <2>3
<1>3. \A q \in DOMAIN queue' : Inside(q)
  BY <1>1 DEF QueueInside
<1>4. \A q \in DOMAIN queue' : Inside(q)'
  BY <1>3 DEF Inside, NumFiles, TrackLength
<1> QED BY <1>1, <1>2, <1>4 DEF QueueInside, Inside

LEMMA Dequeued ==
  ASSUME QueueInside, NEW p, UNCHANGED <<db, query>>, queue' = queue (-) SetToBag({p})
  PROVE  QueueInside'
<1>1. DOMAIN queue' \subseteq DOMAIN queue /\ queue' = [q \in DOMAIN queue' |-> queue'[q]]
  BY DEF (-), SetToBag
<1>2. IsFiniteSet(DOMAIN queue') /\ DOMAIN queue' \subseteq Pairs
  BY <1>1, FS_Subset DEF QueueInside
<1>3. \A q \in DOMAIN queue' : Inside(q)'
  BY <1>1 DEF QueueInside, Inside, NumFiles, TrackLength
<1> QED BY <1>1, <1>2, <1>3 DEF QueueInside, Inside

LEMMA EmptyInside ==
  ASSUME queue = EmptyBag
  PROVE  QueueInside
  BY FS_EmptySet DEF QueueInside, EmptyBag, SetToBag

LEMMA SameIndex ==
  ASSUME UNCHANGED <<db, query>>
  PROVE  /\ \A x : Known(x)' <=> Known(x)
         /\ UsesPower' <=> UsesPower
         /\ UNCHANGED lsh => (Trusted' <=> Trusted)
         /\ UNCHANGED queue => (QueueInside' <=> QueueInside)
         /\ UNCHANGED <<files, cached>> => (FilesKnown' <=> FilesKnown)
         /\ UNCHANGED <<track, dbpointers>> => (Loaded' <=> Loaded)
<1>1. \A x : Known(x)' <=> Known(x)
  BY DEF Known
<1>2. (UsesPower' <=> UsesPower) /\ NumFiles' = NumFiles
  BY DEF UsesPower, NumFiles
<1>3. UNCHANGED lsh => (Trusted' <=> Trusted)
  BY <1>2 DEF Trusted, Newer
<1>4. UNCHANGED queue => (QueueInside' <=> QueueInside)
  BY <1>2 DEF QueueInside, Inside, TrackLength
<1>5. UNCHANGED <<files, cached>> => (FilesKnown' <=> FilesKnown)
  BY DEF FilesKnown, Known
<1>6. UNCHANGED <<track, dbpointers>> => (Loaded' <=> Loaded)
  BY <1>2 DEF Loaded, TrackLength
<1> QED BY <1>1, <1>2, <1>3, <1>4, <1>5, <1>6

(* Steps that add nothing to the queue and load no track.                   *)
LEMMA QuietIndex ==
  ASSUME SoundInv, UNCHANGED <<db, query, files, cached, lsh, queue, wild>>,
         pc' \in {"shingles", "retrieve", "evaluate"} => lsh # NoLsh,
         lsh # NoLsh => pc' \in IndexedParts,
         pc' = "retrieve" => j' \in Nat,
         pc' = "evaluate" =>
           (pc = "evaluate" /\ UNCHANGED <<track, dbpointers>>) \/ track' \notin 0 .. NumFiles - 1,
         pc' = "dead" => lsh = NoLsh \/ pc = "dead"
  PROVE  SoundInv'
<1>1. db' \in Databases /\ query' \in Queries
  BY DEF SoundInv
<1>2. FilesKnown'
  BY SameIndex DEF SoundInv
<1>3. LshKnown'
  BY DEF SoundInv, LshKnown, Known, Name
<1>4. TrustedSound'
  <2> SUFFICES ASSUME Trusted'
               PROVE  /\ ~ wild' /\ pc' # "dead" /\ QueueInside'
                      /\ pc' = "evaluate" => Loaded'
    BY DEF TrustedSound
  <2>1. Trusted
    BY SameIndex
  <2>2. /\ ~ wild /\ pc # "dead" /\ QueueInside /\ lsh # NoLsh
        /\ pc = "evaluate" => Loaded
    BY <2>1 DEF SoundInv, TrustedSound, Trusted
  <2>3. QueueInside' /\ pc' # "dead"
    BY <2>2, SameIndex
  <2>4. CASE track' \notin 0 .. NumFiles - 1
    <3>1. NumFiles' = NumFiles
      BY DEF NumFiles
    <3> QED BY <2>2, <2>3, <2>4, <3>1 DEF Loaded
  <2>5. CASE pc = "evaluate" /\ UNCHANGED <<track, dbpointers>>
    BY <2>2, <2>3, <2>5, SameIndex
  <2>6. CASE pc' # "evaluate"
    BY <2>2, <2>3, <2>6
  <2> QED BY <2>4, <2>5, <2>6
<1> QED BY <1>1, <1>2, <1>3, <1>4 DEF SoundInv

LEMMA ReportSound ==
  ASSUME SoundInv, Report
  PROVE  SoundInv'
<1>1. /\ pc = "retrieve" /\ UNCHANGED <<db, query, pc, j, files, cached, lsh, wild>>
  BY DEF Report, loops, indexes
<1>2. PICK id \in Ids(lsh) : UNCHANGED queue \/ AddExact(id)
  BY DEF Report
<1>3. db \in Databases /\ query \in Queries /\ FilesKnown /\ LshKnown /\ TrustedSound
  BY DEF SoundInv
<1>4. lsh # NoLsh /\ Known(lsh) /\ lsh.name = Name(query) /\ j \in Nat
  BY <1>1, <1>3 DEF LshKnown
<1>5. LshKnown'
  BY <1>1, <1>4, SameIndex DEF LshKnown, Name, Known, IndexedParts
<1>6. ASSUME Trusted
      PROVE  QueueInside'
  <2>1. QueueInside /\ Len(lsh.covers) <= NumFiles
    <3>1. PICK c : c \in Seq(Nat) /\ c = lsh.covers
      BY <1>4 DEF Known
    <3>2. Len(c) \in Nat /\ NumFiles \in Nat /\ ~ (Len(c) > NumFiles)
      BY <1>3, <1>6, <3>1, Tables DEF Trusted, Newer
    <3> QED BY <1>3, <1>6, <3>1, <3>2 DEF TrustedSound
  <2>2. CASE UNCHANGED queue
    BY <1>1, <2>1, <2>2, SameIndex
  <2>3. CASE AddExact(id)
    <3>1. PICK p : p = [trackID |-> TrackId(id), qpos |-> ReportedQpos(j), spos |-> TrackPos(id)]
      OBVIOUS
    <3>2. /\ TrackId(id) \in 0 .. NumFiles - 1 /\ TrackPos(id) \in Nat
          /\ TrackPos(id) + query.seqlen <= TrackLength(TrackId(id))
      BY <1>2, <1>3, <1>4, <2>1, ReportedInside
    <3>3. ReportedQpos(j) \in Nat
      BY <1>3, <1>4, QueryTypes DEF ReportedQpos
    <3>4. TrackId(id) \in Nat
      BY <1>3, <3>2, Tables
    <3>5. p \in Pairs /\ Inside(p)
      BY <3>1, <3>2, <3>3, <3>4 DEF Pairs, Inside
    <3>6. queue' = queue (+) SetToBag({p})
      BY <2>3, <3>1 DEF AddExact
    <3> QED BY <1>1, <2>1, <3>5, <3>6, Enqueued
  <2> QED BY <1>2, <2>2, <2>3
<1>7. TrustedSound'
  BY <1>1, <1>3, <1>6, SameIndex DEF TrustedSound
<1>8. FilesKnown'
  BY <1>1, <1>3, SameIndex
<1> QED BY <1>1, <1>3, <1>5, <1>7, <1>8 DEF SoundInv

LEMMA LoadIndexSound ==
  ASSUME SoundInv, LoadIndex
  PROVE  SoundInv'
<1>1. /\ pc = "allocate" /\ UNCHANGED <<db, query, files, queue, wild>>
      /\ lsh' = (IF Cached THEN cached
                 ELSE IF IndexExists THEN [name |-> Name(query), covers |-> files[Name(query)]]
                 ELSE NoLsh)
      /\ cached' = lsh' /\ pc' = IF lsh' = NoLsh THEN "dead" ELSE "shingles"
  BY DEF LoadIndex
<1>2. db \in Databases /\ query \in Queries /\ FilesKnown /\ LshKnown
  BY DEF SoundInv
<1>3. lsh = NoLsh /\ ~ wild /\ queue = EmptyBag
  BY <1>1, <1>2 DEF LshKnown, IndexedParts
<1>4. lsh' # NoLsh => Known(lsh') /\ lsh'.name = Name(query)
  <2>1. CASE Cached
    BY <1>1, <1>2, <2>1 DEF Cached, FilesKnown
  <2>2. CASE ~ Cached /\ IndexExists
    <3>1. Known([covers |-> files[Name(query)]])
      BY <1>2, <2>2 DEF FilesKnown, IndexExists
    <3> QED BY <1>1, <2>2, <3>1 DEF Known
  <2> QED BY <1>1, <2>1, <2>2
<1>5. FilesKnown'
  BY <1>1, <1>2, <1>4 DEF FilesKnown, Known
<1>6. LshKnown'
  BY <1>1, <1>3, <1>4 DEF LshKnown, Known, Name, IndexedParts
<1>7. TrustedSound'
  <2>1. QueueInside'
    BY <1>1, <1>3, EmptyInside, SameIndex
  <2> QED BY <1>1, <1>3, <2>1 DEF TrustedSound, Trusted
<1> QED BY <1>1, <1>2, <1>5, <1>6, <1>7 DEF SoundInv

LEMMA LoadTrackSound ==
  ASSUME SoundInv, LoadTrack
  PROVE  SoundInv'
<1>1. /\ pc = "evaluate" /\ queue # EmptyBag /\ pc' \in {"dead", "evaluate"}
      /\ UNCHANGED <<db, query, files, cached, lsh, queue, wild>>
  BY DEF LoadTrack, indexes, perCall
<1>2. db \in Databases /\ query \in Queries /\ FilesKnown /\ LshKnown /\ TrustedSound
  BY DEF SoundInv
<1>3. LshKnown'
  BY <1>1, <1>2, SameIndex DEF LshKnown, Name, Known, IndexedParts
<1>4. ASSUME Trusted
      PROVE  pc' # "dead" /\ Loaded'
  <2>1. PICK t : t = TopPair.trackID
    OBVIOUS
  <2>2. t \in 0 .. NumFiles - 1 /\ TopPair.spos \in Nat /\ TopPair.spos + query.seqlen <= TrackLength(t)
    BY <1>1, <1>2, <1>4, <2>1, TopInQueue DEF TrustedSound, Inside
  <2>3. query.seqlen <= TrackLength(t)
    <3>1. PICK w \in Nat, l \in Nat, b \in Nat : w = query.seqlen /\ l = TrackLength(t) /\ b = TopPair.spos
      BY <1>2, <2>2, Tables, QueryTypes
    <3> QED BY <2>2, <3>1
  <2>4. ~ TrackTooShort(t)
    <3>1. PICK w \in Nat, l \in Nat : w = query.seqlen /\ l = TrackLength(t)
      BY <1>2, <2>2, Tables, QueryTypes
    <3> QED BY <2>3, <3>1 DEF TrackTooShort
  <2>5. track' = t /\ dbpointers' = TrackPointers(t) /\ pc' = pc
    BY <2>1, <2>4 DEF LoadTrack
  <2>6. UsesPower => Len(TrackPointers(t).power) = TrackLength(t)
    BY <1>2, <1>4, <2>2, PowersLoaded DEF Trusted
  <2>7. TrackLength(t)' = TrackLength(t) /\ (UsesPower' <=> UsesPower)
    BY <1>1 DEF TrackLength, UsesPower
  <2>8. TrackLength(track)' = TrackLength(t)
    BY <1>1, <2>5 DEF TrackLength
  <2> QED BY <1>1, <2>5, <2>6, <2>7, <2>8 DEF Loaded
<1>5. TrustedSound'
  BY <1>1, <1>2, <1>4, SameIndex DEF TrustedSound
<1>6. FilesKnown'
  BY <1>1, <1>2, SameIndex
<1> QED BY <1>1, <1>2, <1>3, <1>5, <1>6 DEF SoundInv

LEMMA EvaluateSound ==
  ASSUME SoundInv, Evaluate
  PROVE  SoundInv'
<1>1. /\ pc = "evaluate" /\ queue # EmptyBag /\ TopPair.trackID = track /\ pc' \in {"dead", "evaluate"}
      /\ UNCHANGED <<db, query, files, cached, lsh, track, dbpointers>>
      /\ queue' = queue (-) SetToBag({TopPair})
      /\ wild' = (wild \/ BehindPowers(TopPair.spos))
      /\ pc' = "dead" => UsesPower /\ ~ db.hasPower
  BY DEF Evaluate, indexes, loops, pointers
<1>2. db \in Databases /\ query \in Queries /\ FilesKnown /\ LshKnown /\ TrustedSound
  BY DEF SoundInv
<1>3. lsh # NoLsh
  BY <1>1, <1>2 DEF LshKnown
<1>4. LshKnown'
  BY <1>1, <1>2, <1>3, SameIndex DEF LshKnown, Name, Known, IndexedParts
<1>5. ASSUME Trusted
      PROVE  ~ wild' /\ pc' # "dead" /\ QueueInside' /\ Loaded'
  <2>1. ~ wild /\ QueueInside /\ Loaded
    BY <1>1, <1>2, <1>5 DEF TrustedSound
  <2>2. /\ track \in 0 .. NumFiles - 1 /\ TopPair.spos \in Nat
        /\ TopPair.spos + query.seqlen <= TrackLength(track)
    BY <1>1, <2>1, TopInQueue DEF Inside
  <2>3. ~ BehindPowers(TopPair.spos)
    <3>1. PICK w \in Nat \ {0}, l \in Nat, b \in Nat :
            w = query.seqlen /\ l = TrackLength(track) /\ b = TopPair.spos
      BY <1>2, <2>2, Tables, QueryTypes
    <3>2. ~ (b + 1 > l)
      BY <2>2, <3>1
    <3> QED BY <2>1, <2>2, <3>1, <3>2 DEF BehindPowers, Loaded
  <2>4. QueueInside'
    <3>1. PICK p : p = TopPair
      OBVIOUS
    <3> QED BY <1>1, <2>1, <3>1, Dequeued
  <2> QED BY <1>1, <1>5, <2>1, <2>3, <2>4, SameIndex DEF Trusted
<1>6. TrustedSound'
  BY <1>1, <1>5, SameIndex DEF TrustedSound
<1>7. FilesKnown'
  BY <1>1, <1>2, SameIndex
<1> QED BY <1>1, <1>2, <1>4, <1>6, <1>7 DEF SoundInv

LEMMA BuildSound ==
  ASSUME SoundInv, Build
  PROVE  SoundInv'
<1>1. UNCHANGED <<db, query, pc, j, track, dbpointers, cached, lsh, queue, wild>>
  BY DEF Build, queryVars, perCall, loops, pointers
<1>2. PICK n \in DOMAIN files, c \in Versions : files' = [files EXCEPT ![n] = c]
  BY DEF Build
<1>3. db \in Databases /\ query \in Queries /\ FilesKnown /\ LshKnown /\ TrustedSound
  BY DEF SoundInv
<1>4. c # NoIndex => Known([covers |-> c])
  BY CoveragesAssumption DEF Versions, Known
<1>5. FilesKnown'
  <2>1. DOMAIN files' = DOMAIN files /\ \A x \in DOMAIN files : files'[x] = IF x = n THEN c ELSE files[x]
    BY <1>2
  <2>2. \A x \in DOMAIN files' : files'[x] # NoIndex => Known([covers |-> files'[x]])
    BY <1>3, <1>4, <2>1 DEF FilesKnown
  <2> QED BY <1>1, <1>3, <2>1, <2>2 DEF FilesKnown, Known
<1>6. LshKnown'
  BY <1>1, <1>3, SameIndex DEF LshKnown, Name, Known
<1>7. TrustedSound'
  BY <1>1, <1>3, SameIndex DEF TrustedSound
<1> QED BY <1>1, <1>3, <1>5, <1>6, <1>7 DEF SoundInv

LEMMA NextCallSound ==
  ASSUME SoundInv, NextCall
  PROVE  SoundInv'
<1>1. /\ UNCHANGED <<db, files, cached>> /\ query' \in Queries /\ pc' = "start"
      /\ lsh' = NoLsh /\ queue' = EmptyBag /\ wild' = FALSE
  BY DEF NextCall, indexes
<1>2. FilesKnown'
  BY <1>1 DEF SoundInv, FilesKnown, Known
<1>3. LshKnown' /\ TrustedSound'
  BY <1>1 DEF LshKnown, TrustedSound, Trusted
<1> QED BY <1>1, <1>2, <1>3 DEF SoundInv

LEMMA CallSound ==
  ASSUME SoundInv, CallSteps
  PROVE  SoundInv'
<1>1. UNCHANGED <<db, query, files, cached, lsh, queue, wild>>
  BY DEF CallSteps, indexes, perCall, AllowKeys, AddSoFar, Collect, SetUp, Refuse, NextTrack,
         LastTrack, Window
<1>2. \/ pc \in {"start", "sofar", "tracks", "windows"} /\ pc' \in {"sofar", "tracks", "windows", "points", "refused"}
      \/ pc = "points" /\ pc' \in {"points", "done"}
  BY DEF CallSteps, AllowKeys, AddSoFar, Collect, SetUp, Refuse, NextTrack, LastTrack, Window
<1>3. lsh # NoLsh => pc \in IndexedParts
  BY DEF SoundInv, LshKnown
<1>4. lsh # NoLsh => pc' \in IndexedParts
  BY <1>2, <1>3 DEF IndexedParts
<1>5. pc' \notin {"shingles", "retrieve", "evaluate", "dead"}
  BY <1>2
<1> QED BY <1>1, <1>4, <1>5, QuietIndex

LEMMA SoundInitially == IndexedInit => SoundInv
<1> SUFFICES ASSUME IndexedInit PROVE SoundInv
  OBVIOUS
<1>1. /\ db \in Databases /\ query \in Queries /\ pc = "start" /\ lsh = NoLsh /\ queue = EmptyBag
      /\ wild = FALSE /\ cached = NoLsh /\ files = [n \in {Name(q) : q \in Queries} |-> NoIndex]
  BY DEF IndexedInit, Init, InitIndexes, InitCall
<1>2. FilesKnown
  BY <1>1 DEF FilesKnown
<1>3. LshKnown /\ TrustedSound
  BY <1>1 DEF LshKnown, TrustedSound, Trusted
<1> QED BY <1>1, <1>2, <1>3 DEF SoundInv

LEMMA SoundStep == SoundInv /\ [IndexedNext]_allVars => SoundInv'
<1> SUFFICES ASSUME SoundInv, [IndexedNext]_allVars PROVE SoundInv'
  OBVIOUS
<1>0. /\ LshKnown /\ db \in Databases /\ query \in Queries
      /\ lsh # NoLsh => pc \in IndexedParts
      /\ pc \in {"shingles", "retrieve", "evaluate"} => lsh # NoLsh
  BY DEF SoundInv, LshKnown
<1>1. CASE CallSteps
  BY <1>1, CallSound
<1>2. CASE NextCall
  BY <1>2, NextCallSound
<1>3. CASE Build
  BY <1>3, BuildSound
<1>4. CASE Dispatch
  <2>1. UNCHANGED <<db, query, files, cached, lsh, queue, wild>> /\ pc = "sofar" /\ pc' = "index"
    BY <1>4 DEF Dispatch, indexes, perCall
  <2> QED BY <1>0, <2>1, QuietIndex DEF IndexedParts
<1>5. CASE IndexVanished
  <2>1. UNCHANGED <<db, query, files, cached, lsh, queue, wild>> /\ pc' = "points"
    BY <1>5 DEF IndexVanished, indexes, perCall
  <2> QED BY <1>0, <2>1, QuietIndex DEF IndexedParts
<1>6. CASE Allocate
  <2>1. UNCHANGED <<db, query, files, cached, lsh, queue, wild>> /\ pc = "index" /\ pc' = "allocate"
    BY <1>6 DEF Allocate, indexes, perCall
  <2> QED BY <1>0, <2>1, QuietIndex DEF IndexedParts
<1>7. CASE LoadIndex
  BY <1>7, LoadIndexSound
<1>8. CASE MakeShingles
  <2>1. /\ UNCHANGED <<db, query, files, cached, lsh, queue, wild>> /\ pc = "shingles"
        /\ pc' \in {"refused", "retrieve"} /\ j' = 0
    BY <1>8 DEF MakeShingles, indexes, perCall
  <2> QED BY <1>0, <2>1, QuietIndex DEF IndexedParts
<1>9. CASE Report
  BY <1>9, ReportSound
<1>10. CASE NextShingle
  <2>1. /\ UNCHANGED <<db, query, files, cached, lsh, queue, wild>> /\ pc = "retrieve"
        /\ \/ j' = j + 1 /\ pc' = pc
           \/ track' = NumFiles /\ pc' \in {"evaluate", "points"}
    BY <1>10 DEF NextShingle, indexes
  <2>2. j \in Nat /\ NumFiles \notin 0 .. NumFiles - 1
    <3>1. PICK n \in Nat : n = NumFiles
      BY <1>0, Tables
    <3> QED BY <1>0, <2>1, <3>1 DEF LshKnown
  <2>3. CASE j' = j + 1 /\ pc' = pc
    <3>1. j' \in Nat
      BY <2>2, <2>3
    <3> QED BY <1>0, <2>1, <2>3, <3>1, QuietIndex DEF IndexedParts
  <2>4. CASE track' = NumFiles /\ pc' \in {"evaluate", "points"}
    BY <1>0, <2>1, <2>2, <2>4, QuietIndex DEF IndexedParts
  <2> QED BY <2>1, <2>3, <2>4
<1>11. CASE LoadTrack
  BY <1>11, LoadTrackSound
<1>12. CASE TrackUnread
  <2>1. UNCHANGED <<db, query, files, cached, lsh, queue, wild>> /\ pc' = "points"
    BY <1>12 DEF TrackUnread, indexes, perCall
  <2> QED BY <1>0, <2>1, QuietIndex DEF IndexedParts
<1>13. CASE Evaluate
  BY <1>13, EvaluateSound
<1>14. CASE QueueEmpty
  <2>1. UNCHANGED <<db, query, files, cached, lsh, queue, wild>> /\ pc' = "points"
    BY <1>14 DEF QueueEmpty, indexes, perCall
  <2> QED BY <1>0, <2>1, QuietIndex DEF IndexedParts
<1>15. CASE UNCHANGED allVars
  <2>1. UNCHANGED <<db, query, files, cached, lsh, queue, wild, pc, j, track, dbpointers>>
    BY <1>15 DEF allVars, queryVars, indexes, perCall, loops, pointers
  <2>2. pc' = "evaluate" => pc = "evaluate"
    BY <2>1
  <2>3. pc' = "retrieve" => j' \in Nat
    BY <1>0, <2>1 DEF LshKnown
  <2> QED BY <1>0, <2>1, <2>2, <2>3, QuietIndex
<1> QED BY <1>1, <1>2, <1>3, <1>4, <1>5, <1>6, <1>7, <1>8, <1>9, <1>10, <1>11, <1>12, <1>13,
           <1>14, <1>15 DEF IndexedNext

(* With an index that covers no more tracks than the handle knows, and with *)
(* the powers that the query refines by, the exact evaluation reads no      *)
(* power behind a track and sums no windows of a track that has none,       *)
(* however the index was built, kept in memory, rebuilt or removed between  *)
(* the steps of the call (query.cpp:452-537): every pair in the queue is a  *)
(* window inside its track, and the track's sums are those of all its       *)
(* vectors.                                                                 *)
THEOREM ExactSound == IndexedSpec => []SoundUnlessNewer
<1>1. SoundInv => SoundUnlessNewer
  <2> SUFFICES ASSUME SoundInv, wild \/ (pc = "dead" /\ lsh # NoLsh), ~ Newer, ~ (UsesPower /\ ~ db.hasPower)
               PROVE  FALSE
    BY DEF SoundUnlessNewer
  <2>1. lsh # NoLsh
    BY DEF SoundInv, LshKnown
  <2>2. Trusted
    BY <2>1 DEF Trusted
  <2> QED BY <2>2 DEF SoundInv, TrustedSound
<1> QED BY SoundInitially, SoundStep, <1>1, PTL DEF IndexedSpec

-----------------------------------------------------------------------------
(* The sums of windows.                                                     *)

(* What a window's cells may be for their sum to be one of the doubles      *)
(* here: finite, or the power of silence, or no number.                     *)
Summable == Int \cup {NaN, NegInf}

LEMMA SumsOfTwo ==
  ASSUME NEW x \in Summable, NEW y \in Summable, NEW z \in Int
  PROVE  /\ Plus(x, y) \in Summable
         /\ x \in Int /\ y \in Int => Plus(x, y) = x + y
         /\ Minus(Plus(z, y), z) = y
         /\ Plus(Minus(z, z), y) = y
         /\ Minus(Plus(x, y), z) = Plus(Minus(x, z), y)
<1>1. NaN \notin Int /\ NegInf \notin Int /\ NaN # NegInf
  BY DoublesAssumption
<1>2. CASE x \in Int /\ y \in Int
  BY <1>1, <1>2 DEF Plus, Minus, Summable
<1>3. CASE x \notin Int \/ y \notin Int
  <2>1. Plus(x, y) \in Summable
    BY <1>1, <1>3 DEF Plus, Summable
  <2>2. Minus(Plus(z, y), z) = y
    <3>1. CASE y \in Int
      <4>1. Plus(z, y) = z + y /\ z + y \in Int
        BY <1>1, <3>1 DEF Plus
      <4>2. Minus(z + y, z) = (z + y) - z
        BY <1>1, <4>1 DEF Minus
      <4> QED
        BY <3>1, <4>1, <4>2
    <3>2. CASE y \notin Int
      BY <1>1, <3>2 DEF Plus, Minus, Summable
    <3> QED
      BY <3>1, <3>2
  <2>3. Plus(Minus(z, z), y) = y
    <3>1. Minus(z, z) = 0
      BY <1>1 DEF Minus
    <3> QED
      BY <1>1, <3>1 DEF Plus, Summable
  <2>4. Minus(Plus(x, y), z) = Plus(Minus(x, z), y)
    <3>1. CASE x \in Int
      <4>1. Minus(x, z) = x - z /\ x - z \in Int /\ y \in {NaN, NegInf}
        BY <1>1, <1>3, <3>1 DEF Minus, Summable
      <4> QED
        BY <1>1, <4>1, <3>1 DEF Plus, Minus
    <3>2. CASE x \notin Int
      <4>1. x \in {NaN, NegInf} /\ Minus(x, z) = x
        BY <3>2 DEF Minus, Summable
      <4> QED
        BY <1>1, <4>1 DEF Plus, Minus
    <3> QED
      BY <3>1, <3>2
  <2> QED
    BY <1>3, <2>1, <2>2, <2>3, <2>4
<1> QED
  BY <1>2, <1>3

(* The running sums of n cells from cell i of a buffer on.                  *)
RunningSums(f, b, i, n) ==
  /\ f \in [1 .. n -> Summable]
  /\ f[1] = b[i]
  /\ \A m \in 1 .. n - 1 : f[m + 1] = Plus(f[m], b[i + m])

LEMMA RunningSumsExist ==
  ASSUME NEW b, NEW i \in Int, NEW n \in Nat \ {0}, \A m \in 0 .. n - 1 : b[i + m] \in Summable
  PROVE  \E f : RunningSums(f, b, i, n)
<1> DEFINE F == [vm \in Summable \X (1 .. n) |->
                   IF vm[2] = 1 THEN b[i] ELSE Plus(vm[1], b[i + (vm[2] - 1)])]
<1>1. b[i] \in Summable
  <2>1. 0 \in 0 .. n - 1 /\ i + 0 = i
    OBVIOUS
  <2> QED
    BY <2>1
<1>2. F \in [Summable \X (1 .. n) -> Summable]
  <2>1. ASSUME NEW vm \in Summable \X (1 .. n)
        PROVE  (IF vm[2] = 1 THEN b[i] ELSE Plus(vm[1], b[i + (vm[2] - 1)])) \in Summable
    <3>1. PICK v \in Summable, m \in 1 .. n : v = vm[1] /\ m = vm[2]
      OBVIOUS
    <3>2. m - 1 \in 0 .. n - 1 /\ 0 \in Int
      OBVIOUS
    <3>3. b[i + (m - 1)] \in Summable
      BY <3>2
    <3>4. Plus(v, b[i + (m - 1)]) \in Summable
      BY <3>2, <3>3, SumsOfTwo
    <3> QED
      BY <1>1, <3>1, <3>4
  <2> QED
    BY <2>1
<1>3. PICK g \in [SUBSET (1 .. n) -> Summable] : Folds(g, n, b[i], F)
  <2> HIDE DEF F
  <2> QED
    BY <1>1, <1>2, FoldExists
<1>4. \A m \in 0 .. n - 1 : g[1 .. m + 1] = F[<<g[1 .. m], m + 1>>]
  <2>1. n \in Nat /\ Folds(g, n, b[i], F)
    BY <1>3
  <2> HIDE DEF F
  <2> QED
    BY ONLY <2>1, FoldPrefix
<1> DEFINE f == [m \in 1 .. n |-> g[1 .. m]]
<1>5. \A m \in 0 .. n : 1 .. m \in SUBSET (1 .. n) /\ g[1 .. m] \in Summable
  OBVIOUS
<1>6. f \in [1 .. n -> Summable]
  BY <1>5
<1>7. f[1] = b[i]
  <2>1. 0 \in 0 .. n - 1 /\ 0 \in 0 .. n /\ 1 \in 1 .. n
    OBVIOUS
  <2>2. <<g[1 .. 0], 1>> \in Summable \X (1 .. n)
    BY <1>5, <2>1
  <2>3. F[<<g[1 .. 0], 1>>] = b[i]
    BY <2>2
  <2>4. g[1 .. 0 + 1] = F[<<g[1 .. 0], 0 + 1>>]
    BY <1>4, <2>1
  <2>5. 0 + 1 = 1
    OBVIOUS
  <2>6. g[1 .. 1] = b[i]
    BY ONLY <2>3, <2>4, <2>5
  <2> QED
    BY <2>1, <2>6
<1>8. ASSUME NEW m \in 1 .. n - 1
      PROVE  f[m + 1] = Plus(f[m], b[i + m])
  <2>1. m \in 0 .. n - 1 /\ m \in 0 .. n /\ m + 1 \in 1 .. n /\ m \in 1 .. n /\ m + 1 # 1 /\ (m + 1) - 1 = m
    OBVIOUS
  <2>2. <<g[1 .. m], m + 1>> \in Summable \X (1 .. n)
    BY <1>5, <2>1
  <2>3. F[<<g[1 .. m], m + 1>>] = Plus(g[1 .. m], b[i + m])
    BY <2>1, <2>2
  <2>4. g[1 .. m + 1] = F[<<g[1 .. m], m + 1>>]
    BY <1>4, <2>1
  <2> HIDE DEF F
  <2> QED
    BY <2>1, <2>3, <2>4
<1> QED
  BY <1>6, <1>7, <1>8 DEF RunningSums

(* There are no others, so the window's sum is the last of them.            *)
LEMMA SumIsLast ==
  ASSUME NEW b, NEW i \in Int, NEW n \in Nat \ {0}, NEW f, RunningSums(f, b, i, n)
  PROVE  WindowSum(b, i, n) = f[n]
<1> DEFINE Body(g) == [m \in 1 .. n |-> IF m = 1 THEN b[i] ELSE Plus(g[m - 1], b[i + m - 1])]
           sum == CHOOSE g : g = Body(g)
<1>1. WindowSum(b, i, n) = sum[n]
  BY DEF WindowSum
<1>2. \A m \in 1 .. n : m # 1 => m - 1 \in 1 .. n - 1 /\ (m - 1) + 1 = m /\ i + (m - 1) = i + m - 1
  OBVIOUS
<1>3. f = Body(f)
  <2>1. f = [m \in 1 .. n |-> f[m]]
    BY DEF RunningSums
  <2>2. \A m \in 1 .. n : f[m] = IF m = 1 THEN b[i] ELSE Plus(f[m - 1], b[i + m - 1])
    BY <1>2 DEF RunningSums
  <2> QED
    BY <2>1, <2>2
<1>4. sum = Body(sum)
  <2> HIDE DEF Body
  <2> QED
    BY <1>3
<1> HIDE DEF sum
<1>5. /\ sum[1] = b[i]
      /\ \A m \in 1 .. n - 1 : sum[m + 1] = Plus(sum[m], b[i + m])
  <2>1. PICK g : g = sum /\ g = Body(g)
    BY <1>4
  <2>2. \A m \in 1 .. n : g[m] = IF m = 1 THEN b[i] ELSE Plus(g[m - 1], b[i + m - 1])
    BY <2>1
  <2>3. 1 \in 1 .. n
    OBVIOUS
  <2>4. ASSUME NEW m \in 1 .. n - 1
        PROVE  g[m + 1] = Plus(g[m], b[i + m])
    <3>1. m + 1 \in 1 .. n /\ m + 1 # 1 /\ (m + 1) - 1 = m /\ i + (m + 1) - 1 = i + m
      OBVIOUS
    <3> QED
      BY ONLY <2>2, <3>1
  <2> HIDE DEF Body
  <2> QED
    BY <2>1, <2>2, <2>3, <2>4
<1> DEFINE T == {m \in Nat : m + 1 <= n => sum[m + 1] = f[m + 1]}
<1>6. 0 \in T
  BY <1>5 DEF RunningSums
<1>7. ASSUME NEW m \in T
      PROVE  m + 1 \in T
  <2> SUFFICES ASSUME (m + 1) + 1 <= n
               PROVE  sum[(m + 1) + 1] = f[(m + 1) + 1]
    OBVIOUS
  <2>1. m + 1 \in 1 .. n - 1 /\ sum[m + 1] = f[m + 1]
    OBVIOUS
  <2> QED
    BY <1>5, <2>1 DEF RunningSums
<1> HIDE DEF T
<1>8. n - 1 \in T
  <2>1. T \in SUBSET Nat
    BY DEF T
  <2>2. T = Nat
    BY <1>6, <1>7, <2>1, NatSetInduction
  <2> QED
    BY <2>2
<1>9. n - 1 \in Nat /\ (n - 1) + 1 = n
  OBVIOUS
<1> QED
  BY <1>1, <1>8, <1>9 DEF T

(* A window of one more cell has a sum that is more by that cell.           *)
LEMMA SumOfMore ==
  ASSUME NEW b, NEW i \in Int, NEW n \in Nat \ {0}, \A m \in 0 .. n : b[i + m] \in Summable
  PROVE  /\ WindowSum(b, i, 1) = b[i]
         /\ WindowSum(b, i, n) \in Summable
         /\ WindowSum(b, i, n + 1) = Plus(WindowSum(b, i, n), b[i + n])
<1>1. n + 1 \in Nat \ {0} /\ (n + 1) - 1 = n /\ 0 .. (n + 1) - 1 = 0 .. n
  OBVIOUS
<1>2. PICK f : RunningSums(f, b, i, n + 1)
  BY <1>1, RunningSumsExist
<1>3. /\ f \in [1 .. n + 1 -> Summable] /\ f[1] = b[i]
      /\ \A m \in 1 .. n : f[m + 1] = Plus(f[m], b[i + m])
  BY <1>1, <1>2 DEF RunningSums
<1>4. ASSUME NEW l \in 1 .. n + 1
      PROVE  WindowSum(b, i, l) = f[l]
  <2> DEFINE g == [m \in 1 .. l |-> f[m]]
  <2>1. \A m \in 1 .. l : m \in 1 .. n + 1
    OBVIOUS
  <2>2. \A m \in 1 .. l - 1 : m \in 1 .. n /\ m \in 1 .. l /\ m + 1 \in 1 .. l
    OBVIOUS
  <2>3. 1 \in 1 .. l /\ l \in 1 .. l /\ l \in Nat \ {0}
    OBVIOUS
  <2>4. \A m \in 1 .. l : g[m] = f[m]
    OBVIOUS
  <2>5. g \in [1 .. l -> Summable]
    BY <1>3, <2>1
  <2> HIDE DEF g
  <2>6. RunningSums(g, b, i, l)
    BY <1>3, <2>2, <2>3, <2>4, <2>5 DEF RunningSums
  <2>7. WindowSum(b, i, l) = g[l]
    BY <2>3, <2>6, SumIsLast
  <2> QED
    BY <2>3, <2>4, <2>7
<1>5. 1 \in 1 .. n + 1 /\ n \in 1 .. n + 1 /\ n + 1 \in 1 .. n + 1 /\ n \in 1 .. n
  OBVIOUS
<1> QED
  BY <1>3, <1>4, <1>5

SameCells(c, p, b, i, n) == \A m \in 0 .. n - 1 : b[i + m] \in Summable /\ c[p + m] = b[i + m]

(* Windows of equal cells have equal sums.                                  *)
LEMMA SumOfSame ==
  ASSUME NEW b, NEW i \in Int, NEW c, NEW p \in Int, NEW n \in Nat \ {0},
         SameCells(c, p, b, i, n)
  PROVE  WindowSum(c, p, n) = WindowSum(b, i, n)
<1>1. PICK f : RunningSums(f, b, i, n)
  BY RunningSumsExist DEF SameCells
<1>2. RunningSums(f, c, p, n)
  <2>1. 0 \in 0 .. n - 1 /\ i + 0 = i /\ p + 0 = p
    OBVIOUS
  <2>2. \A m \in 1 .. n - 1 : m \in 0 .. n - 1
    OBVIOUS
  <2> QED
    BY <1>1, <2>1, <2>2 DEF RunningSums, SameCells
<1> QED
  BY <1>1, <1>2, SumIsLast

(* Finite cells have a finite sum.                                          *)
LEMMA SumFinite ==
  ASSUME NEW b, NEW i \in Int, NEW n \in Nat \ {0}, \A m \in 0 .. n - 1 : b[i + m] \in Int
  PROVE  WindowSum(b, i, n) \in Int
<1>1. PICK f : RunningSums(f, b, i, n)
  BY RunningSumsExist DEF Summable
<1> DEFINE T == {m \in Nat : m + 1 <= n => f[m + 1] \in Int}
<1>2. 0 \in T
  <2>1. 0 \in 0 .. n - 1 /\ i + 0 = i
    OBVIOUS
  <2>2. b[i] \in Int
    BY <2>1
  <2>3. f[1] \in Int
    BY <1>1, <2>2 DEF RunningSums
  <2>4. 0 \in Nat /\ 0 + 1 = 1
    OBVIOUS
  <2> QED
    BY ONLY <2>3, <2>4
<1>3. ASSUME NEW m \in T
      PROVE  m + 1 \in T
  <2> SUFFICES ASSUME (m + 1) + 1 <= n
               PROVE  f[(m + 1) + 1] \in Int
    OBVIOUS
  <2>1. m + 1 \in 1 .. n - 1 /\ m + 1 \in 0 .. n - 1 /\ f[m + 1] \in Int
    OBVIOUS
  <2>2. PICK x \in Int, y \in Int : x = f[m + 1] /\ y = b[i + (m + 1)]
    BY <2>1
  <2>3. Plus(x, y) \in Int
    <3>1. Plus(x, y) = x + y
      BY SumsOfTwo DEF Summable
    <3> QED
      BY <3>1
  <2> QED
    BY <1>1, <2>1, <2>2, <2>3 DEF RunningSums
<1> HIDE DEF T
<1>4. n - 1 \in T /\ (n - 1) + 1 = n
  <2>1. T \in SUBSET Nat
    BY DEF T
  <2>2. T = Nat
    BY <1>2, <1>3, <2>1, NatSetInduction
  <2> QED
    BY <2>2
<1>5. f[n] \in Int
  BY <1>4 DEF T
<1> QED
  BY <1>1, <1>5, SumIsLast

(* A finite cell that leaves the window can be taken off its sum.           *)
LEMMA SumOfLess ==
  ASSUME NEW b, NEW i \in Int, NEW n \in Nat \ {0}, b[i] \in Int,
         \A m \in 0 .. n : b[i + m] \in Summable
  PROVE  Minus(WindowSum(b, i, n + 1), b[i]) = WindowSum(b, i + 1, n)
<1> DEFINE Has(m) == m + 1 <= n => Minus(WindowSum(b, i, m + 2), b[i]) = WindowSum(b, i + 1, m + 1)
           T == {m \in Nat : Has(m)}
<1>1. ASSUME NEW l \in 1 .. n
      PROVE  /\ WindowSum(b, i, l) \in Summable /\ b[i + l] \in Summable
             /\ WindowSum(b, i, l + 1) = Plus(WindowSum(b, i, l), b[i + l])
  <2>1. l \in Nat \ {0} /\ (\A m \in 0 .. l : b[i + m] \in Summable)
    OBVIOUS
  <2>2. b[i + l] \in Summable
    BY <2>1
  <2> QED
    BY <2>1, <2>2, SumOfMore
<1>2. ASSUME NEW l \in 1 .. n - 1
      PROVE  WindowSum(b, i + 1, l + 1) = Plus(WindowSum(b, i + 1, l), b[i + (l + 1)])
  <2>1. \A m \in 0 .. l : b[(i + 1) + m] \in Summable
    <3>1. \A m \in 0 .. l : m + 1 \in 0 .. n /\ (i + 1) + m = i + (m + 1)
      OBVIOUS
    <3> QED
      BY <3>1
  <2>2. l \in Nat \ {0} /\ i + 1 \in Int /\ (i + 1) + l = i + (l + 1)
    OBVIOUS
  <2>3. WindowSum(b, i + 1, l + 1) = Plus(WindowSum(b, i + 1, l), b[(i + 1) + l])
    BY <2>1, <2>2, SumOfMore
  <2> QED
    BY <2>2, <2>3
<1>3. WindowSum(b, i, 1) = b[i]
  BY SumOfMore
<1>4. b[i + 1] \in Summable /\ WindowSum(b, i + 1, 1) = b[i + 1]
  <2>1. 1 \in 0 .. n
    OBVIOUS
  <2>2. b[i + 1] \in Summable
    BY <2>1
  <2>3. \A m \in 0 .. 1 - 1 : b[(i + 1) + m] \in Summable /\ b[(i + 1) + m] = b[(i + 1) + m]
    <3>1. \A m \in 0 .. 1 - 1 : (i + 1) + m = i + 1
      OBVIOUS
    <3> QED
      BY <2>2, <3>1
  <2>4. 1 \in Nat \ {0} /\ i + 1 \in Int
    OBVIOUS
  <2>5. PICK f : RunningSums(f, b, i + 1, 1)
    BY ONLY <2>3, <2>4, RunningSumsExist
  <2>6. WindowSum(b, i + 1, 1) = f[1]
    BY <2>4, <2>5, SumIsLast
  <2> QED
    BY <2>2, <2>5, <2>6 DEF RunningSums
<1>5. 0 \in T
  <2>1. 1 \in 1 .. n /\ 1 + 1 = 0 + 2 /\ 0 + 1 = 1 /\ 0 \in Nat
    OBVIOUS
  <2>2. WindowSum(b, i, 0 + 2) = Plus(b[i], b[i + 1])
    BY <1>1, <1>3, <2>1
  <2>3. Minus(Plus(b[i], b[i + 1]), b[i]) = b[i + 1]
    BY <1>4, SumsOfTwo
  <2>4. Has(0)
    BY <1>4, <2>1, <2>2, <2>3
  <2> HIDE DEF Has
  <2> QED
    BY <2>1, <2>4
<1>6. ASSUME NEW m \in T
      PROVE  m + 1 \in T
  <2>1. m \in Nat /\ m + 1 \in Nat /\ Has(m)
    <3> HIDE DEF Has
    <3> QED
      OBVIOUS
  <2>2. Has(m + 1)
    <3> SUFFICES ASSUME (m + 1) + 1 <= n
                 PROVE  Minus(WindowSum(b, i, (m + 1) + 2), b[i]) = WindowSum(b, i + 1, (m + 1) + 1)
      OBVIOUS
    <3>1. m + 2 \in 1 .. n /\ m + 1 \in 1 .. n - 1 /\ (m + 1) + 2 = (m + 2) + 1 /\ m + 1 <= n /\ (m + 1) + 1 = m + 2
      BY <2>1
    <3>2. PICK x, y : x = WindowSum(b, i, m + 2) /\ y = b[i + (m + 2)]
      OBVIOUS
    <3>3. x \in Summable /\ y \in Summable /\ WindowSum(b, i, (m + 1) + 2) = Plus(x, y)
      BY <1>1, <3>1, <3>2
    <3>4. Minus(Plus(x, y), b[i]) = Plus(Minus(x, b[i]), y)
      BY <3>3, SumsOfTwo
    <3>5. Minus(x, b[i]) = WindowSum(b, i + 1, m + 1)
      BY <2>1, <3>1, <3>2
    <3>6. WindowSum(b, i + 1, (m + 1) + 1) = Plus(WindowSum(b, i + 1, m + 1), b[i + ((m + 1) + 1)])
      BY <1>2, <3>1
    <3>7. b[i + ((m + 1) + 1)] = y
      BY <3>1, <3>2
    <3> QED
      BY ONLY <3>3, <3>4, <3>5, <3>6, <3>7
  <2> HIDE DEF Has
  <2> QED
    BY <2>1, <2>2
<1> HIDE DEF T, Has
<1>7. Has(n - 1)
  <2>1. T \in SUBSET Nat
    BY DEF T
  <2>2. T = Nat
    BY <1>5, <1>6, <2>1, NatSetInduction
  <2>3. n - 1 \in Nat
    OBVIOUS
  <2> QED
    BY <2>2, <2>3 DEF T
<1>8. (n - 1) + 1 = n /\ (n - 1) + 2 = n + 1 /\ n <= n
  OBVIOUS
<1> QED
  BY <1>7, <1>8 DEF Has

(* A window slides by one cell, whatever the cells in it.                   *)
LEMMA SumSlides ==
  ASSUME NEW b, NEW i \in Int, NEW n \in Nat \ {0}, \A m \in 0 .. n : b[i + m] \in Summable
  PROVE  Slid(WindowSum(b, i, n), b, i + 1, n) = WindowSum(b, i + 1, n)
<1>1. (i + 1) - 1 = i /\ i + 1 + n - 1 = i + n /\ i + 1 \in Int
  OBVIOUS
<1>2. CASE b[i] \notin Int
  BY <1>1, <1>2 DEF Slid
<1>3. CASE b[i] \in Int
  <2>1. Slid(WindowSum(b, i, n), b, i + 1, n) = Plus(Minus(WindowSum(b, i, n), b[i]), b[i + n])
    BY <1>1, <1>3 DEF Slid
  <2>2. PICK y \in Summable : y = b[i + n]
    <3>1. n \in 0 .. n
      OBVIOUS
    <3> QED
      BY <3>1
  <2>3. CASE n = 1
    <3>1. WindowSum(b, i, n) = b[i] /\ 0 \in Nat /\ 1 \in Nat \ {0}
      BY <2>3, SumOfMore
    <3>2. \A m \in 0 .. 1 - 1 : b[(i + 1) + m] \in Summable
      <4>1. \A m \in 0 .. 1 - 1 : (i + 1) + m = i + n
        BY <2>3
      <4> QED
        BY <2>2, <4>1
    <3>3. PICK f : RunningSums(f, b, i + 1, 1)
      BY <1>1, <3>1, <3>2, RunningSumsExist
    <3>4. WindowSum(b, i + 1, 1) = b[i + 1]
      <4>1. WindowSum(b, i + 1, 1) = f[1]
        BY <1>1, <3>1, <3>3, SumIsLast
      <4> QED
        BY <3>3, <4>1 DEF RunningSums
    <3>5. Plus(Minus(b[i], b[i]), y) = y
      BY <1>3, <2>2, SumsOfTwo
    <3> QED
      BY ONLY <2>1, <2>2, <2>3, <3>1, <3>4, <3>5
  <2>4. CASE n # 1
    <3>1. PICK l \in Nat \ {0} : n = l + 1
      <4>1. n - 1 \in Nat \ {0} /\ n = (n - 1) + 1
        BY <2>4
      <4> QED
        BY <4>1
    <3>2. \A m \in 0 .. l : b[i + m] \in Summable
      BY <3>1
    <3>3. Minus(WindowSum(b, i, l + 1), b[i]) = WindowSum(b, i + 1, l)
      BY <1>3, <3>2, SumOfLess
    <3>4. \A m \in 0 .. l : b[(i + 1) + m] \in Summable
      <4>1. \A m \in 0 .. l : m + 1 \in 0 .. n /\ (i + 1) + m = i + (m + 1)
        BY <3>1
      <4> QED
        BY <4>1
    <3>5. WindowSum(b, i + 1, l + 1) = Plus(WindowSum(b, i + 1, l), b[(i + 1) + l])
      BY <1>1, <3>4, SumOfMore
    <3>6. (i + 1) + l = i + n
      BY <3>1
    <3> QED
      BY ONLY <2>1, <3>1, <3>3, <3>5, <3>6
  <2> QED
    BY <2>3, <2>4
<1> QED
  BY <1>2, <1>3

(* audiodb_sequence_sum leaves each window's sum in its first cell.         *)
LEMMA SequencesSummed ==
  ASSUME NEW s \in Seq(Summable), NEW n \in Nat \ {0}, NEW i \in 1 .. Len(s) - n + 1
  PROVE  SequenceSum(s, n)[i] = WindowSum(s, i, n)
<1>1. PICK last \in Int : last = Len(s) - n + 1 /\ last <= Len(s)
  OBVIOUS
<1>2. \A l \in 1 .. Len(s) : s[l] \in Summable
  OBVIOUS
<1> DEFINE Body(g) == [l \in 1 .. last |-> IF l = 1 THEN WindowSum(s, 1, n) ELSE Slid(g[l - 1], s, l, n)]
           sum == CHOOSE g : g = Body(g)
           f == [l \in 1 .. last |-> WindowSum(s, l, n)]
<1>3. SequenceSum(s, n)[i] = sum[i]
  BY <1>1 DEF SequenceSum
<1>4. ASSUME NEW l \in 1 .. last - 1
      PROVE  Slid(WindowSum(s, l, n), s, l + 1, n) = WindowSum(s, l + 1, n)
  <2>1. \A m \in 0 .. n : s[l + m] \in Summable
    <3>1. \A m \in 0 .. n : l + m \in 1 .. Len(s)
      BY <1>1
    <3> QED
      BY <1>2, <3>1
  <2>2. l \in Int
    OBVIOUS
  <2> QED
    BY <2>1, <2>2, SumSlides
<1>5. \A l \in 1 .. last : l # 1 => l - 1 \in 1 .. last - 1 /\ l - 1 \in 1 .. last /\ (l - 1) + 1 = l
  OBVIOUS
<1>6. f = Body(f)
  <2>1. ASSUME NEW l \in 1 .. last
        PROVE  WindowSum(s, l, n) = IF l = 1 THEN WindowSum(s, 1, n) ELSE Slid(f[l - 1], s, l, n)
    <3>1. CASE l = 1
      BY <3>1
    <3>2. CASE l # 1
      <4>1. f[l - 1] = WindowSum(s, l - 1, n)
        BY <1>5, <3>2
      <4>2. Slid(WindowSum(s, l - 1, n), s, l, n) = WindowSum(s, l, n)
        <5>1. l - 1 \in 1 .. last - 1 /\ (l - 1) + 1 = l
          BY <1>5, <3>2
        <5>2. Slid(WindowSum(s, l - 1, n), s, (l - 1) + 1, n) = WindowSum(s, (l - 1) + 1, n)
          BY ONLY <1>4, <5>1
        <5> QED
          BY ONLY <5>1, <5>2
      <4> HIDE DEF f
      <4> QED
        BY <3>2, <4>1, <4>2
    <3> QED
      BY <3>1, <3>2
  <2> QED
    BY <2>1
<1>7. sum = Body(sum)
  <2> HIDE DEF Body, f
  <2> QED
    BY <1>6
<1> HIDE DEF sum
<1>8. \A l \in 1 .. last : sum[l] = IF l = 1 THEN WindowSum(s, 1, n) ELSE Slid(sum[l - 1], s, l, n)
  <2>1. PICK g : g = sum /\ g = Body(g)
    BY <1>7
  <2>2. \A l \in 1 .. last : g[l] = IF l = 1 THEN WindowSum(s, 1, n) ELSE Slid(g[l - 1], s, l, n)
    BY <2>1
  <2> HIDE DEF Body
  <2> QED
    BY <2>1, <2>2
<1> DEFINE T == {m \in Nat : m + 1 <= last => sum[m + 1] = WindowSum(s, m + 1, n)}
<1>9. 0 \in T
  <2>1. 1 \in 1 .. last
    BY <1>1
  <2>2. sum[1] = WindowSum(s, 1, n)
    BY <1>8, <2>1
  <2>3. 0 \in Nat /\ 0 + 1 = 1
    OBVIOUS
  <2> QED
    BY ONLY <2>2, <2>3
<1>10. ASSUME NEW m \in T
       PROVE  m + 1 \in T
  <2> SUFFICES ASSUME (m + 1) + 1 <= last
               PROVE  sum[(m + 1) + 1] = WindowSum(s, (m + 1) + 1, n)
    OBVIOUS
  <2>1. m + 1 \in 1 .. last - 1 /\ (m + 1) + 1 \in 1 .. last /\ (m + 1) + 1 # 1 /\ ((m + 1) + 1) - 1 = m + 1
    OBVIOUS
  <2>2. sum[m + 1] = WindowSum(s, m + 1, n)
    OBVIOUS
  <2>3. sum[(m + 1) + 1] = Slid(sum[m + 1], s, (m + 1) + 1, n)
    BY ONLY <1>8, <2>1
  <2> QED
    BY ONLY <1>4, <2>1, <2>2, <2>3
<1> HIDE DEF T
<1>11. i - 1 \in T
  <2>1. T \in SUBSET Nat
    BY DEF T
  <2>2. T = Nat
    BY <1>9, <1>10, <2>1, NatSetInduction
  <2> QED
    BY <2>2
<1>12. (i - 1) + 1 = i /\ i <= last
  BY <1>1
<1> QED
  BY <1>3, <1>11, <1>12 DEF T

(* Each vector's norm, squared, is finite if its doubles are.               *)
LEMMA NormsFinite ==
  ASSUME db.dim \in Nat \ {0}, NEW s \in Seq(Int), NEW n \in Nat, n * db.dim <= Len(s)
  PROVE  L2norms(s, n) \in Seq(Int) /\ Len(L2norms(s, n)) = n
<1>1. PICK d \in Nat \ {0} : d = db.dim
  OBVIOUS
<1>2. ASSUME NEW i \in 1 .. n
      PROVE  DotProduct(VectorAt(s, i - 1), VectorAt(s, i - 1)) \in Int
  <2>1. PICK v : v = VectorAt(s, i - 1)
    OBVIOUS
  <2>2. /\ i * d <= n * d /\ (i - 1) * d \in Nat /\ i * d = (i - 1) * d + d
    <3>1. PICK e \in Nat : n = i + e
      <4>1. n - i \in Nat /\ n = i + (n - i)
        OBVIOUS
      <4> QED
        BY <4>1
    <3>2. PICK p \in Nat : i = p + 1
      <4>1. i - 1 \in Nat /\ i = (i - 1) + 1
        OBVIOUS
      <4> QED
        BY <4>1
    <3>3. /\ (i + e) * d = i * d + e * d /\ e * d \in Nat /\ i * d \in Nat
          /\ (p + 1) * d = p * d + d /\ p * d \in Nat
      OBVIOUS
    <3>4. i - 1 = p
      BY <3>2
    <3>5. i * d <= n * d
      BY ONLY <3>1, <3>3
    <3> QED
      BY ONLY <3>2, <3>3, <3>4, <3>5
  <2>3. PICK a \in Nat, z \in Nat : a = (i - 1) * d /\ z = i * d /\ z = a + d /\ z <= Len(s)
    <3>1. n * d <= Len(s)
      BY <1>1
    <3>2. PICK a \in Nat, z \in Nat, u \in Nat : a = (i - 1) * d /\ z = i * d /\ u = n * d
      BY <2>2
    <3>3. z = a + d /\ z \in Nat /\ z <= u /\ u <= Len(s)
      BY <2>2, <3>1, <3>2
    <3>4. u \in Nat /\ Len(s) \in Nat
      BY <3>2
    <3>5. z <= Len(s)
      BY ONLY <3>3, <3>4
    <3> QED
      BY <3>2, <3>3, <3>5
  <2>4. v = SubSeq(s, a + 1, z)
    <3>1. i - 1 + 1 = i
      OBVIOUS
    <3> QED
      BY <1>1, <2>1, <2>3, <3>1 DEF VectorAt
  <2>5. v \in Seq(Int) /\ Len(v) = d
    <3>1. \A l \in a + 1 .. z : s[l] \in Int
      <4>1. s \in Seq(Int) /\ a \in Nat /\ z \in Nat /\ z <= Len(s)
        BY <2>3
      <4> QED
        BY ONLY <4>1
    <3>2. z - (a + 1) + 1 = d
      BY <2>3
    <3> QED
      BY <2>3, <2>4, <3>1, <3>2, SubSeqProperties
  <2> DEFINE w == [l \in DOMAIN v |-> v[l] * v[l]]
  <2>6. DOMAIN v = 1 .. d /\ \A l \in 1 .. d : v[l] \in Int /\ v[l] * v[l] \in Int
    <3>1. DOMAIN v = 1 .. d /\ \A l \in 1 .. d : v[l] \in Int
      BY <2>5
    <3>2. \A x \in Int : x * x \in Int
      OBVIOUS
    <3> QED
      BY <3>1, <3>2
  <2>7. w \in Seq(Int) /\ Len(w) = d
    BY <2>6
  <2>8. \A m \in 0 .. d - 1 : w[1 + m] \in Int
    <3>1. \A m \in 0 .. d - 1 : 1 + m \in 1 .. d
      OBVIOUS
    <3> HIDE DEF w
    <3> QED
      BY <2>7, <3>1
  <2>9. DotProduct(v, v) = WindowSum(w, 1, d)
    BY <2>7 DEF DotProduct, SumOf
  <2> HIDE DEF w
  <2>10. WindowSum(w, 1, d) \in Int
    BY <2>8, SumFinite
  <2> QED
    BY <2>1, <2>9, <2>10
<1>3. L2norms(s, n) = [i \in 1 .. n |-> DotProduct(VectorAt(s, i - 1), VectorAt(s, i - 1))]
  BY DEF L2norms
<1> QED
  BY <1>2, <1>3

(* Sequences of lengths ls put one behind another, in iter: the first m of  *)
(* them in iter[1 .. m], and where each of them starts.                     *)
Concatenates(iter, P, N, S, ls, start) ==
  /\ P \in [0 .. N - 1 -> Seq(S)]
  /\ \A t \in 0 .. N - 1 : ls[t] = Len(P[t])
  /\ Accumulates(start, N, ls)
  /\ iter[1 .. 0] = <<>>
  /\ \A m \in 0 .. N - 1 : iter[1 .. m + 1] = iter[1 .. m] \o P[m]

LEMMA Concatenated ==
  ASSUME NEW N \in Nat, NEW S, NEW P, NEW ls, NEW start, NEW iter,
         Concatenates(iter, P, N, S, ls, start)
  PROVE  \A t \in 0 .. N - 1 : \A i \in 1 .. ls[t] : iter[1 .. N][start[t] + i] = P[t][i]
<1> DEFINE InPlace(c, m) == \A t \in 0 .. m - 1 : \A i \in 1 .. ls[t] : c[start[t] + i] = P[t][i]
           Has(m) == m <= N => /\ iter[1 .. m] \in Seq(S)
                               /\ Len(iter[1 .. m]) = start[m]
                               /\ InPlace(iter[1 .. m], m)
           T == {m \in Nat : Has(m)}
<1>0. /\ P \in [0 .. N - 1 -> Seq(S)] /\ \A t \in 0 .. N - 1 : ls[t] = Len(P[t])
      /\ Accumulates(start, N, ls)
      /\ iter[1 .. 0] = <<>> /\ \A m \in 0 .. N - 1 : iter[1 .. m + 1] = iter[1 .. m] \o P[m]
  BY DEF Concatenates
<1>1. /\ start \in [0 .. N -> Nat] /\ start[0] = 0
      /\ \A t \in 1 .. N : start[t] = start[t - 1] + ls[t - 1]
  BY <1>0 DEF Accumulates
<1>2. \A t \in 0 .. N - 1 : ls[t] \in Nat /\ P[t] \in Seq(S) /\ Len(P[t]) = ls[t]
  <2> SUFFICES ASSUME NEW t \in 0 .. N - 1
               PROVE  ls[t] \in Nat /\ P[t] \in Seq(S) /\ Len(P[t]) = ls[t]
    OBVIOUS
  <2>1. PICK q \in Seq(S) : q = P[t]
    BY <1>0
  <2>2. Len(q) \in Nat
    BY LenProperties
  <2>3. ls[t] = Len(q)
    BY <1>0, <2>1
  <2> QED
    BY <2>1, <2>2, <2>3
<1>3. 0 \in T
  <2>1. <<>> \in Seq(S) /\ Len(<<>>) = 0
    OBVIOUS
  <2>2. InPlace(iter[1 .. 0], 0)
    OBVIOUS
  <2>3. Has(0)
    <3> HIDE DEF InPlace
    <3> QED
      BY <1>0, <1>1, <2>1, <2>2
  <2> HIDE DEF Has
  <2> QED
    BY <2>3
<1>4. ASSUME NEW m \in T
      PROVE  m + 1 \in T
  <2>1. m \in Nat /\ m + 1 \in Nat /\ Has(m)
    <3> HIDE DEF Has
    <3> QED
      OBVIOUS
  <2>2. ASSUME m + 1 <= N
        PROVE  /\ iter[1 .. m + 1] \in Seq(S)
               /\ Len(iter[1 .. m + 1]) = start[m + 1]
               /\ InPlace(iter[1 .. m + 1], m + 1)
    <3>1. m <= N /\ m \in 0 .. N - 1 /\ m + 1 \in 1 .. N /\ (m + 1) - 1 = m
      <4>1. m \in Nat
        BY <2>1
      <4> QED
        BY ONLY <2>2, <4>1, N \in Nat
    <3>2. PICK c \in Seq(S) : c = iter[1 .. m] /\ Len(c) = start[m] /\ InPlace(c, m)
      <4> HIDE DEF InPlace
      <4> QED
        BY <2>1, <3>1
    <3>3. PICK q \in Seq(S) : q = P[m] /\ Len(q) = ls[m]
      BY <1>2, <3>1
    <3>4. start[m + 1] = start[m] + ls[m]
      BY <1>1, <3>1
    <3>5. iter[1 .. m + 1] = c \o q
      BY <1>0, <3>1, <3>2, <3>3
    <3>6. /\ c \o q \in Seq(S) /\ Len(c \o q) = Len(c) + Len(q)
          /\ \A i \in 1 .. Len(c) : (c \o q)[i] = c[i]
          /\ \A i \in 1 .. Len(q) : (c \o q)[Len(c) + i] = q[i]
      <4>1. c \in Seq(S) /\ q \in Seq(S)
        OBVIOUS
      <4> QED
        BY ONLY <4>1, ConcatProperties
    <3>7. ASSUME NEW t \in 0 .. (m + 1) - 1, NEW i \in 1 .. ls[t]
          PROVE  (c \o q)[start[t] + i] = P[t][i]
      <4>1. CASE t = m
        BY <3>2, <3>3, <3>6, <4>1
      <4>2. CASE t # m
        <5>1. t \in 0 .. m - 1 /\ t \in 0 .. N - 1 /\ m \in 0 .. N
          BY <2>1, <3>1, <4>2
        <5>2. start[t] + ls[t] <= start[m]
          <6>1. m \in t + 1 .. N
            BY <2>1, <3>1, <5>1
          <6>2. \A u \in 0 .. N - 1 : ls[u] \in Nat
            BY <1>2
          <6> QED
            BY <1>0, <5>1, <6>1, <6>2, AccumulationMonotone
        <5>3. c[start[t] + i] = P[t][i]
          BY <3>2, <5>1
        <5>4. start[t] + i \in 1 .. Len(c)
          <6>0. t \in 0 .. N
            BY <5>1
          <6>1. PICK a \in Nat, l \in Nat : a = start[t] /\ l = ls[t]
            BY <1>1, <1>2, <5>1, <6>0
          <6>2. PICK z \in Nat : z = start[m]
            BY <1>1, <5>1
          <6>3. a + l <= z /\ i \in 1 .. l
            BY <5>2, <6>1, <6>2
          <6>4. a + i \in 1 .. z
            BY ONLY <6>3, a \in Nat, l \in Nat, z \in Nat
          <6> QED
            BY <3>2, <6>1, <6>2, <6>4
        <5> QED
          BY <3>6, <5>3, <5>4
      <4> QED
        BY <4>1, <4>2
    <3>8. InPlace(c \o q, m + 1)
      BY <3>7
    <3> HIDE DEF InPlace
    <3> QED
      BY <3>2, <3>3, <3>4, <3>5, <3>6, <3>8
  <2>3. Has(m + 1)
    <3> HIDE DEF InPlace
    <3> QED
      BY <2>2
  <2> HIDE DEF Has
  <2> QED
    BY <2>1, <2>3
<1> HIDE DEF T, Has
<1>5. Has(N)
  <2>1. T \in SUBSET Nat
    BY DEF T
  <2>2. T = Nat
    BY <1>3, <1>4, <2>1, NatSetInduction
  <2> QED
    BY <2>2 DEF T
<1> QED
  BY <1>5 DEF Has

(* A track's part of a table, and its windows' sums.                        *)
PartOf(table, t) == SubSeq(table, FirstVector(t) + 1, FirstVector(t) + TrackLength(t))

SumsOf(table, t) ==
  IF TrackLength(t) >= query.seqlen THEN SequenceSum(PartOf(table, t), query.seqlen)
  ELSE PartOf(table, t)

LEMMA SumsOfTrack ==
  ASSUME db \in Databases, query \in Queries, NEW table \in Seq(Summable),
         Len(table) = VectorStart[NumFiles], NEW t \in 0 .. NumFiles - 1
  PROVE  /\ SumsOf(table, t) \in Seq(Summable) /\ Len(SumsOf(table, t)) = TrackLength(t)
         /\ \A i \in 1 .. TrackLength(t) - query.seqlen + 1 :
              SumsOf(table, t)[i] = WindowSum(table, FirstVector(t) + i, query.seqlen)
<1>1. PICK N \in Nat : N = NumFiles
  BY Tables
<1>2. PICK n \in Nat \ {0} : n = query.seqlen
  BY QueryTypes
<1>3. t \in 0 .. N /\ t \in 0 .. N - 1 /\ N \in t + 1 .. N
  BY <1>1
<1>4. PICK v \in Nat, l \in Nat : v = FirstVector(t) /\ l = TrackLength(t) /\ v + l <= Len(table)
  <2>1. PICK ls : ls = [u \in 0 .. NumFiles - 1 |-> TrackLength(u)]
    OBVIOUS
  <2>2. \A u \in 0 .. N - 1 : ls[u] \in Nat /\ ls[u] = TrackLength(u)
    BY <1>1, <2>1, Tables
  <2>3. PICK f : f = VectorStart
    OBVIOUS
  <2>4. Accumulates(f, N, ls) /\ f[t] \in Nat /\ f[t] = FirstVector(t) /\ Len(table) = f[N]
    BY <1>1, <1>3, <2>1, <2>3, VectorStarts
  <2>5. f[t] + ls[t] <= f[N]
    BY <1>3, <2>2, <2>4, AccumulationMonotone
  <2> QED
    BY <1>3, <2>2, <2>4, <2>5
<1>5. PICK p : p = PartOf(table, t)
  OBVIOUS
<1>6. /\ p \in Seq(Summable) /\ Len(p) = l
      /\ \A i \in 1 .. l : p[i] = table[v + i] /\ table[v + i] \in Summable
  <2>1. p = SubSeq(table, v + 1, v + l)
    BY <1>4, <1>5 DEF PartOf
  <2>2. \A i \in v + 1 .. v + l : table[i] \in Summable
    BY <1>4
  <2>3. /\ SubSeq(table, v + 1, v + l) \in Seq(Summable)
        /\ Len(SubSeq(table, v + 1, v + l)) = IF v + 1 <= v + l THEN (v + l) - (v + 1) + 1 ELSE 0
        /\ \A i \in 1 .. (v + l) - (v + 1) + 1 : SubSeq(table, v + 1, v + l)[i] = table[(v + 1) + i - 1]
    <3>1. v + 1 \in Int /\ v + l \in Int
      OBVIOUS
    <3> QED
      BY ONLY <2>2, <3>1, SubSeqProperties
  <2>4. \A i \in 1 .. l : i \in 1 .. (v + l) - (v + 1) + 1 /\ (v + 1) + i - 1 = v + i /\ v + i \in v + 1 .. v + l
    OBVIOUS
  <2>5. l = IF v + 1 <= v + l THEN (v + l) - (v + 1) + 1 ELSE 0
    OBVIOUS
  <2> QED
    BY <2>1, <2>2, <2>3, <2>4, <2>5
<1>7. CASE ~ (l >= n)
  <2>1. SumsOf(table, t) = p
    BY <1>2, <1>4, <1>5, <1>7 DEF SumsOf
  <2>2. 1 .. l - n + 1 = {}
    BY <1>7
  <2> QED
    BY <1>2, <1>4, <1>6, <2>1, <2>2
<1>8. CASE l >= n
  <2>1. SumsOf(table, t) = SequenceSum(p, n)
    BY <1>2, <1>4, <1>5, <1>8 DEF SumsOf
  <2>2. ASSUME NEW i \in 1 .. l - n + 1
        PROVE  SequenceSum(p, n)[i] \in Summable /\ SequenceSum(p, n)[i] = WindowSum(table, v + i, n)
    <3>1. i \in 1 .. Len(p) - n + 1 /\ i \in Int /\ v + i \in Int
      BY <1>6
    <3>2. SequenceSum(p, n)[i] = WindowSum(p, i, n)
      BY <1>6, <3>1, SequencesSummed
    <3>3. \A m \in 0 .. n - 1 : table[(v + i) + m] \in Summable /\ p[i + m] = table[(v + i) + m]
      <4>1. \A m \in 0 .. n - 1 : i + m \in 1 .. l /\ v + (i + m) = (v + i) + m
        OBVIOUS
      <4>2. \A o \in 1 .. l : p[o] = table[v + o] /\ table[v + o] \in Summable
        BY <1>6
      <4> QED
        BY ONLY <4>1, <4>2
    <3>4. WindowSum(p, i, n) = WindowSum(table, v + i, n)
      <4>1. PICK o \in Int : o = v + i
        BY <3>1
      <4>2. n \in Nat \ {0} /\ i \in Int /\ o \in Int /\ SameCells(p, i, table, o, n)
        BY <3>1, <3>3, <4>1 DEF SameCells
      <4>3. WindowSum(p, i, n) = WindowSum(table, o, n)
        BY ONLY <4>2, SumOfSame
      <4> QED
        BY <4>1, <4>3
    <3>5. WindowSum(table, v + i, n) \in Summable
      <4>1. PICK f : RunningSums(f, table, v + i, n)
        BY <3>1, <3>3, RunningSumsExist
      <4>2. f[n] \in Summable /\ WindowSum(table, v + i, n) = f[n]
        <5>1. n \in 1 .. n /\ n \in Nat \ {0}
          OBVIOUS
        <5>2. WindowSum(table, v + i, n) = f[n]
          BY ONLY <3>1, <4>1, <5>1, SumIsLast
        <5>3. f \in [1 .. n -> Summable]
          BY ONLY <4>1 DEF RunningSums
        <5> QED
          BY ONLY <5>1, <5>2, <5>3
      <4> QED
        BY <4>2
    <3> QED
      BY <3>2, <3>4, <3>5
  <2>3. SequenceSum(p, n) \in Seq(Summable) /\ Len(SequenceSum(p, n)) = l
    <3>1. PICK g : g = SequenceSum(p, n)
      OBVIOUS
    <3>2. DOMAIN g = 1 .. l /\ g = [i \in 1 .. l |-> g[i]]
      BY <1>6, <3>1 DEF SequenceSum
    <3>3. \A i \in 1 .. l : i \notin 1 .. l - n + 1 => g[i] = p[i]
      BY <1>6, <3>1 DEF SequenceSum
    <3>4. \A i \in 1 .. l : p[i] \in Summable
      BY <1>6
    <3>5. \A i \in 1 .. l : g[i] \in Summable
      BY ONLY <2>2, <3>1, <3>3, <3>4
    <3>6. l \in Nat
      OBVIOUS
    <3>7. g \in Seq(Summable) /\ Len(g) = l
      BY ONLY <3>2, <3>5, <3>6
    <3> QED
      BY <3>1, <3>7
  <2> QED
    BY <1>2, <1>4, <2>1, <2>2, <2>3
<1> QED
  BY <1>7, <1>8

(* Each track's windows are summed, whatever tracks there are before it.    *)
LEMMA TracksSummed ==
  ASSUME db \in Databases, query \in Queries, NEW table \in Seq(Summable),
         Len(table) = VectorStart[NumFiles], NEW t \in 0 .. NumFiles - 1,
         NEW i \in 1 .. TrackLength(t) - query.seqlen + 1
  PROVE  ByTrack(table)[FirstVector(t) + i] = WindowSum(table, FirstVector(t) + i, query.seqlen)
<1> DEFINE seq == [m \in 1 .. NumFiles |-> m - 1]
           Body(g) == [s \in SUBSET DOMAIN seq |->
                         IF s = {} THEN <<>>
                         ELSE g[s \ {Max(s)}] \o
                                LET part == SubSeq(table, FirstVector(seq[Max(s)]) + 1,
                                                   FirstVector(seq[Max(s)]) + TrackLength(seq[Max(s)]))
                                IN  IF TrackLength(seq[Max(s)]) >= query.seqlen
                                    THEN SequenceSum(part, query.seqlen) ELSE part]
           iter == CHOOSE g : g = Body(g)
<1>1. PICK N \in Nat : N = NumFiles
  BY Tables
<1> DEFINE P == [u \in 0 .. N - 1 |-> SumsOf(table, u)]
           F == [vm \in Seq(Summable) \X (1 .. N) |-> vm[1] \o P[vm[2] - 1]]
<1>2. P \in [0 .. N - 1 -> Seq(Summable)] /\ \A u \in 0 .. N - 1 : Len(P[u]) = TrackLength(u) /\ P[u] = SumsOf(table, u)
  BY <1>1, SumsOfTrack
<1>3. DOMAIN seq = 1 .. N /\ \A m \in 1 .. N : seq[m] = m - 1 /\ m - 1 \in 0 .. N - 1
  BY <1>1
<1>4. ByTrack(table) = iter[1 .. N]
  <2>1. ByTrack(table) = iter[DOMAIN seq]
    BY DEF ByTrack, FoldLeft, MapThenFoldSet
  <2> QED
    BY <1>3, <2>1
<1> HIDE DEF seq, P
<1>5. \A g : Body(g) = [s \in SUBSET (1 .. N) |-> Body(g)[s]]
  BY <1>3
<1>6. \A s \in SUBSET (1 .. N) : Max(s) = Highest(s)
  BY DEF Max, Highest
<1>7. \A g : \A s \in SUBSET (1 .. N) : Body(g)[s] = IF s = {} THEN <<>> ELSE g[s \ {Max(s)}] \o P[Max(s) - 1]
  <2> SUFFICES ASSUME NEW g, NEW s \in SUBSET (1 .. N)
               PROVE  Body(g)[s] = IF s = {} THEN <<>> ELSE g[s \ {Max(s)}] \o P[Max(s) - 1]
    OBVIOUS
  <2>1. CASE s = {}
    BY <1>3, <2>1
  <2>2. CASE s # {}
    <3>1. PICK m \in 1 .. N : m = Max(s)
      BY <1>6, <2>2, HighestExists
    <3>2. PICK u \in 0 .. N - 1 : u = m - 1 /\ seq[m] = u
      BY <1>3
    <3>3. Body(g)[s] = g[s \ {m}] \o SumsOf(table, seq[m])
      BY <1>3, <2>2, <3>1 DEF SumsOf, PartOf
    <3>4. SumsOf(table, u) = P[u]
      BY <1>2
    <3> HIDE DEF Body
    <3> QED
      BY <2>2, <3>1, <3>2, <3>3, <3>4
  <2> HIDE DEF Body
  <2> QED
    BY <2>1, <2>2
<1> HIDE DEF Body
<1>8. F \in [Seq(Summable) \X (1 .. N) -> Seq(Summable)]
  <2>1. ASSUME NEW vm \in Seq(Summable) \X (1 .. N)
        PROVE  vm[1] \o P[vm[2] - 1] \in Seq(Summable)
    <3>1. PICK c \in Seq(Summable), m \in 1 .. N : c = vm[1] /\ m = vm[2]
      OBVIOUS
    <3>2. P[m - 1] \in Seq(Summable)
      BY <1>2, <1>3
    <3>3. c \in Seq(Summable)
      OBVIOUS
    <3>4. c \o P[m - 1] \in Seq(Summable)
      BY ONLY <3>2, <3>3, ConcatProperties
    <3> QED
      BY <3>1, <3>4
  <2> QED
    BY <2>1
<1>9. PICK g0 \in [SUBSET (1 .. N) -> Seq(Summable)] : Folds(g0, N, <<>>, F)
  <2>1. <<>> \in Seq(Summable)
    OBVIOUS
  <2> HIDE DEF F
  <2> QED
    BY <1>8, <2>1, FoldExists
<1>10. g0 = Body(g0)
  <2>1. ASSUME NEW s \in SUBSET (1 .. N)
        PROVE  g0[s] = Body(g0)[s]
    <3>1. CASE s = {}
      BY <1>7, <1>9, <3>1 DEF Folds
    <3>2. CASE s # {}
      <4>1. PICK m \in 1 .. N : m = Highest(s)
        BY <3>2, HighestExists
      <4>2. PICK r \in Seq(Summable) : r = g0[s \ {m}]
        BY <1>9
      <4>3. <<r, m>> \in Seq(Summable) \X (1 .. N) /\ g0[s] = F[<<r, m>>]
        BY <1>9, <3>2, <4>1, <4>2 DEF Folds
      <4>4. F[<<r, m>>] = r \o P[m - 1]
        BY <4>3
      <4>5. Max(s) = m
        BY <1>6, <4>1
      <4> HIDE DEF F
      <4>6. Body(g0)[s] = g0[s \ {Max(s)}] \o P[Max(s) - 1]
        BY <1>7, <3>2
      <4> QED
        BY <4>2, <4>3, <4>4, <4>5, <4>6
    <3> QED
      BY <3>1, <3>2
  <2>2. g0 = [s \in SUBSET (1 .. N) |-> g0[s]]
    BY <1>9
  <2>3. Body(g0) = [s \in SUBSET (1 .. N) |-> Body(g0)[s]]
    BY <1>5
  <2> HIDE DEF F
  <2> QED
    BY ONLY <2>1, <2>2, <2>3
<1>11. iter = Body(iter)
  BY <1>10
<1> HIDE DEF iter
<1>12. iter[1 .. 0] = <<>> /\ \A m \in 0 .. N - 1 : iter[1 .. m + 1] = iter[1 .. m] \o P[m]
  <2>1. iter[1 .. 0] = <<>>
    <3>1. 1 .. 0 = {}
      OBVIOUS
    <3> QED
      BY <1>7, <1>11, <3>1
  <2>2. ASSUME NEW m \in 0 .. N - 1
        PROVE  iter[1 .. m + 1] = iter[1 .. m] \o P[m]
    <3>1. 1 .. m + 1 \in SUBSET (1 .. N) /\ (1 .. m + 1) \ {m + 1} = 1 .. m /\ m + 1 \in 1 .. m + 1
          /\ 1 .. m + 1 \subseteq Int /\ (\A y \in 1 .. m + 1 : m + 1 >= y) /\ (m + 1) - 1 = m
      OBVIOUS
    <3>2. Highest(1 .. m + 1) = m + 1
      BY ONLY <3>1, HighestIs
    <3>3. Max(1 .. m + 1) = m + 1
      BY <1>6, <3>1, <3>2
    <3>4. 1 .. m + 1 # {}
      BY <3>1
    <3>5. iter[1 .. m + 1] = Body(iter)[1 .. m + 1]
      BY <1>11
    <3>6. Body(iter)[1 .. m + 1] = iter[(1 .. m + 1) \ {Max(1 .. m + 1)}] \o P[Max(1 .. m + 1) - 1]
      BY <1>7, <3>1, <3>4
    <3> QED
      BY ONLY <3>1, <3>3, <3>5, <3>6
  <2> QED
    BY <2>1, <2>2
<1>13. PICK ls : ls = [u \in 0 .. NumFiles - 1 |-> TrackLength(u)]
  OBVIOUS
<1>14. Accumulates(VectorStart, N, ls) /\ FirstVector(t) = VectorStart[t]
  BY <1>1, <1>13, VectorStarts
<1>15. \A u \in 0 .. N - 1 : ls[u] = TrackLength(u) /\ ls[u] = Len(P[u])
  BY <1>1, <1>2, <1>13
<1>16. \A u \in 0 .. N - 1 : \A o \in 1 .. ls[u] : iter[1 .. N][VectorStart[u] + o] = P[u][o]
  <2>1. N \in Nat /\ P \in [0 .. N - 1 -> Seq(Summable)]
    BY <1>2
  <2>2. \A u \in 0 .. N - 1 : ls[u] = Len(P[u])
    BY <1>15
  <2>3. PICK it, start, Q : it = iter /\ start = VectorStart /\ Q = P
    OBVIOUS
  <2>4. N \in Nat /\ Concatenates(it, Q, N, Summable, ls, start)
    BY ONLY <1>12, <1>14, <2>1, <2>2, <2>3 DEF Concatenates
  <2>5. \A u \in 0 .. N - 1 : \A o \in 1 .. ls[u] : it[1 .. N][start[u] + o] = Q[u][o]
    BY ONLY <2>4, Concatenated
  <2> QED
    BY ONLY <2>3, <2>5
<1>17. t \in 0 .. N - 1 /\ i \in 1 .. ls[t]
  <2>1. t \in 0 .. N - 1 /\ TrackLength(t) \in Nat /\ query.seqlen \in Nat \ {0}
    BY <1>1, Tables, QueryTypes
  <2> QED
    BY <1>15, <2>1
<1>18. ByTrack(table)[FirstVector(t) + i] = SumsOf(table, t)[i]
  BY <1>2, <1>4, <1>14, <1>16, <1>17
<1> QED
  BY <1>18, SumsOfTrack

(* WindowsSummed, of these pointers: the loops leave them as they are.      *)
SummedBy(qp, dbp) ==
  LET datum == QueryDatum
      starts(count) == 1 .. count - query.seqlen + 1
      sums(cells, table, count, from) ==
        \A i \in starts(count) : cells[from + i] = WindowSum(table, from + i, query.seqlen)
  IN  /\ sums(qp.l2norm, L2norms(datum.doubles, datum.n), datum.n, 0)
      /\ qp.power # <<>> => sums(qp.power, datum.power, datum.n, 0)
      /\ \A t \in 0 .. NumFiles - 1 :
           /\ sums(dbp.l2norm, L2norms(db.data, Len(db.data) \div db.dim),
                   TrackLength(t), FirstVector(t))
           /\ UsesPower => sums(dbp.power, db.power, TrackLength(t), FirstVector(t))

SumInv == LoopInv /\ (pc \in {"tracks", "windows"} => SummedBy(qpointers, dbpointers))

(* The doubles that are summed are finite, but for the powers of silence.   *)
FiniteDoubles ==
  /\ \A d \in Databases : d.data \in Seq(Int) /\ (d.hasPower => d.power \in Seq(Summable))
  /\ \A q \in Queries : q.datum.given =>
       /\ q.datum.doubles \in Seq(Int)
       /\ q.datum.power # <<>> => q.datum.power \in Seq(Summable) /\ Len(q.datum.power) = q.datum.n

LEMMA WholeTables ==
  ASSUME db \in Databases
  PROVE  /\ Len(db.data) = VectorStart[NumFiles] * db.dim
         /\ Len(db.data) \div db.dim = VectorStart[NumFiles] /\ VectorStart[NumFiles] \in Nat
         /\ db.hasPower => Len(db.power) = VectorStart[NumFiles]
<1>1. PICK d \in Nat \ {0}, N \in Nat : d = db.dim /\ N = NumFiles
  BY Tables
<1>2. PICK v \in Nat : v = VectorStart[NumFiles] /\ Where[NumFiles] = v * d
  <2>1. NumFiles \in 0 .. NumFiles
    BY <1>1
  <2> QED
    BY <1>1, <2>1, VectorStarts
<1>3. Len(db.data) = v * d
  BY <1>1, <1>2, Tables
<1>4. (v * d) \div d = v
  OBVIOUS
<1>5. ASSUME db.hasPower
      PROVE  Len(db.power) = v
  <2>1. PICK l \in Nat : l = Len(db.power) /\ l * d = v * d
    BY <1>1, <1>3, <1>5, DatabasesAssumption
  <2>2. (l * d) \div d = l
    OBVIOUS
  <2> QED
    BY <1>4, <2>1, <2>2
<1> QED
  BY <1>1, <1>2, <1>3, <1>4, <1>5

(* The vectors of a track, taken out of a table.                            *)
LEMMA CutOut ==
  ASSUME NEW S, NEW s \in Seq(S), NEW a \in Nat, NEW l \in Nat, a + l <= Len(s)
  PROVE  SubSeq(s, a + 1, a + l) \in Seq(S) /\ Len(SubSeq(s, a + 1, a + l)) = l
<1>1. \A i \in a + 1 .. a + l : s[i] \in S
  OBVIOUS
<1>2. a + 1 \in Int /\ a + l \in Int /\ l = IF a + 1 <= a + l THEN (a + l) - (a + 1) + 1 ELSE 0
  OBVIOUS
<1>3. /\ SubSeq(s, a + 1, a + l) \in Seq(S)
      /\ Len(SubSeq(s, a + 1, a + l)) = IF a + 1 <= a + l THEN (a + l) - (a + 1) + 1 ELSE 0
  BY ONLY <1>1, <1>2, SubSeqProperties
<1> QED
  BY <1>2, <1>3

(* A track's vectors are vectors of the data table.                         *)
LEMMA TrackPlace ==
  ASSUME db \in Databases, NEW t \in 0 .. NumFiles - 1
  PROVE  /\ FirstVector(t) \in Nat /\ TrackLength(t) \in Nat /\ VectorStart[NumFiles] \in Nat
         /\ FirstVector(t) + TrackLength(t) <= VectorStart[NumFiles]
<1>1. PICK N \in Nat : N = NumFiles
  BY Tables
<1>2. PICK ls, f : ls = [u \in 0 .. NumFiles - 1 |-> TrackLength(u)] /\ f = VectorStart
  OBVIOUS
<1>3. \A u \in 0 .. N - 1 : ls[u] \in Nat /\ ls[u] = TrackLength(u)
  BY <1>1, <1>2, Tables
<1>4. Accumulates(f, N, ls) /\ f[t] = FirstVector(t) /\ f[t] \in Nat /\ f[N] \in Nat
  <2>1. t \in 0 .. N /\ t \in 0 .. N - 1 /\ N \in 0 .. N
    BY <1>1
  <2> QED
    BY <1>1, <1>2, <2>1, VectorStarts
<1>5. t \in 0 .. N - 1 /\ N \in t + 1 .. N
  BY <1>1
<1>6. f[t] + ls[t] <= f[N]
  BY <1>3, <1>4, <1>5, AccumulationMonotone
<1> QED
  BY <1>1, <1>2, <1>3, <1>4, <1>5, <1>6

(* A query has the doubles of its vectors.                                  *)
LEMMA DatumDoubles ==
  ASSUME NEW S, db \in Databases, query \in Queries, ~ QueryUnknown,
         db.data \in Seq(S), query.datum.given => query.datum.doubles \in Seq(S)
  PROVE  /\ QueryDatum.n \in Nat /\ QueryDatum.doubles \in Seq(S)
         /\ QueryDatum.n * db.dim <= Len(QueryDatum.doubles)
<1>1. PICK d \in Nat \ {0}, N \in Nat : d = db.dim /\ N = NumFiles
  BY Tables
<1>2. CASE query.datum.given
  <2>1. QueryDatum = query.datum /\ query.datum.dim = d
    BY <1>1, <1>2 DEF QueryDatum, QueryUnknown
  <2>2. PICK n \in Nat : n = query.datum.n
    BY <1>2, QueriesAssumption
  <2>3. PICK z \in Nat : z = n * d
    OBVIOUS
  <2>4. Len(query.datum.doubles) = z
    BY <1>2, <2>1, <2>2, <2>3, QueriesAssumption
  <2> QED
    BY <1>1, <1>2, <2>1, <2>2, <2>3, <2>4
<1>3. CASE ~ query.datum.given
  <2>1. PICK t \in 0 .. N - 1 : t = QueryTrack
    BY <1>1, <1>3 DEF QueryUnknown, QueryTrack
  <2>2. PICK v \in Nat, l \in Nat, w \in Nat :
          v = FirstVector(t) /\ l = TrackLength(t) /\ w = VectorStart[NumFiles] /\ v + l <= w
    BY <1>1, <2>1, TrackPlace
  <2>3. QueryDatum.n = l /\ QueryDatum.doubles = SubSeq(db.data, v * d + 1, (v + l) * d)
    BY <1>1, <1>3, <2>1, <2>2 DEF QueryDatum
  <2>4. PICK a \in Nat, c \in Nat : a = v * d /\ c = l * d
    OBVIOUS
  <2>5. (v + l) * d = a + c /\ a + c <= w * d
    <3>1. (v + l) * d = v * d + l * d
      OBVIOUS
    <3>2. PICK e \in Nat : w = (v + l) + e
      <4>1. w - (v + l) \in Nat /\ w = (v + l) + (w - (v + l))
        <5>1. v \in Nat /\ l \in Nat /\ w \in Nat /\ v + l <= w
          BY <2>2
        <5> QED BY ONLY <5>1
      <4> QED BY ONLY <4>1
    <3>3. ((v + l) + e) * d = (v + l) * d + e * d /\ e * d \in Nat /\ (v + l) * d \in Nat
      OBVIOUS
    <3> QED
      BY ONLY <2>4, <3>1, <3>2, <3>3
  <2>6. PICK s \in Seq(S) : s = db.data /\ a + c <= Len(s)
    BY <1>1, <2>2, <2>5, WholeTables
  <2>7. SubSeq(s, a + 1, a + c) \in Seq(S) /\ Len(SubSeq(s, a + 1, a + c)) = c
    BY <2>6, CutOut
  <2>8. QueryDatum.doubles = SubSeq(s, a + 1, a + c)
    BY <2>3, <2>4, <2>5, <2>6
  <2>9. QueryDatum.n * db.dim = c /\ c <= c
    BY <1>1, <2>3, <2>4
  <2> QED
    BY <2>3, <2>7, <2>8, <2>9
<1> QED
  BY <1>2, <1>3

(* The doubles and powers of a query are those it has vectors for.          *)
LEMMA QueryFinite ==
  ASSUME FiniteDoubles, db \in Databases, query \in Queries, ~ QueryUnknown
  PROVE  /\ QueryDatum.n \in Nat /\ QueryDatum.doubles \in Seq(Int)
         /\ QueryDatum.n * db.dim <= Len(QueryDatum.doubles)
         /\ QueryDatum.power # <<>> => /\ QueryDatum.power \in Seq(Summable)
                                       /\ Len(QueryDatum.power) = QueryDatum.n
<1>1. /\ QueryDatum.n \in Nat /\ QueryDatum.doubles \in Seq(Int)
      /\ QueryDatum.n * db.dim <= Len(QueryDatum.doubles)
  <2>1. db.data \in Seq(Int) /\ (query.datum.given => query.datum.doubles \in Seq(Int))
    BY DEF FiniteDoubles
  <2> QED BY <2>1, DatumDoubles
<1>2. CASE query.datum.given
  <2>1. QueryDatum = query.datum
    BY <1>2 DEF QueryDatum
  <2> QED BY <1>1, <1>2, <2>1 DEF FiniteDoubles
<1>3. CASE ~ query.datum.given
  <2>1. PICK t \in 0 .. NumFiles - 1 : t = QueryTrack
    BY <1>3 DEF QueryUnknown, QueryTrack
  <2>2. PICK v \in Nat, l \in Nat, w \in Nat :
          v = FirstVector(t) /\ l = TrackLength(t) /\ w = VectorStart[NumFiles] /\ v + l <= w
    BY <2>1, TrackPlace
  <2>3. /\ QueryDatum.n = l
        /\ QueryDatum.power = IF db.hasPower THEN SubSeq(db.power, v + 1, v + l) ELSE <<>>
    BY <1>3, <2>1, <2>2 DEF QueryDatum
  <2>4. QueryDatum.power # <<>> => QueryDatum.power \in Seq(Summable) /\ Len(QueryDatum.power) = l
    <3> SUFFICES ASSUME db.hasPower
                 PROVE  /\ SubSeq(db.power, v + 1, v + l) \in Seq(Summable)
                        /\ Len(SubSeq(db.power, v + 1, v + l)) = l
      BY <2>3
    <3>1. PICK s \in Seq(Summable) : s = db.power /\ v + l <= Len(s)
      BY <2>2, WholeTables DEF FiniteDoubles
    <3> QED
      BY <3>1, CutOut
  <2> QED BY <1>1, <2>3, <2>4
<1> QED
  BY <1>2, <1>3

(* The pointers that a query is set up with.                                *)
LEMMA PointersSummed ==
  ASSUME FiniteDoubles, db \in Databases, query \in Queries, ~ QueryUnknown, UsesPower => db.hasPower
  PROVE  SummedBy(QueryPointers, DatabasePointers)
<1>1. PICK d \in Nat \ {0}, N \in Nat : d = db.dim /\ N = NumFiles
  BY Tables
<1>2. PICK n \in Nat \ {0} : n = query.seqlen
  BY QueryTypes
<1>3. PICK w \in Nat : w = VectorStart[NumFiles] /\ Len(db.data) \div db.dim = w /\ Len(db.data) = w * d
  BY <1>1, WholeTables
<1>4. ASSUME NEW s \in Seq(Summable), NEW c \in Nat, Len(s) = c, NEW i \in 1 .. c - n + 1
      PROVE  SequenceSum(s, n)[0 + i] = WindowSum(s, 0 + i, n)
  <2>1. i \in 1 .. Len(s) - n + 1 /\ 0 + i = i
    BY <1>4
  <2> QED
    BY <2>1, SequencesSummed
<1>5. ASSUME NEW i \in 1 .. QueryDatum.n - query.seqlen + 1
      PROVE  QueryPointers.l2norm[0 + i]
               = WindowSum(L2norms(QueryDatum.doubles, QueryDatum.n), 0 + i, query.seqlen)
  <2>1. PICK ds \in Seq(Int), c \in Nat : ds = QueryDatum.doubles /\ c = QueryDatum.n /\ c * db.dim <= Len(ds)
    BY QueryFinite
  <2>2. L2norms(ds, c) \in Seq(Int) /\ Len(L2norms(ds, c)) = c
    BY <1>1, <2>1, NormsFinite
  <2>3. PICK s \in Seq(Summable) : s = L2norms(ds, c) /\ Len(s) = c
    BY <2>2 DEF Summable
  <2>4. QueryPointers.l2norm = SequenceSum(s, n)
    BY <1>2, <2>1, <2>3 DEF QueryPointers
  <2>5. i \in 1 .. c - n + 1
    BY <1>2, <2>1
  <2>6. SequenceSum(s, n)[0 + i] = WindowSum(s, 0 + i, n)
    BY <1>4, <2>3, <2>5
  <2> QED
    BY <1>2, <2>1, <2>3, <2>4, <2>6
<1>6. ASSUME QueryPointers.power # <<>>, NEW i \in 1 .. QueryDatum.n - query.seqlen + 1
      PROVE  QueryPointers.power[0 + i] = WindowSum(QueryDatum.power, 0 + i, query.seqlen)
  <2>1. QueryDatum.power # <<>> /\ QueryPointers.power = SequenceSum(QueryDatum.power, n)
    BY <1>2, <1>6 DEF QueryPointers
  <2>2. PICK s \in Seq(Summable), c \in Nat : s = QueryDatum.power /\ c = QueryDatum.n /\ Len(s) = c
    BY <2>1, QueryFinite
  <2>3. i \in 1 .. c - n + 1
    BY <1>2, <2>2
  <2>4. SequenceSum(s, n)[0 + i] = WindowSum(s, 0 + i, n)
    BY <1>4, <2>2, <2>3
  <2> QED
    BY <1>2, <2>1, <2>2, <2>4
<1>7. ASSUME NEW t \in 0 .. NumFiles - 1, NEW i \in 1 .. TrackLength(t) - query.seqlen + 1
      PROVE  DatabasePointers.l2norm[FirstVector(t) + i]
               = WindowSum(L2norms(db.data, Len(db.data) \div db.dim), FirstVector(t) + i, query.seqlen)
  <2>1. PICK ds \in Seq(Int) : ds = db.data
    BY DEF FiniteDoubles
  <2>2. w * db.dim <= Len(ds)
    <3>1. PICK z \in Nat : z = w * d
      OBVIOUS
    <3> QED
      BY <1>1, <1>3, <2>1, <3>1
  <2>3. L2norms(ds, w) \in Seq(Int) /\ Len(L2norms(ds, w)) = w
    BY <1>1, <2>2, NormsFinite
  <2>4. PICK s \in Seq(Summable) : s = L2norms(ds, w) /\ Len(s) = VectorStart[NumFiles]
    BY <1>3, <2>3 DEF Summable
  <2>5. DatabasePointers.l2norm = ByTrack(s)
    BY <1>3, <2>1, <2>4 DEF DatabasePointers
  <2>6. ByTrack(s)[FirstVector(t) + i] = WindowSum(s, FirstVector(t) + i, query.seqlen)
    BY <2>4, TracksSummed
  <2> QED
    BY <1>3, <2>1, <2>4, <2>5, <2>6
<1>8. ASSUME UsesPower, NEW t \in 0 .. NumFiles - 1, NEW i \in 1 .. TrackLength(t) - query.seqlen + 1
      PROVE  DatabasePointers.power[FirstVector(t) + i]
               = WindowSum(db.power, FirstVector(t) + i, query.seqlen)
  <2>1. PICK s \in Seq(Summable) : s = db.power /\ Len(s) = VectorStart[NumFiles]
    BY <1>8, WholeTables DEF FiniteDoubles
  <2>2. DatabasePointers.power = ByTrack(s)
    BY <1>8, <2>1 DEF DatabasePointers
  <2>3. ByTrack(s)[FirstVector(t) + i] = WindowSum(s, FirstVector(t) + i, query.seqlen)
    BY <2>1, TracksSummed
  <2> QED
    BY <2>1, <2>2, <2>3
<1> QED
  BY <1>5, <1>6, <1>7, <1>8 DEF SummedBy

LEMMA SameSums ==
  ASSUME UNCHANGED <<db, query>>, SummedBy(qpointers', dbpointers')
  PROVE  SummedBy(qpointers, dbpointers)'
<1>1. db' = db /\ query' = query
  OBVIOUS
<1>2. NumFiles' = NumFiles /\ (UsesPower' <=> UsesPower) /\ \A t : TrackLength(t)' = TrackLength(t)
  BY <1>1, SameTables DEF UsesPower
<1>3. \A t : FirstVector(t)' = FirstVector(t)
  BY <1>1 DEF FirstVector, TrackOffset
<1>4. QueryDatum' = QueryDatum
  BY <1>1 DEF QueryDatum, QueryTrack, FirstVector, TrackOffset, TrackLength, Key, NumFiles
<1>5. \A s, n : L2norms(s, n)' = L2norms(s, n)
  BY <1>1 DEF L2norms, DotProduct, SumOf, VectorAt
<1> QED
  BY <1>1, <1>2, <1>3, <1>4, <1>5 DEF SummedBy

LEMMA SumStep ==
  ASSUME FiniteDoubles, SumInv, LoopInv', [Next]_vars
  PROVE  SumInv'
<1>1. LoopInv /\ (pc \in {"tracks", "windows"} => SummedBy(qpointers, dbpointers))
  BY DEF SumInv
<1>2. CASE SetUp
  <2>1. /\ db \in Databases /\ query \in Queries /\ ~ QueryUnknown /\ (UsesPower => db.hasPower)
        /\ db' = db /\ query' = query /\ qpointers' = QueryPointers /\ dbpointers' = DatabasePointers
    BY <1>1, <1>2 DEF SetUp, Refused, MissingTables, LoopInv
  <2>2. SummedBy(QueryPointers, DatabasePointers)
    BY <2>1, PointersSummed
  <2>3. SummedBy(qpointers', dbpointers')
    BY <2>1, <2>2
  <2> QED
    BY <2>1, <2>3, SameSums DEF SumInv
<1>3. CASE ~ SetUp
  <2>1. db' = db /\ query' = query /\ qpointers' = qpointers /\ dbpointers' = dbpointers
    BY <1>3 DEF Next, AllowKeys, AddSoFar, Refuse, NextTrack, LastTrack, Window, Collect, vars, pointers
  <2>2. pc' \in {"tracks", "windows"} => pc \in {"tracks", "windows"}
    BY <1>3 DEF Next, AllowKeys, AddSoFar, Refuse, NextTrack, LastTrack, Window, Collect, vars, pointers
  <2>3. pc \in {"tracks", "windows"} => SummedBy(qpointers', dbpointers')
    BY <1>1, <2>1
  <2> QED
    BY <2>1, <2>2, <2>3, SameSums DEF SumInv
<1> QED
  BY <1>2, <1>3

(* Whatever a window holds, -infinity for silence included, and wherever    *)
(* its track lies in the tables, the pointers have the sum of the window's  *)
(* own cells: sliding loses nothing to the windows before, and no window    *)
(* takes a cell of the next track (audioDB-internals.h:308-337,             *)
(* query.cpp:401-413).                                                      *)
THEOREM SumsOfOwnCells ==
  ASSUME FiniteDoubles
  PROVE  Spec => []WindowsSummed
<1>1. Init => SumInv
  BY LoopInitially DEF Init, SumInv
<1>2. SumInv /\ [Next]_vars => SumInv'
  <2> SUFFICES ASSUME SumInv, [Next]_vars PROVE SumInv'
    OBVIOUS
  <2>1. LoopInv'
    BY LoopStep DEF SumInv
  <2> QED
    BY <2>1, SumStep
<1>3. SumInv => WindowsSummed
  BY DEF SumInv, SummedBy, WindowsSummed
<1> QED
  BY <1>1, <1>2, <1>3, PTL DEF Spec

-----------------------------------------------------------------------------
(* The answer of the exhaustive query.  A query's true distances are sums   *)
(* over its windows; the loop takes them from the pointers, the buffer and  *)
(* the correlations.                                                        *)

(* No two tracks have one key.                                              *)
LEMMA KeysDistinct ==
  ASSUME db \in Databases, NEW t \in 0 .. NumFiles - 1, NEW u \in 0 .. NumFiles - 1, Key(t) = Key(u)
  PROVE  t = u
<1>1. PICK n \in Nat : n = NumFiles
  BY Tables
<1>2. t + 1 \in 1 .. n /\ u + 1 \in 1 .. n
  BY <1>1
<1>3. n = Len(db.lengths) /\ db.keys[t + 1] = db.keys[u + 1]
  BY <1>1, DatabasesAssumption DEF NumFiles, Key
<1>4. t + 1 = u + 1
  BY <1>2, <1>3, DatabasesAssumption
<1> QED
  BY <1>1, <1>4

(* The windows that hops come to, from the first on, lie a hop apart.       *)
LEMMA HopsApart ==
  ASSUME query \in Queries, NEW hop \in {query.qhop, query.ihop}, NEW i \in Nat, OnHop(i, hop)
  PROVE  /\ OnHop(0, hop) /\ OnHop(i + Hop(hop), hop)
         /\ \A l \in Nat : OnHop(l, hop) /\ i < l => i + Hop(hop) <= l
<1>1. PICK h \in Nat \ {0} : h = Hop(hop)
  BY QueryTypes
<1>2. PICK m \in 0 .. i : i = m * h
  BY <1>1 DEF OnHop
<1>3. OnHop(0, hop)
  <2>1. 0 \in 0 .. 0 /\ 0 = 0 * h
    OBVIOUS
  <2> QED
    BY <1>1, <2>1 DEF OnHop
<1>4. OnHop(i + h, hop)
  <2>1. (m + 1) * h = m * h + h /\ m \in Nat
    OBVIOUS
  <2>2. m + 1 \in 0 .. i + h /\ i + h = (m + 1) * h
    BY <1>2, <2>1
  <2> QED
    BY <1>1, <2>2 DEF OnHop
<1>5. ASSUME NEW l \in Nat, OnHop(l, hop), i < l
      PROVE  i + h <= l
  <2>1. PICK n \in 0 .. l : l = n * h
    BY <1>1, <1>5 DEF OnHop
  <2>2. m < n
    <3>1. ASSUME n <= m PROVE FALSE
      <4>1. PICK e \in Nat : m = n + e
        <5>1. m - n \in Nat /\ m = n + (m - n)
          BY <3>1
        <5> QED
          BY <5>1
      <4>2. (n + e) * h = n * h + e * h /\ e * h \in Nat /\ n * h \in Nat
        OBVIOUS
      <4> QED
        BY <1>2, <1>5, <2>1, <4>1, <4>2
    <3> QED
      BY <3>1
  <2>3. PICK e \in Nat : n = m + 1 + e
    <3>1. n - (m + 1) \in Nat /\ n = m + 1 + (n - (m + 1))
      BY <2>2
    <3> QED
      BY <3>1
  <2>4. (m + 1 + e) * h = m * h + h + e * h /\ e * h \in Nat /\ m * h \in Nat
    OBVIOUS
  <2> QED
    BY <1>2, <2>1, <2>3, <2>4
<1> QED
  BY <1>1, <1>3, <1>4, <1>5

-----------------------------------------------------------------------------
(* The numbers that distances are made of.                                  *)

LEMMA SumOfNaturals ==
  ASSUME NEW b, NEW i \in Int, NEW n \in Nat \ {0}, \A m \in 0 .. n - 1 : b[i + m] \in Nat
  PROVE  WindowSum(b, i, n) \in Nat
<1> DEFINE T == {m \in Nat : m + 1 <= n => WindowSum(b, i, m + 1) \in Nat}
<1>1. 0 \in T
  <2>1. 0 \in 0 .. n - 1 /\ i + 0 = i /\ 0 + 1 = 1
    OBVIOUS
  <2>2. b[i] \in Nat
    BY <2>1
  <2>3. PICK f : f = [l \in {1} |-> b[i]]
    OBVIOUS
  <2>4. RunningSums(f, b, i, 1)
    <3>1. 1 .. 1 = {1} /\ 1 .. 1 - 1 = {}
      OBVIOUS
    <3> QED
      BY <2>2, <2>3, <3>1 DEF RunningSums, Summable
  <2>5. WindowSum(b, i, 1) = b[i]
    BY <2>3, <2>4, SumIsLast
  <2> QED
    BY <2>1, <2>2, <2>5
<1>2. ASSUME NEW m \in T
      PROVE  m + 1 \in T
  <2> SUFFICES ASSUME (m + 1) + 1 <= n
               PROVE  WindowSum(b, i, (m + 1) + 1) \in Nat
    OBVIOUS
  <2>1. m \in Nat /\ m + 1 \in Nat \ {0} /\ m + 1 \in 0 .. n - 1 /\ m + 1 <= n
    OBVIOUS
  <2>2. \A l \in 0 .. m + 1 : l \in 0 .. n - 1
    BY <2>1
  <2>3. \A l \in 0 .. m + 1 : b[i + l] \in Summable
    BY <2>2 DEF Summable
  <2>4. WindowSum(b, i, (m + 1) + 1) = Plus(WindowSum(b, i, m + 1), b[i + (m + 1)])
    BY <2>1, <2>3, SumOfMore
  <2>5. PICK x \in Nat, y \in Nat : x = WindowSum(b, i, m + 1) /\ y = b[i + (m + 1)]
    BY <2>1
  <2>6. Plus(x, y) = x + y
    BY SumsOfTwo DEF Summable
  <2> QED
    BY <2>4, <2>5, <2>6
<1> HIDE DEF T
<1>3. T = Nat
  <2>1. T \in SUBSET Nat
    BY DEF T
  <2> QED
    BY <1>1, <1>2, <2>1, NatSetInduction
<1>4. n - 1 \in T /\ (n - 1) + 1 = n
  BY <1>3
<1> QED
  BY <1>4 DEF T

LEMMA DotProductOfIntegers ==
  ASSUME NEW v \in Seq(Int), NEW w \in Seq(Int), Len(v) = Len(w), Len(v) # 0
  PROVE  DotProduct(v, w) \in Int /\ (v = w => DotProduct(v, w) \in Nat)
<1>1. PICK n \in Nat \ {0} : n = Len(v)
  OBVIOUS
<1> DEFINE s == [i \in DOMAIN v |-> v[i] * w[i]]
<1>2. /\ \A i \in 1 .. n : v[i] \in Int /\ w[i] \in Int
      /\ DOMAIN v = 1 .. n
  BY <1>1
<1>3. \A x, y \in Int : x * y \in Int
  OBVIOUS
<1>4. \A i \in 1 .. n : s[i] \in Int
  BY <1>2, <1>3
<1>5. s \in Seq(Int) /\ Len(s) = n
  BY <1>2, <1>4
<1>6. DotProduct(v, w) = WindowSum(s, 1, n)
  BY <1>5 DEF DotProduct, SumOf
<1>7. \A m \in 0 .. n - 1 : 1 + m \in 1 .. n
  OBVIOUS
<1>8. v = w => \A i \in 1 .. n : s[i] \in Nat
  <2>1. \A x \in Int : x * x \in Nat
    OBVIOUS
  <2> QED
    BY <1>2, <2>1
<1> HIDE DEF s
<1> QED
  BY <1>4, <1>6, <1>7, <1>8, SumFinite, SumOfNaturals

(* Every number has a square root, rounded down.                            *)
LEMMA RootExists ==
  ASSUME NEW n \in Nat \ {0}
  PROVE  Root(n) \in Nat \ {0}
<1> DEFINE Above == {r \in Nat : n < (r + 1) * (r + 1)}
<1>1. n \in Above
  <2>1. (n + 1) * (n + 1) = n * n + n + n + 1 /\ n * n \in Nat
    OBVIOUS
  <2> QED
    BY <2>1
<1>2. PICK r \in Above : \A x \in Above : r <= x
  <2>1. Above \in SUBSET Nat /\ Above # {}
    BY <1>1
  <2> HIDE DEF Above
  <2> QED
    BY <2>1, LeastNatural
<1>3. r # 0
  <2>1. ~ n < (0 + 1) * (0 + 1)
    OBVIOUS
  <2> QED
    BY <1>2, <2>1
<1>4. r * r <= n
  <2>1. PICK p \in Nat : r = p + 1
    <3>1. r - 1 \in Nat /\ r = (r - 1) + 1
      BY <1>2, <1>3
    <3> QED
      BY <3>1
  <2>2. p \notin Above
    BY <1>2, <2>1
  <2> QED
    BY <2>1, <2>2
<1>5. r \in 0 .. n
  <2>1. r \in Nat /\ r <= n
    BY <1>1, <1>2
  <2> QED
    BY <2>1
<1>6. r * r <= n /\ n < (r + 1) * (r + 1)
  BY <1>2, <1>4
<1>7. PICK x \in 0 .. n : x = Root(n) /\ x * x <= n /\ n < (x + 1) * (x + 1)
  BY <1>5, <1>6 DEF Root
<1>8. x # 0
  <2>1. ~ n < (0 + 1) * (0 + 1)
    OBVIOUS
  <2> QED
    BY <1>7, <2>1
<1> QED
  BY <1>7, <1>8

LEMMA DistanceTyped ==
  ASSUME query.distance \in Distances, NEW p, NEW q \in Nat, NEW s \in Nat,
         query.distance # "kullback_leibler" => p \in Int
  PROVE  Distance(p, q, s) \in Int \cup {NaN}
<1>1. CASE query.distance = "euclidean_normed"
  <2>1. CASE q * s = 0
    BY <1>1, <2>1 DEF Distance
  <2>2. CASE q * s # 0
    <3>1. PICK n \in Nat \ {0} : n = q * s
      <4>1. q * s \in Nat
        OBVIOUS
      <4> QED
        BY <2>2, <4>1
    <3>2. PICK r \in Nat \ {0} : r = Root(q * s)
      BY <3>1, RootExists
    <3>3. PICK x \in Int, c \in Nat : x = 2 * Scale * p /\ c = 2 * Scale
      <4>1. PICK c \in Nat : c = 2 * Scale
        BY QueriesAssumption
      <4>2. c * p \in Int
        BY <1>1
      <4> QED
        BY <4>1, <4>2
    <3>4. x \div r \in Int
      OBVIOUS
    <3>5. Distance(p, q, s) = c - (x \div r)
      BY <1>1, <2>2, <3>2, <3>3 DEF Distance
    <3> QED
      BY <3>3, <3>4, <3>5
  <2> QED
    BY <2>1, <2>2
<1>2. CASE query.distance = "euclidean"
  <2>1. q + s - 2 * p \in Int
    BY <1>2
  <2> QED
    BY <1>2, <2>1 DEF Distance
<1>3. CASE query.distance = "dot_product"
  BY <1>3 DEF Distance
<1>4. CASE query.distance = "kullback_leibler"
  BY <1>4 DEF Distance
<1> QED
  BY <1>1, <1>2, <1>3, <1>4 DEF Distances

(* A vector, and the norms and products of the vectors of a window.         *)
LEMMA CutCells ==
  ASSUME NEW S, NEW s \in Seq(S), NEW a \in Nat, NEW l \in Nat, a + l <= Len(s)
  PROVE  /\ SubSeq(s, a + 1, a + l) \in Seq(S) /\ Len(SubSeq(s, a + 1, a + l)) = l
         /\ \A x \in 1 .. l : SubSeq(s, a + 1, a + l)[x] = s[a + x]
<1>1. \A x \in a + 1 .. a + l : s[x] \in S
  OBVIOUS
<1>2. (a + l) - (a + 1) + 1 = l /\ \A x \in 1 .. l : (a + 1) + x - 1 = a + x
  OBVIOUS
<1>3. a + 1 \in Int /\ a + l \in Int
  OBVIOUS
<1>4. \A x \in 1 .. (a + l) - (a + 1) + 1 : SubSeq(s, a + 1, a + l)[x] = s[(a + 1) + x - 1]
  BY ONLY <1>1, <1>3, SubSeqProperties
<1>5. \A x \in 1 .. l : SubSeq(s, a + 1, a + l)[x] = s[a + x]
  BY ONLY <1>2, <1>4
<1> QED
  BY <1>5, CutOut

LEMMA VectorCut ==
  ASSUME NEW d \in Nat \ {0}, d = db.dim, NEW s, NEW i \in Nat
  PROVE  /\ i * d \in Nat /\ (i + 1) * d = i * d + d
         /\ VectorAt(s, i) = SubSeq(s, i * d + 1, i * d + d)
<1>1. i * d \in Nat /\ (i + 1) * d = i * d + d
  OBVIOUS
<1> QED
  BY <1>1 DEF VectorAt

LEMMA VectorsTo ==
  ASSUME NEW d \in Nat, NEW n \in Nat, NEW l \in Nat, n * d <= l, NEW i \in Nat, i < n
  PROVE  (i + 1) * d <= l
<1>1. PICK e \in Nat : n = i + 1 + e
  <2>1. n - (i + 1) \in Nat /\ n = i + 1 + (n - (i + 1))
    OBVIOUS
  <2> QED
    BY <2>1
<1>2. (i + 1 + e) * d = (i + 1) * d + e * d /\ e * d \in Nat /\ (i + 1) * d \in Nat
  OBVIOUS
<1> QED
  BY <1>1, <1>2

LEMMA VectorOf ==
  ASSUME db.dim \in Nat \ {0}, NEW s \in Seq(Int), NEW n \in Nat, n * db.dim <= Len(s),
         NEW i \in Nat, i < n
  PROVE  VectorAt(s, i) \in Seq(Int) /\ Len(VectorAt(s, i)) = db.dim /\ db.dim # 0
<1>1. PICK d \in Nat \ {0}, l \in Nat : d = db.dim /\ l = Len(s)
  OBVIOUS
<1>2. (i + 1) * d <= l
  BY <1>1, VectorsTo
<1>3. PICK a \in Nat : a = i * d
  OBVIOUS
<1>4. (i + 1) * d = a + d /\ VectorAt(s, i) = SubSeq(s, a + 1, a + d)
  BY <1>1, <1>3, VectorCut
<1>5. a + d <= Len(s) /\ d \in Nat /\ a \in Nat
  BY <1>1, <1>2, <1>4
<1>6. SubSeq(s, a + 1, a + d) \in Seq(Int) /\ Len(SubSeq(s, a + 1, a + d)) = d
  BY <1>5, CutOut
<1> QED
  BY ONLY <1>1, <1>4, <1>6

(* The norms of c vectors from f on, and the cells of two windows.          *)
WindowNorms(s, f, c)       == [w \in 1 .. c |-> DotProduct(VectorAt(s, f + (w - 1)), VectorAt(s, f + (w - 1)))]
WindowCells(r, e, s, f, c) == [w \in 1 .. c |-> Cell(VectorAt(r, e + (w - 1)), VectorAt(s, f + (w - 1)))]

LEMMA NormOfWindow ==
  ASSUME db.dim \in Nat \ {0}, NEW s \in Seq(Int), NEW n \in Nat, n * db.dim <= Len(s),
         NEW f \in Nat, NEW c \in Nat \ {0}, f + c <= n
  PROVE  /\ SumOf(WindowNorms(s, f, c)) = WindowSum(L2norms(s, n), f + 1, c)
         /\ SumOf(WindowNorms(s, f, c)) \in Nat
<1> DEFINE g == WindowNorms(s, f, c)
<1>0. \A w \in 1 .. c : g[w] = DotProduct(VectorAt(s, f + (w - 1)), VectorAt(s, f + (w - 1)))
  BY DEF WindowNorms
<1>1. PICK norms : norms = L2norms(s, n)
  OBVIOUS
<1>2. ASSUME NEW i \in Nat, i < n
      PROVE  /\ DotProduct(VectorAt(s, i), VectorAt(s, i)) \in Nat
             /\ norms[i + 1] = DotProduct(VectorAt(s, i), VectorAt(s, i))
  <2>1. PICK v \in Seq(Int) : v = VectorAt(s, i) /\ Len(v) # 0
    BY <1>2, VectorOf
  <2>2. DotProduct(v, v) \in Nat
    BY <2>1, DotProductOfIntegers
  <2>3. i + 1 \in 1 .. n /\ (i + 1) - 1 = i
    BY <1>2
  <2>4. norms[i + 1] = DotProduct(VectorAt(s, (i + 1) - 1), VectorAt(s, (i + 1) - 1))
    BY <1>1, <2>3 DEF L2norms
  <2> QED
    BY <2>1, <2>2, <2>3, <2>4
<1>3. ASSUME NEW m \in 0 .. c - 1
      PROVE  g[1 + m] = norms[(f + 1) + m] /\ g[1 + m] \in Nat
  <2>1. f + m \in Nat /\ f + m < n /\ (f + m) + 1 = (f + 1) + m /\ 1 + m \in 1 .. c /\ (1 + m) - 1 = m
    OBVIOUS
  <2> QED
    BY <1>0, <1>2, <2>1
<1>4. g \in Seq(Nat) /\ Len(g) = c
  <2>1. \A w \in 1 .. c : w - 1 \in 0 .. c - 1 /\ 1 + (w - 1) = w
    OBVIOUS
  <2>2. \A w \in 1 .. c : g[w] \in Nat
    BY <1>3, <2>1
  <2> QED
    BY <2>2 DEF WindowNorms
<1>5. SumOf(g) = WindowSum(g, 1, c)
  BY <1>4 DEF SumOf
<1>6. SameCells(g, 1, norms, f + 1, c)
  <2>1. \A x : x \in Nat => x \in Summable
    BY DEF Summable
  <2>2. \A m \in 0 .. c - 1 : norms[(f + 1) + m] \in Summable /\ g[1 + m] = norms[(f + 1) + m]
    BY ONLY <1>3, <2>1
  <2> QED
    BY ONLY <2>2 DEF SameCells
<1>7. WindowSum(g, 1, c) = WindowSum(norms, f + 1, c)
  BY <1>6, SumOfSame
<1>8. WindowSum(g, 1, c) \in Nat
  <2>1. 1 \in Int /\ c \in Nat \ {0}
    OBVIOUS
  <2> QED
    BY ONLY <1>3, <2>1, SumOfNaturals
<1> QED
  BY ONLY <1>1, <1>5, <1>7, <1>8

LEMMA ProductOfWindows ==
  ASSUME db.dim \in Nat \ {0}, query.distance # "kullback_leibler", NEW c \in Nat \ {0},
         NEW r \in Seq(Int), NEW m \in Nat, m * db.dim <= Len(r), NEW e \in Nat, e + c <= m,
         NEW s \in Seq(Int), NEW n \in Nat, n * db.dim <= Len(s), NEW f \in Nat, f + c <= n
  PROVE  SumOf(WindowCells(r, e, s, f, c)) \in Int
<1> DEFINE g == WindowCells(r, e, s, f, c)
<1>0. \A w \in 1 .. c : g[w] = Cell(VectorAt(r, e + (w - 1)), VectorAt(s, f + (w - 1)))
  BY DEF WindowCells
<1>1. ASSUME NEW i \in 0 .. c - 1
      PROVE  g[1 + i] \in Int
  <2>1. e + i \in Nat /\ e + i < m /\ f + i \in Nat /\ f + i < n /\ 1 + i \in 1 .. c /\ (1 + i) - 1 = i
    OBVIOUS
  <2>2. PICK v \in Seq(Int) : v = VectorAt(r, e + i) /\ Len(v) # 0 /\ Len(v) = db.dim
    BY <2>1, VectorOf
  <2>3. PICK u \in Seq(Int) : u = VectorAt(s, f + i) /\ Len(u) # 0 /\ Len(u) = db.dim
    BY <2>1, VectorOf
  <2>4. DotProduct(v, u) \in Int
    BY <2>2, <2>3, DotProductOfIntegers
  <2> QED
    BY <1>0, <2>1, <2>2, <2>3, <2>4 DEF Cell
<1>2. g \in Seq(Int) /\ Len(g) = c
  <2>1. \A w \in 1 .. c : w - 1 \in 0 .. c - 1 /\ 1 + (w - 1) = w
    OBVIOUS
  <2>2. \A w \in 1 .. c : g[w] \in Int
    BY <1>1, <2>1
  <2> QED
    BY <2>2 DEF WindowCells
<1>3. SumOf(g) = WindowSum(g, 1, c)
  BY <1>2 DEF SumOf
<1>4. 1 \in Int /\ c \in Nat \ {0}
  OBVIOUS
<1> QED
  BY ONLY <1>1, <1>3, <1>4, SumFinite

-----------------------------------------------------------------------------
(* The vectors of a track that is loaded are those of the table.            *)
LEMMA VectorsOfTrack ==
  ASSUME db \in Databases, NEW t \in 0 .. NumFiles - 1, NEW i \in Nat, i < TrackLength(t)
  PROVE  VectorAt(TrackDoubles(t), i) = VectorAt(db.data, FirstVector(t) + i)
<1>2. PICK d \in Nat \ {0}, l \in Nat, f \in Nat, N \in Nat :
        d = db.dim /\ l = TrackLength(t) /\ f = FirstVector(t) /\ N = NumFiles
  <2>1. t \in 0 .. NumFiles
    BY Tables
  <2> QED
    BY <2>1, Tables, VectorStarts
<1>3. TrackOffset(t) = f * d /\ f * d + l * d <= Len(db.data)
  <2>1. t \in 0 .. NumFiles /\ NumFiles \in 0 .. NumFiles
    BY <1>2
  <2>2. TrackOffset(t) = Where[t] /\ Where[t] = f * d
    BY <1>2, <2>1, Tables, VectorStarts
  <2>3. Where[t + 1] = Where[t] + TrackLength(t) * db.dim /\ Where[t + 1] <= Len(db.data)
    BY Tables
  <2> QED
    BY <1>2, <2>2, <2>3
<1>4. PICK a \in Nat, c \in Nat : a = f * d /\ c = l * d
  OBVIOUS
<1>5. PICK s \in Seq(AnyDouble) : s = db.data /\ a + c <= Len(s)
  BY <1>3, <1>4, Tables
<1>6. PICK b \in Seq(AnyDouble) : b = TrackDoubles(t) /\ Len(b) = c /\ \A x \in 1 .. c : b[x] = s[a + x]
  <2>1. TrackDoubles(t) = SubSeq(s, a + 1, a + c)
    BY ONLY <1>2, <1>3, <1>4, <1>5 DEF TrackDoubles
  <2>2. /\ SubSeq(s, a + 1, a + c) \in Seq(AnyDouble) /\ Len(SubSeq(s, a + 1, a + c)) = c
        /\ \A x \in 1 .. c : SubSeq(s, a + 1, a + c)[x] = s[a + x]
    BY <1>5, CutCells
  <2> QED
    BY ONLY <2>1, <2>2
<1>7. (i + 1) * d <= c
  <2>1. i < l
    BY <1>2
  <2>2. (i + 1) * d <= l * d
    BY ONLY <2>1, VectorsTo
  <2> QED
    BY ONLY <1>4, <2>2
<1>8. PICK p \in Nat : p = i * d /\ (i + 1) * d = p + d /\ VectorAt(b, i) = SubSeq(b, p + 1, p + d)
  BY <1>2, VectorCut
<1>9. p + d <= c
  BY <1>7, <1>8
<1>10. VectorAt(s, f + i) = SubSeq(s, (a + p) + 1, (a + p) + d)
  <2>1. PICK y \in Nat : y = f + i
    OBVIOUS
  <2>2. VectorAt(s, y) = SubSeq(s, y * d + 1, y * d + d)
    BY <1>2, VectorCut
  <2>3. (f + i) * d = f * d + i * d
    OBVIOUS
  <2> QED
    BY <1>4, <1>8, <2>1, <2>2, <2>3
<1>11. (a + p) + d <= Len(s) /\ a + p \in Nat
  <2>1. PICK z \in Nat : z = Len(s) /\ a + c <= z
    BY <1>5
  <2> QED
    BY <1>9, <2>1
<1>12. PICK v \in Seq(AnyDouble) : v = VectorAt(b, i) /\ Len(v) = d /\ \A x \in 1 .. d : v[x] = b[p + x]
  <2>1. d \in Nat
    OBVIOUS
  <2>2. p + d <= Len(b)
    BY <1>6, <1>9
  <2>3. SubSeq(b, p + 1, p + d) \in Seq(AnyDouble)
    BY ONLY <2>1, <2>2, CutCells
  <2>4. Len(SubSeq(b, p + 1, p + d)) = d
    BY ONLY <2>1, <2>2, CutCells
  <2>5. \A x \in 1 .. d : SubSeq(b, p + 1, p + d)[x] = b[p + x]
    BY ONLY <2>1, <2>2, CutCells
  <2> QED
    BY ONLY <1>8, <2>3, <2>4, <2>5
<1>13. PICK u \in Seq(AnyDouble) :
         u = VectorAt(s, f + i) /\ Len(u) = d /\ \A x \in 1 .. d : u[x] = s[(a + p) + x]
  <2>1. PICK q \in Nat : q = a + p
    BY <1>11
  <2>2. q + d <= Len(s) /\ d \in Nat
    BY <1>11, <2>1
  <2>3. /\ SubSeq(s, q + 1, q + d) \in Seq(AnyDouble) /\ Len(SubSeq(s, q + 1, q + d)) = d
        /\ \A x \in 1 .. d : SubSeq(s, q + 1, q + d)[x] = s[q + x]
    BY ONLY <1>5, <1>11, <2>1, <2>2, CutCells
  <2> QED
    BY ONLY <1>10, <2>1, <2>3
<1>14. \A x \in 1 .. d : p + x \in 1 .. c /\ a + (p + x) = (a + p) + x
  BY <1>9
<1>15. \A x \in 1 .. d : v[x] = u[x]
  BY <1>6, <1>12, <1>13, <1>14
<1>16. v = u
  BY <1>12, <1>13, <1>15, SeqEqual
<1> QED
  BY <1>2, <1>5, <1>6, <1>12, <1>13, <1>16

(* So are those in the buffer of the loop.                                  *)
LEMMA BufferVectors ==
  ASSUME LoopInv, pc = "windows", NEW i \in Nat, i < TrackLength(track)
  PROVE  VectorAt(buffer, i) = VectorAt(db.data, FirstVector(track) + i)
<1>1. db \in Databases /\ track \in 0 .. NumFiles - 1 /\ buffer = TrackDoubles(track)
  BY DEF LoopInv, AtTrack, WindowsInTrack, TrackDoubles
<1>2. VectorAt(TrackDoubles(track), i) = VectorAt(db.data, FirstVector(track) + i)
  BY <1>1, VectorsOfTrack
<1> QED
  BY ONLY <1>1, <1>2

(* The query's windows lie inside the query.                                *)
LEMMA QueryPlace ==
  ASSUME db \in Databases, query \in Queries, ~ QueryUnknown, ~ QueryTooLong
  PROVE  QueryFirst \in Nat /\ QueryCount \in Nat /\ QueryFirst + QueryCount <= QueryDatum.n
<1>1. PICK n \in Nat : n = QueryDatum.n
  BY DatumTypes
<1>2. PICK s \in Nat, c \in Nat : s = query.start /\ c = query.seqlen
  BY QueryTypes
<1>3. ~ Exhaustive => s + c <= n
  BY <1>1, <1>2 DEF QueryTooLong
<1>4. CASE Exhaustive
  BY <1>1, <1>4 DEF QueryFirst, QueryCount
<1>5. CASE ~ Exhaustive
  BY <1>1, <1>2, <1>3, <1>5 DEF QueryFirst, QueryCount
<1> QED
  BY <1>4, <1>5

(* The sums that the distance of two windows is made of.                    *)
QueryNorm(a)     == OverWindow(LAMBDA w : DotProduct(QueryVector(a + w), QueryVector(a + w)))
TrackNorm(t, b)  == OverWindow(LAMBDA w : DotProduct(TrackVector(t, b + w), TrackVector(t, b + w)))
Product(t, a, b) == OverWindow(LAMBDA w : Cell(QueryVector(a + w), TrackVector(t, b + w)))

(* The distance that the loop is to compute of them: the true one, but for  *)
(* divergences.                                                             *)
LoopDistance(t, a, b) == Distance(Product(t, a, b), QueryNorm(a), TrackNorm(t, b))

(* The sums of a window's norms are those of the tables.                    *)
LEMMA TrueNorms ==
  ASSUME FiniteDoubles, db \in Databases, query \in Queries, ~ QueryUnknown, ~ QueryTooLong,
         NEW t \in 0 .. NumFiles - 1, NEW a \in Nat, NEW b \in Nat,
         a + query.seqlen <= QueryCount, b + query.seqlen <= TrackLength(t)
  PROVE  /\ QueryNorm(a)
              = WindowSum(L2norms(QueryDatum.doubles, QueryDatum.n), QueryFirst + a + 1, query.seqlen)
         /\ TrackNorm(t, b)
              = WindowSum(L2norms(db.data, Len(db.data) \div db.dim), FirstVector(t) + b + 1, query.seqlen)
         /\ QueryNorm(a) \in Nat
         /\ TrackNorm(t, b) \in Nat
<1>1. PICK c \in Nat \ {0}, e \in Nat, n \in Nat, m \in Nat :
        c = query.seqlen /\ e = QueryFirst /\ n = QueryDatum.n /\ m = QueryCount
  BY QueryTypes, DatumTypes, QueryPlace
<1>2. PICK r \in Seq(Int) : r = QueryDatum.doubles /\ n * db.dim <= Len(r)
  BY <1>1, QueryFinite
<1>3. PICK f \in Nat, l \in Nat, v \in Nat : f = FirstVector(t) /\ l = TrackLength(t) /\ v = VectorStart[NumFiles]
  BY TrackPlace
<1>4. PICK s \in Seq(Int) : s = db.data /\ v * db.dim <= Len(s) /\ Len(db.data) \div db.dim = v
  <2>1. db.data \in Seq(Int) /\ Len(db.data) = v * db.dim /\ Len(db.data) \div db.dim = v
    BY <1>3, WholeTables DEF FiniteDoubles
  <2>2. PICK z \in Nat : z = Len(db.data)
    BY <2>1
  <2> QED
    BY <2>1, <2>2
<1>5. e + a \in Nat /\ (e + a) + c <= n /\ f + b \in Nat /\ (f + b) + c <= v
  <2>1. e + m <= n /\ a + c <= m
    BY <1>1, QueryPlace
  <2>2. f + l <= v /\ b + c <= l
    BY <1>1, <1>3, TrackPlace
  <2> QED
    BY <2>1, <2>2
<1>6. db.dim \in Nat \ {0}
  BY Tables
<1>7. PICK g : g = WindowNorms(r, e + a, c)
  OBVIOUS
<1>8. PICK h : h = WindowNorms(s, f + b, c)
  OBVIOUS
<1>9. SumOf(g) = WindowSum(L2norms(r, n), (e + a) + 1, c) /\ SumOf(g) \in Nat
  BY <1>2, <1>5, <1>6, <1>7, NormOfWindow
<1>10. SumOf(h) = WindowSum(L2norms(s, v), (f + b) + 1, c) /\ SumOf(h) \in Nat
  BY <1>4, <1>5, <1>6, <1>8, NormOfWindow
<1>11. \A w \in 1 .. c : (e + a) + (w - 1) = e + (a + (w - 1)) /\ (f + b) + (w - 1) = f + (b + (w - 1))
  OBVIOUS
<1>12. QueryNorm(a) = SumOf(g)
  <2>1. g = [w \in 1 .. c |-> DotProduct(VectorAt(r, e + (a + (w - 1))), VectorAt(r, e + (a + (w - 1))))]
    BY <1>7, <1>11 DEF WindowNorms
  <2> QED
    BY ONLY <1>1, <1>2, <2>1 DEF QueryNorm, OverWindow, QueryVector
<1>13. TrackNorm(t, b) = SumOf(h)
  <2>1. h = [w \in 1 .. c |-> DotProduct(VectorAt(s, f + (b + (w - 1))), VectorAt(s, f + (b + (w - 1))))]
    BY <1>8, <1>11 DEF WindowNorms
  <2> QED
    BY ONLY <1>1, <1>3, <1>4, <2>1 DEF TrackNorm, OverWindow, TrackVector
<1> QED
  BY ONLY <1>1, <1>2, <1>3, <1>4, <1>9, <1>10, <1>12, <1>13

(* The sum of a pair of windows is a number, and so is their distance.      *)
LEMMA TrueProduct ==
  ASSUME FiniteDoubles, db \in Databases, query \in Queries, ~ QueryUnknown, ~ QueryTooLong,
         NEW t \in 0 .. NumFiles - 1, NEW a \in Nat, NEW b \in Nat,
         a + query.seqlen <= QueryCount, b + query.seqlen <= TrackLength(t),
         query.distance # "kullback_leibler"
  PROVE  Product(t, a, b) \in Int
<1>1. PICK c \in Nat \ {0}, e \in Nat, n \in Nat, m \in Nat :
        c = query.seqlen /\ e = QueryFirst /\ n = QueryDatum.n /\ m = QueryCount
  BY QueryTypes, DatumTypes, QueryPlace
<1>2. PICK r \in Seq(Int) : r = QueryDatum.doubles /\ n * db.dim <= Len(r)
  BY <1>1, QueryFinite
<1>3. PICK f \in Nat, l \in Nat, v \in Nat : f = FirstVector(t) /\ l = TrackLength(t) /\ v = VectorStart[NumFiles]
  BY TrackPlace
<1>4. PICK s \in Seq(Int) : s = db.data /\ v * db.dim <= Len(s)
  <2>1. db.data \in Seq(Int) /\ Len(db.data) = v * db.dim
    BY <1>3, WholeTables DEF FiniteDoubles
  <2>2. PICK z \in Nat : z = Len(db.data)
    BY <2>1
  <2> QED
    BY <2>1, <2>2
<1>5. e + a \in Nat /\ (e + a) + c <= n /\ f + b \in Nat /\ (f + b) + c <= v
  <2>1. e + m <= n /\ a + c <= m
    BY <1>1, QueryPlace
  <2>2. f + l <= v /\ b + c <= l
    BY <1>1, <1>3, TrackPlace
  <2> QED
    BY <2>1, <2>2
<1>6. db.dim \in Nat \ {0}
  BY Tables
<1>7. PICK g : g = WindowCells(r, e + a, s, f + b, c)
  OBVIOUS
<1>8. SumOf(g) \in Int
  BY <1>2, <1>4, <1>5, <1>6, <1>7, ProductOfWindows
<1>9. \A w \in 1 .. c : (e + a) + (w - 1) = e + (a + (w - 1)) /\ (f + b) + (w - 1) = f + (b + (w - 1))
  OBVIOUS
<1>10. Product(t, a, b) = SumOf(g)
  <2>1. g = [w \in 1 .. c |-> Cell(VectorAt(r, e + (a + (w - 1))), VectorAt(s, f + (b + (w - 1))))]
    BY <1>7, <1>9 DEF WindowCells
  <2> QED
    BY ONLY <1>1, <1>2, <1>3, <1>4, <2>1 DEF Product, OverWindow, QueryVector, TrackVector
<1> QED
  BY <1>8, <1>10

LEMMA LoopDistanceTyped ==
  ASSUME FiniteDoubles, db \in Databases, query \in Queries, ~ QueryUnknown, ~ QueryTooLong,
         query.distance \in Distances,
         NEW t \in 0 .. NumFiles - 1, NEW a \in Nat, NEW b \in Nat,
         a + query.seqlen <= QueryCount, b + query.seqlen <= TrackLength(t)
  PROVE  LoopDistance(t, a, b) \in Int \cup {NaN}
<1>1. QueryNorm(a) \in Nat /\ TrackNorm(t, b) \in Nat
  BY TrueNorms
<1>2. query.distance # "kullback_leibler" => Product(t, a, b) \in Int
  BY TrueProduct
<1>3. Distance(Product(t, a, b), QueryNorm(a), TrackNorm(t, b)) \in Int \cup {NaN}
  BY <1>1, <1>2, DistanceTyped
<1> QED
  BY ONLY <1>3 DEF LoopDistance, QueryNorm, TrackNorm, Product

(* The powers of a window have the sum of its own cells.                    *)
LEMMA PowersOfWindow ==
  ASSUME NEW s \in Seq(Summable), NEW f \in Nat, NEW c \in Nat \ {0}, f + c <= Len(s)
  PROVE  SumOf([w \in 1 .. c |-> s[f + (w - 1) + 1]]) = WindowSum(s, f + 1, c)
<1>1. PICK g : g = [w \in 1 .. c |-> s[f + (w - 1) + 1]]
  OBVIOUS
<1>2. \A m \in 0 .. c - 1 : s[(f + 1) + m] \in Summable /\ g[1 + m] = s[(f + 1) + m]
  <2> SUFFICES ASSUME NEW m \in 0 .. c - 1
               PROVE  s[(f + 1) + m] \in Summable /\ g[1 + m] = s[(f + 1) + m]
    OBVIOUS
  <2>1. PICK i \in 1 .. Len(s) : i = (f + 1) + m
    OBVIOUS
  <2>2. s[i] \in Summable
    OBVIOUS
  <2>3. 1 + m \in 1 .. c /\ f + ((1 + m) - 1) + 1 = (f + 1) + m
    OBVIOUS
  <2> QED
    BY <1>1, <2>1, <2>2, <2>3
<1>3. WindowSum(g, 1, c) = WindowSum(s, f + 1, c)
  <2>1. SameCells(g, 1, s, f + 1, c)
    BY ONLY <1>2 DEF SameCells
  <2> QED
    BY <2>1, SumOfSame
<1>4. Len(g) = c
  <2>1. \A w \in 1 .. c : w - 1 \in 0 .. c - 1 /\ 1 + (w - 1) = w /\ (f + 1) + (w - 1) = f + (w - 1) + 1
    OBVIOUS
  <2>2. \A w \in 1 .. c : g[w] \in Summable
    BY ONLY <1>2, <2>1
  <2>3. g \in Seq(Summable) /\ Len(g) = c
    BY <1>1, <2>2
  <2> QED
    BY <2>3
<1> QED
  BY <1>1, <1>3, <1>4 DEF SumOf

(* The pointers that a query is set up with are there for what it refines.  *)
LEMMA PowersThere ==
  ASSUME FiniteDoubles, db \in Databases, query \in Queries, ~ QueryUnknown, ~ QueryTooLong,
         UsesPower, db.hasPower
  PROVE  /\ QueryDatum.power \in Seq(Summable) /\ Len(QueryDatum.power) = QueryDatum.n
         /\ QueryPointers.power # <<>>
<1>1. PICK c \in Nat \ {0}, n \in Nat : c = query.seqlen /\ n = QueryDatum.n /\ c <= n
  <2>1. query.seqlen \in Nat \ {0} /\ QueryDatum.n \in Nat /\ query.start \in Nat
    BY QueryTypes, DatumTypes
  <2>2. query.start + query.seqlen <= QueryDatum.n
    BY <2>1 DEF QueryTooLong
  <2> QED
    BY <2>1, <2>2
<1>2. QueryDatum.power # <<>>
  <2>1. CASE query.datum.given
    <3>1. QueryDatum.power = query.datum.power /\ Len(query.datum.power) = n
      BY <1>1, <2>1, QueriesAssumption DEF QueryDatum, UsesPower
    <3> QED
      BY <1>1, <3>1
  <2>2. CASE ~ query.datum.given
    <3>1. PICK t \in 0 .. NumFiles - 1 : t = QueryTrack
      BY <2>2 DEF QueryUnknown, QueryTrack
    <3>2. PICK f \in Nat, l \in Nat, v \in Nat :
            f = FirstVector(t) /\ l = TrackLength(t) /\ v = VectorStart[NumFiles] /\ f + l <= v
      BY TrackPlace
    <3>3. PICK s \in Seq(Summable) : s = db.power /\ Len(s) = v
      BY <3>2, WholeTables DEF FiniteDoubles
    <3>4. SubSeq(s, f + 1, f + l) \in Seq(Summable) /\ Len(SubSeq(s, f + 1, f + l)) = l
      <4>1. f + l <= Len(s) /\ f \in Nat /\ l \in Nat
        BY <3>2, <3>3
      <4>2. s \in Seq(Summable)
        OBVIOUS
      <4> QED
        BY ONLY <4>1, <4>2, CutOut
    <3>5. QueryDatum.power = SubSeq(s, f + 1, f + l) /\ l = n
      BY <1>1, <2>2, <3>1, <3>2, <3>3 DEF QueryDatum
    <3>6. PICK z \in Seq(Summable) : z = QueryDatum.power /\ Len(z) = n
      BY ONLY <3>4, <3>5
    <3> QED
      BY <1>1, <3>6
  <2> QED
    BY <2>1, <2>2
<1>3. PICK s \in Seq(Summable) : s = QueryDatum.power /\ Len(s) = n
  BY <1>1, <1>2, QueryFinite
<1>4. QueryPointers.power = SequenceSum(s, c)
  BY <1>1, <1>2, <1>3 DEF QueryPointers
<1>5. DOMAIN SequenceSum(s, c) = 1 .. n /\ 1 \in 1 .. n
  BY <1>1, <1>3 DEF SequenceSum
<1> QED
  BY <1>1, <1>3, <1>4, <1>5

Running == pc \in {"tracks", "windows", "points", "done"}

(* A query that runs was not refused, and has the powers it compares.       *)
Ready == Running => ~ Refused /\ (UsesPower => qpointers.power # <<>>)

(* While windows are matched, the sums are those of the track's windows.    *)
Matching ==
  pc = "windows" =>
    /\ dd = Correlations(track, buffer) /\ DurationMatches(track)
    /\ OnHop(j, query.qhop) /\ OnHop(k, query.ihop)

(* The powers that are compared are those of the windows.                   *)
LEMMA PowersAreTrue ==
  ASSUME FiniteDoubles, SumInv, Ready, pc = "windows"
  PROVE  PowersMatch(track, j, k) <=> TruePowersAcceptable(track, j, k)
<1>1. /\ db \in Databases /\ query \in Queries /\ ~ QueryUnknown /\ ~ QueryTooLong
      /\ (UsesPower => db.hasPower) /\ track \in 0 .. NumFiles - 1 /\ j \in Nat /\ k \in Nat
      /\ j + query.seqlen <= QueryCount /\ k + query.seqlen <= TrackLength(track)
  BY DEF SumInv, LoopInv, AtTrack, WindowsInTrack, Ready, Running, Refused, MissingTables
<1> SUFFICES ASSUME UsesPower
             PROVE  PowersMatch(track, j, k) <=> TruePowersAcceptable(track, j, k)
  BY DEF PowersMatch, TruePowersAcceptable
<1>2. PICK c \in Nat \ {0}, e \in Nat, n \in Nat, m \in Nat :
        c = query.seqlen /\ e = QueryFirst /\ n = QueryDatum.n /\ m = QueryCount
  BY <1>1, QueryTypes, DatumTypes, QueryPlace
<1>3. PICK f \in Nat, l \in Nat, v \in Nat :
        f = FirstVector(track) /\ l = TrackLength(track) /\ v = VectorStart[NumFiles]
  BY <1>1, TrackPlace
<1>4. PICK r \in Seq(Summable) : r = QueryDatum.power /\ Len(r) = n
  BY <1>1, <1>2, PowersThere
<1>5. PICK s \in Seq(Summable) : s = db.power /\ Len(s) = v
  BY <1>1, <1>3, WholeTables DEF FiniteDoubles
<1>6. e + j \in Nat /\ (e + j) + c <= n /\ f + k \in Nat /\ (f + k) + c <= v
  <2>1. e + m <= n /\ j + c <= m
    BY <1>1, <1>2, QueryPlace
  <2>2. f + l <= v /\ k + c <= l
    BY <1>1, <1>2, <1>3, TrackPlace
  <2> QED
    BY <1>1, <2>1, <2>2
<1>7. SumOf([w \in 1 .. c |-> r[(e + j) + (w - 1) + 1]]) = WindowSum(r, (e + j) + 1, c)
  <2>1. PICK x \in Nat : x = e + j /\ x + c <= Len(r)
    BY <1>4, <1>6
  <2>2. SumOf([w \in 1 .. c |-> r[x + (w - 1) + 1]]) = WindowSum(r, x + 1, c)
    BY <2>1, PowersOfWindow
  <2> QED
    BY ONLY <2>1, <2>2
<1>8. SumOf([w \in 1 .. c |-> s[(f + k) + (w - 1) + 1]]) = WindowSum(s, (f + k) + 1, c)
  <2>1. PICK x \in Nat : x = f + k /\ x + c <= Len(s)
    BY <1>5, <1>6
  <2>2. SumOf([w \in 1 .. c |-> s[x + (w - 1) + 1]]) = WindowSum(s, x + 1, c)
    BY <2>1, PowersOfWindow
  <2> QED
    BY ONLY <2>1, <2>2
<1>9. qpointers.power[e + j + 1] = WindowSum(r, (e + j) + 1, c)
  <2>1. qpointers.power # <<>>
    BY DEF Ready, Running
  <2>2. PICK i \in 1 .. n - c + 1 : i = e + j + 1
    BY <1>6
  <2>3. qpointers.power[0 + i] = WindowSum(r, 0 + i, c)
    BY <1>2, <1>4, <2>1, <2>2 DEF SumInv, SummedBy
  <2>4. 0 + i = i
    OBVIOUS
  <2> QED
    BY ONLY <2>2, <2>3, <2>4
<1>10. dbpointers.power[f + k + 1] = WindowSum(s, (f + k) + 1, c)
  <2>1. PICK i \in 1 .. l - c + 1 : i = k + 1
    <3>1. k + c <= l
      BY <1>1, <1>2, <1>3
    <3> QED
      BY <1>1, <3>1
  <2>2. dbpointers.power[f + i] = WindowSum(s, f + i, c)
    BY <1>1, <1>2, <1>3, <1>5, <2>1 DEF SumInv, SummedBy
  <2>3. f + (k + 1) = f + k + 1
    BY <1>1
  <2> QED
    BY ONLY <2>1, <2>2, <2>3
<1>11. PowersMatch(track, j, k)
         <=> PowersAcceptable(WindowSum(r, (e + j) + 1, c), WindowSum(s, (f + k) + 1, c))
  BY ONLY <1>2, <1>3, <1>9, <1>10, UsesPower DEF PowersMatch
<1>12. TruePowersAcceptable(track, j, k)
         <=> PowersAcceptable(WindowSum(r, (e + j) + 1, c), WindowSum(s, (f + k) + 1, c))
  BY ONLY <1>2, <1>3, <1>4, <1>5, <1>7, <1>8, UsesPower DEF TruePowersAcceptable, OverWindow
<1> QED
  BY <1>11, <1>12

(* The distance of the windows that are matched is the true one.            *)
LEMMA DistanceIsTrue ==
  ASSUME FiniteDoubles, SumInv, Ready, Matching, pc = "windows"
  PROVE  Distance(dd[<<j, k>>], qpointers.l2norm[QueryFirst + j + 1],
                  dbpointers.l2norm[FirstVector(track) + k + 1]) = LoopDistance(track, j, k)
<1>1. /\ db \in Databases /\ query \in Queries /\ ~ QueryUnknown /\ ~ QueryTooLong
      /\ track \in 0 .. NumFiles - 1 /\ j \in Nat /\ k \in Nat
      /\ j + query.seqlen <= QueryCount /\ k + query.seqlen <= TrackLength(track)
      /\ OnHop(j, query.qhop) /\ OnHop(k, query.ihop) /\ dd = Correlations(track, buffer)
  BY DEF SumInv, LoopInv, AtTrack, WindowsInTrack, Ready, Running, Refused, Matching
<1>2. PICK c \in Nat \ {0}, e \in Nat, n \in Nat, m \in Nat :
        c = query.seqlen /\ e = QueryFirst /\ n = QueryDatum.n /\ m = QueryCount
  BY <1>1, QueryTypes, DatumTypes, QueryPlace
<1>3. PICK f \in Nat, l \in Nat, v \in Nat :
        f = FirstVector(track) /\ l = TrackLength(track) /\ v = VectorStart[NumFiles]
  BY <1>1, TrackPlace
<1>4. e + m <= n /\ j + c <= m /\ k + c <= l
  BY <1>1, <1>2, <1>3, QueryPlace
<1>5. qpointers.l2norm[e + j + 1] = QueryNorm(j)
  <2>1. PICK i \in 1 .. n - c + 1 : i = e + j + 1
    BY <1>1, <1>4
  <2>2. qpointers.l2norm[0 + i] = WindowSum(L2norms(QueryDatum.doubles, n), 0 + i, c)
    BY <1>2, <2>1 DEF SumInv, SummedBy
  <2>3. QueryNorm(j) = WindowSum(L2norms(QueryDatum.doubles, n), e + j + 1, c)
    BY <1>1, <1>2, TrueNorms
  <2>4. 0 + i = i
    OBVIOUS
  <2> QED
    BY ONLY <2>1, <2>2, <2>3, <2>4
<1>6. dbpointers.l2norm[f + k + 1] = TrackNorm(track, k)
  <2>1. PICK i \in 1 .. l - c + 1 : i = k + 1
    BY <1>1, <1>4
  <2>2. PICK norms : norms = L2norms(db.data, Len(db.data) \div db.dim)
    OBVIOUS
  <2>3. dbpointers.l2norm[f + i] = WindowSum(norms, f + i, c)
    BY <1>1, <1>2, <1>3, <2>1, <2>2 DEF SumInv, SummedBy
  <2>4. TrackNorm(track, k) = WindowSum(norms, f + k + 1, c)
    BY <1>1, <1>2, <1>3, <2>2, TrueNorms
  <2>5. f + (k + 1) = f + k + 1
    BY <1>1
  <2> QED
    BY ONLY <2>1, <2>3, <2>4, <2>5
<1>7. dd[<<j, k>>] = Product(track, j, k)
  <2>1. <<j, k>> \in {ab \in (0 .. m - c) \X (0 .. l - c) :
                       OnHop(ab[1], query.qhop) /\ OnHop(ab[2], query.ihop)}
    BY <1>1, <1>4
  <2>2. dd[<<j, k>>] = SumOf([w \in 1 .. c |-> Cell(VectorAt(QueryDatum.doubles, e + j + w - 1),
                                                    VectorAt(buffer, k + w - 1))])
    BY <1>1, <1>2, <1>3, <2>1 DEF Correlations
  <2>3. \A w \in 1 .. c : VectorAt(buffer, k + w - 1) = VectorAt(db.data, f + (k + (w - 1)))
    <3> SUFFICES ASSUME NEW w \in 1 .. c
                 PROVE  VectorAt(buffer, k + w - 1) = VectorAt(db.data, f + (k + (w - 1)))
      OBVIOUS
    <3>1. PICK i \in Nat : i = k + (w - 1) /\ i < l /\ k + w - 1 = i
      BY <1>1, <1>4
    <3>2. VectorAt(buffer, i) = VectorAt(db.data, f + i)
      BY <1>3, <3>1, BufferVectors DEF SumInv
    <3> QED
      BY ONLY <3>1, <3>2
  <2>4. \A w \in 1 .. c : e + j + w - 1 = e + (j + (w - 1))
    BY <1>1
  <2>5. \A w \in 1 .. c : VectorAt(QueryDatum.doubles, e + j + w - 1) = VectorAt(QueryDatum.doubles, e + (j + (w - 1)))
    BY <2>4
  <2>6. dd[<<j, k>>] = SumOf([w \in 1 .. c |-> Cell(VectorAt(QueryDatum.doubles, e + (j + (w - 1))),
                                                    VectorAt(db.data, f + (k + (w - 1))))])
    BY ONLY <2>2, <2>3, <2>5
  <2> QED
    BY ONLY <1>2, <1>3, <2>6 DEF Product, OverWindow, QueryVector, TrackVector
<1> QED
  BY ONLY <1>2, <1>3, <1>5, <1>6, <1>7 DEF LoopDistance, QueryNorm, TrackNorm, Product
-----------------------------------------------------------------------------
(* What a query finds, and how far it has come.                             *)

HitAt(t, a, b) ==
  [ikey |-> Key(t), qpos |-> IF Exhaustive THEN a ELSE query.start, ipos |-> b,
   dist |-> LoopDistance(t, a, b)]

IsHit(t, a, b) ==
  /\ t \in 0 .. NumFiles - 1 /\ Key(t) \in allowed /\ DurationMatches(t)
  /\ a \in Starting(QueryCount, query.qhop) /\ b \in Starting(TrackLength(t), query.ihop)
  /\ TruePowersAcceptable(t, a, b) /\ Within(LoopDistance(t, a, b), Radius)

(* The windows that have been matched, or passed over.                      *)
Passed(t, a, b) ==
  CASE pc = "tracks"            -> t < track
    [] pc = "windows"           -> t < track \/ (t = track /\ (a < j \/ (a = j /\ b < k)))
    [] pc \in {"points", "done"} -> TRUE
    [] OTHER                    -> FALSE

(* What the loop is to find: the windows that the refinement lets through,  *)
(* with the durations that the pointers have.                               *)
LoopHits ==
  UNION {{HitAt(t, a, b) :
             b \in {c \in Starting(TrackLength(t), query.ihop) :
                     /\ TruePowersAcceptable(t, a, c)
                     /\ Within(LoopDistance(t, a, c), Radius)}} :
           a \in Starting(QueryCount, query.qhop),
           t \in {u \in 0 .. NumFiles - 1 : Key(u) \in allowed /\ DurationMatches(u)}}

LEMMA HitsAre == \A h : h \in LoopHits <=> \E t, a, b : IsHit(t, a, b) /\ h = HitAt(t, a, b)
<1> SUFFICES ASSUME NEW h
             PROVE  h \in LoopHits <=> \E t, a, b : IsHit(t, a, b) /\ h = HitAt(t, a, b)
  OBVIOUS
<1>1. ASSUME h \in LoopHits
      PROVE  \E t, a, b : IsHit(t, a, b) /\ h = HitAt(t, a, b)
  BY <1>1 DEF LoopHits, IsHit, HitAt
<1>2. ASSUME NEW t, NEW a, NEW b, IsHit(t, a, b), h = HitAt(t, a, b)
      PROVE  h \in LoopHits
  <2> DEFINE Found(u, c) ==
               {HitAt(u, c, d) : d \in {d \in Starting(TrackLength(u), query.ihop) :
                                          /\ TruePowersAcceptable(u, c, d)
                                          /\ Within(LoopDistance(u, c, d), Radius)}}
             Tracks == {u \in 0 .. NumFiles - 1 : Key(u) \in allowed /\ DurationMatches(u)}
             Windowed == Starting(QueryCount, query.qhop)
  <2>1. t \in Tracks /\ a \in Windowed /\ h \in Found(t, a)
    BY <1>2 DEF IsHit
  <2>2. LoopHits = UNION {Found(u, c) : c \in Windowed, u \in Tracks}
    BY DEF LoopHits, HitAt
  <2> HIDE DEF Found, Tracks, Windowed
  <2> QED
    BY <2>1, <2>2
<1> QED
  BY <1>1, <1>2

(* The tables stay as they are, and with them what there is to find: only   *)
(* durations are looked up in the pointers.                                 *)
LEMMA SameHits ==
  ASSUME UNCHANGED <<db, query, allowed>>, UNCHANGED pointers \/ "duration" \notin query.flags
  PROVE  \A t, a, b : HitAt(t, a, b)' = HitAt(t, a, b) /\ (IsHit(t, a, b)' <=> IsHit(t, a, b))
<1>1. db' = db /\ query' = query /\ allowed' = allowed
  OBVIOUS
<1>2. QueryDatum' = QueryDatum /\ QueryFirst' = QueryFirst /\ QueryCount' = QueryCount
  BY <1>1 DEF QueryDatum, QueryTrack, FirstVector, TrackOffset, TrackLength, Key, NumFiles, QueryFirst, QueryCount, Exhaustive
<1>3. /\ NumFiles' = NumFiles /\ (Exhaustive' <=> Exhaustive) /\ (UsesPower' <=> UsesPower) /\ Radius' = Radius
      /\ \A t : Key(t)' = Key(t) /\ TrackLength(t)' = TrackLength(t) /\ FirstVector(t)' = FirstVector(t)
  BY <1>1 DEF NumFiles, Exhaustive, UsesPower, Radius, Key, TrackLength, FirstVector, TrackOffset
<1>4. \A n, hop : Starting(n, hop)' = Starting(n, hop)
  BY <1>1 DEF Starting, OnHop, Hop
<1>5. \A t : DurationMatches(t)' <=> DurationMatches(t)
  <2>1. CASE "duration" \notin query.flags
    BY <1>1, <2>1 DEF DurationMatches
  <2>2. CASE UNCHANGED pointers
    BY <1>1, <1>2, <1>3, <2>2 DEF DurationMatches, MeansMatch, pointers
  <2> QED BY <2>1, <2>2
<1>6. \A p, q : PowersAcceptable(p, q)' <=> PowersAcceptable(p, q)
  BY <1>1 DEF PowersAcceptable
<1>7. \A p, q, s : Distance(p, q, s)' = Distance(p, q, s)
  BY <1>1 DEF Distance
<1>8. \A s, i : VectorAt(s, i)' = VectorAt(s, i)
  BY <1>1 DEF VectorAt
<1>9. \A v, w : DotProduct(v, w)' = DotProduct(v, w) /\ Cell(v, w)' = Cell(v, w)
  BY <1>1 DEF DotProduct, Cell, Divergence, SumOf
<1>10. \A t, a, b : LoopDistance(t, a, b)' = LoopDistance(t, a, b)
  <2> SUFFICES ASSUME NEW t, NEW a, NEW b
               PROVE  LoopDistance(t, a, b)' = LoopDistance(t, a, b)
    OBVIOUS
  <2>1. query'.seqlen = query.seqlen
    BY <1>1
  <2>2. \A i : QueryVector(i)' = QueryVector(i) /\ TrackVector(t, i)' = TrackVector(t, i)
    BY <1>1, <1>2, <1>3, <1>8 DEF QueryVector, TrackVector
  <2>3. QueryNorm(a)' = QueryNorm(a)
    BY <1>9, <2>1, <2>2 DEF QueryNorm, OverWindow, SumOf
  <2>4. TrackNorm(t, b)' = TrackNorm(t, b)
    BY <1>9, <2>1, <2>2 DEF TrackNorm, OverWindow, SumOf
  <2>5. Product(t, a, b)' = Product(t, a, b)
    BY <1>9, <2>1, <2>2 DEF Product, OverWindow, SumOf
  <2>6. \A u, c, d : LoopDistance(u, c, d) = Distance(Product(u, c, d), QueryNorm(c), TrackNorm(u, d))
    BY DEF LoopDistance, QueryNorm, TrackNorm, Product
  <2>7. LoopDistance(t, a, b)' = Distance(Product(t, a, b), QueryNorm(a), TrackNorm(t, b))'
    BY DEF LoopDistance, QueryNorm, TrackNorm, Product
  <2> QED
    BY ONLY <1>7, <2>3, <2>4, <2>5, <2>6, <2>7
<1>11. \A t, a, b : TruePowersAcceptable(t, a, b)' <=> TruePowersAcceptable(t, a, b)
  BY <1>1, <1>2, <1>3, <1>6 DEF TruePowersAcceptable, OverWindow
<1>12. \A d : Within(d, Radius)' <=> Within(d, Radius)
  BY <1>3 DEF Within
<1> QED
  BY <1>1, <1>2, <1>3, <1>4, <1>5, <1>10, <1>11, <1>12 DEF HitAt, IsHit

(* What was not offered because the queue was full of better.               *)
Beaten(h) ==
  /\ Group(h) \in DOMAIN thresholds
  /\ ~ Better(h, [dist |-> thresholds[Group(h)]])

(* How many of the results so far were offered: they come first.            *)
Firsts == Cardinality(EarlierTo(sofar))

(* What is offered first is the results so far, of each group as many as    *)
(* there are of it.                                                         *)
EarlierAdded ==
  /\ sofar <= Len(query.sofar) /\ (Running => sofar = Len(query.sofar))
  /\ Firsts <= Len(offered) /\ (pc \in {"start", "sofar"} => Len(offered) = Firsts)
  /\ \A i \in 1 .. Firsts : \E n \in EarlierTo(sofar) : offered[i] = query.sofar[n]
  /\ \A n \in EarlierTo(sofar) : \E i \in 1 .. Firsts : offered[i] = query.sofar[n]
  /\ \A g : Cardinality({i \in 1 .. Firsts : Group(offered[i]) = g})
              = Cardinality({n \in EarlierTo(sofar) : Group(query.sofar[n]) = g})

(* After them come hits, each once; a hit that did not come is beaten.      *)
HitsAdded ==
  Running =>
    /\ \A x \in Added : x > Firsts =>
         \E t, a, b : IsHit(t, a, b) /\ Passed(t, a, b) /\ offered[x] = HitAt(t, a, b)
    /\ \A x, y \in Added : x > Firsts /\ y > Firsts /\ offered[x] = offered[y] => x = y
    /\ \A t, a, b : IsHit(t, a, b) /\ Passed(t, a, b) =>
         \/ \E x \in Added : x > Firsts /\ offered[x] = HitAt(t, a, b)
         \/ Beaten(HitAt(t, a, b))

(* The threshold in use is that of the query, or of a full queue that the   *)
(* track's points go to.                                                    *)
ThreshKnown ==
  pc = "windows" /\ thresh # Infinity =>
    \/ thresh = Radius
    \/ params.accumulation # "one_to_one" /\ thresh = Threshold(Key(track))

(* The accumulator is the one the query asks for.                           *)
ParamsOfQuery ==
  params = [accumulation |-> query.accumulation, distance |-> query.distance,
            npoints |-> query.npoints, ntracks |-> query.ntracks]

(* Points are taken out of the accumulator when the tracks are done.        *)
ResultsGot ==
  /\ pc \notin {"points", "done"} => ranked = {}
  /\ pc # "done" => results = NoResults
  /\ pc = "done" /\ params.accumulation # "per_track" =>
       results = UNION {queues[g] : g \in DOMAIN queues}

(* What add_point makes of the points offered.                              *)
LEMMA OneAdded ==
  ASSUME IsSequence(offered), NEW p, AddPoint(p)
  PROVE  /\ Len(offered) \in Nat /\ params' = params /\ UNCHANGED emptying
         /\ p.dist = NaN => UNCHANGED filling
         /\ p.dist # NaN => Len(offered') = Len(offered) + 1 /\ offered'[Len(offered) + 1] = p
         /\ \A i \in 1 .. Len(offered) : offered'[i] = offered[i]
<1>1. CASE p.dist = NaN
  BY <1>1, SequenceAppended DEF AddPoint, filling
<1>2. CASE p.dist # NaN
  <2>1. offered' = Append(offered, p) /\ params' = params /\ UNCHANGED emptying
    BY <1>2 DEF AddPoint, AddNearest, AddToQueue
  <2>2. /\ Len(offered) \in Nat
        /\ Len(Append(offered, p)) = Len(offered) + 1 /\ Append(offered, p)[Len(offered) + 1] = p
        /\ \A i \in 1 .. Len(offered) : Append(offered, p)[i] = offered[i]
    BY SequenceAppended
  <2> QED BY ONLY <1>2, <2>1, <2>2
<1> QED BY <1>1, <1>2

(* A result so far is added. *)
LEMMA EarlierAddedMore ==
  ASSUME query \in Queries, Typed, sofar \in Nat, EarlierAdded, AddSoFar
  PROVE  EarlierAdded'
<1> DEFINE p == query.sofar[sofar + 1]
<1>1. /\ pc = "sofar" /\ pc' = "sofar" /\ sofar < Len(query.sofar) /\ sofar' = sofar + 1 /\ query' = query
      /\ AddPoint(p)
  BY DEF AddSoFar
<1>2. /\ Len(offered) \in Nat /\ params' = params
      /\ p.dist = NaN => offered' = offered
      /\ p.dist # NaN => Len(offered') = Len(offered) + 1 /\ offered'[Len(offered) + 1] = p
      /\ \A i \in 1 .. Len(offered) : offered'[i] = offered[i]
  BY <1>1, OneAdded DEF Typed, filling
<1>3. PICK f \in Nat : f = Firsts /\ f = Len(offered)
  BY <1>1, <1>2 DEF EarlierAdded
<1>4. PICK l \in Nat : l = Len(query.sofar) /\ DOMAIN query.sofar = 1 .. l
  BY QueryTypes
<1>5. sofar \in 0 .. l - 1 /\ sofar + 1 <= l
  BY <1>1, <1>4
<1>6. Firsts' = f + (IF p.dist # NaN THEN 1 ELSE 0)
  <2>1. EarlierTo(sofar)' = EarlierTo(sofar + 1)
    BY <1>1 DEF EarlierTo, Earlier
  <2>2. Cardinality(EarlierTo(sofar + 1)) = Cardinality(EarlierTo(sofar)) + (IF p.dist # NaN THEN 1 ELSE 0)
    BY <1>4, <1>5, OneMoreEarlier
  <2> QED BY ONLY <1>3, <2>1, <2>2 DEF Firsts
<1>7. /\ sofar + 1 \in Earlier <=> p.dist # NaN
      /\ EarlierTo(sofar)' = IF p.dist # NaN THEN EarlierTo(sofar) \cup {sofar + 1} ELSE EarlierTo(sofar)
      /\ sofar + 1 \notin EarlierTo(sofar)
  <2>1. Earlier \subseteq 1 .. l /\ (sofar + 1 \in Earlier <=> p.dist # NaN)
    BY <1>4, <1>5 DEF Earlier
  <2>2. \A i \in 1 .. l : i <= sofar + 1 <=> i <= sofar \/ i = sofar + 1
    BY <1>5
  <2>3. ~ (sofar + 1 <= sofar) /\ sofar + 1 <= sofar + 1
    BY <1>5
  <2>4. EarlierTo(sofar)' = {i \in Earlier : i <= sofar + 1}
    BY <1>1 DEF EarlierTo, Earlier
  <2> QED BY <2>1, <2>2, <2>3, <2>4 DEF EarlierTo
<1>8. Len(offered') = Firsts'
  BY <1>2, <1>3, <1>6
<1>9. \A i \in 1 .. Firsts' : \E n \in EarlierTo(sofar)' : offered'[i] = query'.sofar[n]
  <2>1. \A i \in 1 .. f : \E n \in EarlierTo(sofar) : offered[i] = query.sofar[n]
    BY <1>3 DEF EarlierAdded
  <2>2. CASE p.dist = NaN
    <3>1. offered' = offered /\ Firsts' = f /\ EarlierTo(sofar)' = EarlierTo(sofar)
      BY <1>2, <1>6, <1>7, <2>2
    <3> QED BY ONLY <1>1, <2>1, <3>1
  <2>3. CASE p.dist # NaN
    <3>1. /\ Firsts' = f + 1 /\ EarlierTo(sofar)' = EarlierTo(sofar) \cup {sofar + 1}
          /\ offered'[f + 1] = p /\ \A i \in 1 .. f : offered'[i] = offered[i]
      BY <1>2, <1>3, <1>6, <1>7, <2>3
    <3>2. \A i \in 1 .. f + 1 : i \in 1 .. f \/ i = f + 1
      OBVIOUS
    <3> QED BY ONLY <1>1, <2>1, <3>1, <3>2
  <2> QED BY <2>2, <2>3
<1>13. \A n \in EarlierTo(sofar)' : \E i \in 1 .. Firsts' : offered'[i] = query'.sofar[n]
  <2>1. \A n \in EarlierTo(sofar) : \E i \in 1 .. f : offered[i] = query.sofar[n]
    BY <1>3 DEF EarlierAdded
  <2>2. CASE p.dist = NaN
    <3>1. offered' = offered /\ Firsts' = f /\ EarlierTo(sofar)' = EarlierTo(sofar)
      BY <1>2, <1>6, <1>7, <2>2
    <3> QED BY ONLY <1>1, <2>1, <3>1
  <2>3. CASE p.dist # NaN
    <3>1. /\ Firsts' = f + 1 /\ EarlierTo(sofar)' = EarlierTo(sofar) \cup {sofar + 1}
          /\ offered'[f + 1] = p /\ \A i \in 1 .. f : offered'[i] = offered[i]
      BY <1>2, <1>3, <1>6, <1>7, <2>3
    <3>2. (\A i \in 1 .. f : i \in 1 .. f + 1) /\ f + 1 \in 1 .. f + 1
      OBVIOUS
    <3> QED BY ONLY <1>1, <2>1, <3>1, <3>2
  <2> QED BY <2>2, <2>3
<1>10. ASSUME NEW g
       PROVE  Cardinality({i \in 1 .. Firsts' : Group(offered[i])' = g})
                = Cardinality({n \in EarlierTo(sofar)' : Group(query.sofar[n])' = g})
  <2> DEFINE A == {i \in 1 .. f : Group(offered[i]) = g}
             B == {n \in EarlierTo(sofar) : Group(query.sofar[n]) = g}
             C == {i \in 1 .. Firsts' : Group(offered[i])' = g}
             D == {n \in EarlierTo(sofar)' : Group(query.sofar[n])' = g}
  <2>1. Cardinality(A) = Cardinality(B)
    BY <1>3 DEF EarlierAdded
  <2>2. IsFiniteSet(A) /\ IsFiniteSet(B)
    <3>1. IsFiniteSet(1 .. f) /\ IsFiniteSet(EarlierTo(sofar))
      <4>1. IsFiniteSet(1 .. f)
        BY FS_Interval
      <4>2. IsFiniteSet(EarlierTo(sofar))
        BY EarlierFinite
      <4> QED BY <4>1, <4>2
    <3>2. A \subseteq 1 .. f /\ B \subseteq EarlierTo(sofar)
      OBVIOUS
    <3> HIDE DEF A, B
    <3> QED BY <3>1, <3>2, FS_Subset
  <2>3. f + 1 \notin A /\ sofar + 1 \notin B
    <3>1. f + 1 \notin 1 .. f
      OBVIOUS
    <3> QED BY <1>7, <3>1
  <2>4. \A q : Group(q)' = GroupOf(params.accumulation, q)' /\ Group(q) = GroupOf(params.accumulation, q)
    BY DEF Group
  <2>5. /\ \A i : Group(offered[i])' = GroupOf(params.accumulation, offered'[i])
        /\ \A n : Group(query.sofar[n])' = Group(query.sofar[n])
    BY <1>1, <1>2 DEF Group, GroupOf
  <2>6. ASSUME p.dist = NaN
        PROVE  Cardinality(C) = Cardinality(D)
    <3>1. offered' = offered /\ Firsts' = f /\ EarlierTo(sofar)' = EarlierTo(sofar)
      BY <1>2, <1>6, <1>7, <2>6
    <3>2. C = A
      BY ONLY <2>5, <3>1 DEF Group
    <3>3. D = B
      BY ONLY <2>5, <3>1
    <3> HIDE DEF A, B, C, D
    <3> QED BY <2>1, <3>2, <3>3
  <2>7. ASSUME p.dist # NaN
        PROVE  Cardinality(C) = Cardinality(D)
    <3>1. /\ Firsts' = f + 1 /\ EarlierTo(sofar)' = EarlierTo(sofar) \cup {sofar + 1}
          /\ offered'[f + 1] = p /\ \A i \in 1 .. f : offered'[i] = offered[i]
      BY <1>2, <1>3, <1>6, <1>7, <2>7
    <3>2. 1 .. f + 1 = 1 .. f \cup {f + 1}
      OBVIOUS
    <3>3. C = IF Group(p) = g THEN A \cup {f + 1} ELSE A
      BY ONLY <2>5, <3>1, <3>2 DEF Group
    <3>4. D = IF Group(p) = g THEN B \cup {sofar + 1} ELSE B
      BY ONLY <2>5, <3>1
    <3> HIDE DEF A, B, C, D
    <3>5. ASSUME Group(p) = g PROVE Cardinality(C) = Cardinality(D)
      <4>1. C = A \cup {f + 1} /\ D = B \cup {sofar + 1}
        BY <3>3, <3>4, <3>5
      <4>2. Cardinality(A \cup {f + 1}) = Cardinality(A) + 1 /\ Cardinality(B \cup {sofar + 1}) = Cardinality(B) + 1
        BY <2>2, <2>3, FS_AddElement
      <4> QED BY <2>1, <4>1, <4>2
    <3>6. ASSUME Group(p) # g PROVE Cardinality(C) = Cardinality(D)
      BY <2>1, <3>3, <3>4, <3>6
    <3> QED BY <3>5, <3>6
  <2> QED BY <2>6, <2>7
<1>11. \A g : Cardinality({i \in 1 .. Firsts : Group(offered[i]) = g})'
                = Cardinality({n \in EarlierTo(sofar) : Group(query.sofar[n]) = g})'
  BY <1>10
<1>12. sofar' <= Len(query'.sofar) /\ ~ Running' /\ Firsts' <= Len(offered')
  BY <1>1, <1>4, <1>5, <1>3, <1>6, <1>8 DEF Running
<1> QED BY <1>8, <1>9, <1>11, <1>12, <1>13 DEF EarlierAdded

(* Other steps leave the results so far where they were offered.            *)
LEMMA EarlierAddedKept ==
  ASSUME query \in Queries, EarlierAdded, UNCHANGED <<query, sofar>>, params' = params,
         Len(offered) \in Nat, Len(offered') \in Nat, Len(offered) <= Len(offered'),
         \A i \in 1 .. Len(offered) : offered'[i] = offered[i],
         pc' \in {"start", "sofar"} => pc \in {"start", "sofar"} /\ offered' = offered,
         Running' => Running \/ sofar = Len(query.sofar)
  PROVE  EarlierAdded' /\ Firsts' = Firsts
<1>1. EarlierTo(sofar)' = EarlierTo(sofar) /\ query' = query /\ sofar' = sofar
  BY DEF EarlierTo, Earlier
<1>2. Firsts' = Firsts
  BY <1>1 DEF Firsts
<1>3. Firsts \in Nat
  <2>1. IsFiniteSet(EarlierTo(sofar))
    <3>1. IsFiniteSet(Earlier) /\ EarlierTo(sofar) \subseteq Earlier
      BY EarlierFinite DEF EarlierTo
    <3> QED BY <3>1, FS_Subset
  <2> QED BY <2>1, FS_CardinalityType DEF Firsts
<1>4. \A i \in 1 .. Firsts : i \in 1 .. Len(offered)
  BY <1>3 DEF EarlierAdded
<1>5. \A i \in 1 .. Firsts : offered'[i] = offered[i]
  BY <1>4
<1>6. \A i \in 1 .. Firsts' : \E n \in EarlierTo(sofar)' : offered'[i] = query'.sofar[n]
  BY <1>1, <1>2, <1>5 DEF EarlierAdded
<1>9. \A n \in EarlierTo(sofar)' : \E i \in 1 .. Firsts' : offered'[i] = query'.sofar[n]
  BY <1>1, <1>2, <1>5 DEF EarlierAdded
<1>7. \A g : Cardinality({i \in 1 .. Firsts : Group(offered[i]) = g})'
               = Cardinality({n \in EarlierTo(sofar) : Group(query.sofar[n]) = g})'
  <2> SUFFICES ASSUME NEW g
               PROVE  Cardinality({i \in 1 .. Firsts : Group(offered[i]) = g})'
                        = Cardinality({n \in EarlierTo(sofar) : Group(query.sofar[n]) = g})'
    OBVIOUS
  <2>1. {i \in 1 .. Firsts : Group(offered[i]) = g}' = {i \in 1 .. Firsts : Group(offered[i]) = g}
    BY <1>2, <1>5 DEF Group
  <2>2. {n \in EarlierTo(sofar) : Group(query.sofar[n]) = g}' = {n \in EarlierTo(sofar) : Group(query.sofar[n]) = g}
    BY <1>1 DEF Group
  <2>3. Cardinality({i \in 1 .. Firsts : Group(offered[i]) = g})
          = Cardinality({n \in EarlierTo(sofar) : Group(query.sofar[n]) = g})
    BY DEF EarlierAdded
  <2> QED BY <2>1, <2>2, <2>3
<1>8. /\ sofar' <= Len(query'.sofar) /\ (Running' => sofar' = Len(query'.sofar))
      /\ Firsts' <= Len(offered') /\ (pc' \in {"start", "sofar"} => Len(offered') = Firsts')
  BY <1>1, <1>2, <1>3 DEF EarlierAdded
<1> QED BY <1>2, <1>6, <1>7, <1>8, <1>9 DEF EarlierAdded

(* No hit is passed by a step that adds nothing.                            *)
LEMMA HitsKept ==
  ASSUME HitsAdded, Running, UNCHANGED <<db, query, sofar, allowed, pointers, params, offered, thresholds>>,
         \A t, a, b : IsHit(t, a, b) => (Passed(t, a, b)' <=> Passed(t, a, b))
  PROVE  HitsAdded'
<1>1. /\ offered' = offered /\ thresholds' = thresholds /\ params' = params
      /\ sofar' = sofar /\ query' = query
  OBVIOUS
<1>2. \A t, a, b : HitAt(t, a, b)' = HitAt(t, a, b) /\ (IsHit(t, a, b)' <=> IsHit(t, a, b))
  BY SameHits
<1>3. Firsts' = Firsts /\ Added' = Added
  BY <1>1 DEF Firsts, EarlierTo, Earlier, Added
<1>4. \A h : Beaten(h)' <=> Beaten(h)
  BY <1>1 DEF Beaten, Group, Better
<1>5. \A t, a, b : Beaten(HitAt(t, a, b))' <=> Beaten(HitAt(t, a, b))
  <2>1. \A t, a, b : Beaten(HitAt(t, a, b))' <=> /\ Group(HitAt(t, a, b))' \in DOMAIN thresholds'
                                                 /\ ~ Better(HitAt(t, a, b), [dist |-> thresholds[Group(HitAt(t, a, b))]])'
    BY DEF Beaten
  <2> QED BY ONLY <1>1, <1>2 DEF Beaten, Group, Better
<1>6. /\ \A x \in Added : x > Firsts =>
           \E t, a, b : IsHit(t, a, b) /\ Passed(t, a, b) /\ offered[x] = HitAt(t, a, b)
      /\ \A x, y \in Added : x > Firsts /\ y > Firsts /\ offered[x] = offered[y] => x = y
      /\ \A t, a, b : IsHit(t, a, b) /\ Passed(t, a, b) =>
           \/ \E x \in Added : x > Firsts /\ offered[x] = HitAt(t, a, b)
           \/ Beaten(HitAt(t, a, b))
  BY DEF HitsAdded
<1>7. \A t, a, b : IsHit(t, a, b) => (Passed(t, a, b)' <=> Passed(t, a, b))
  OBVIOUS
<1>8. \A x \in Added' : x > Firsts' =>
        \E t, a, b : IsHit(t, a, b)' /\ Passed(t, a, b)' /\ offered'[x] = HitAt(t, a, b)'
  BY ONLY <1>1, <1>2, <1>3, <1>6, <1>7
<1>9. \A x, y \in Added' : x > Firsts' /\ y > Firsts' /\ offered'[x] = offered'[y] => x = y
  BY ONLY <1>1, <1>3, <1>6
<1>10. \A t, a, b : IsHit(t, a, b)' /\ Passed(t, a, b)' =>
         \/ \E x \in Added' : x > Firsts' /\ offered'[x] = HitAt(t, a, b)'
         \/ Beaten(HitAt(t, a, b))'
  BY ONLY <1>1, <1>2, <1>3, <1>5, <1>6, <1>7
<1> QED BY ONLY <1>8, <1>9, <1>10 DEF HitsAdded

(* Nothing has been passed when the loop begins.                            *)
LEMMA HitsInitially ==
  ASSUME SetUp, EarlierAdded, Len(offered) \in Nat
  PROVE  HitsAdded'
<1>1. /\ pc = "sofar" /\ pc' = "tracks" /\ track' = 0 /\ offered' = offered
      /\ sofar' = sofar /\ query' = query
  BY DEF SetUp, accVars
<1>2. Firsts' = Firsts /\ Firsts = Len(offered) /\ Added' = 1 .. Len(offered)
  BY <1>1 DEF Firsts, EarlierTo, Earlier, EarlierAdded, Added
<1>3. \A x \in Added' : ~ (x > Firsts')
  BY <1>2
<1>4. \A t, a, b : IsHit(t, a, b)' => t \in Nat
  BY DEF IsHit
<1>5. \A t, a, b : IsHit(t, a, b)' => ~ Passed(t, a, b)'
  BY <1>1, <1>4 DEF Passed
<1> QED BY ONLY <1>3, <1>5 DEF HitsAdded

(* The tracks between are not allowed, and a track that is passed over has  *)
(* no window or not the duration.                                           *)
LEMMA NextTrackPasses ==
  ASSUME LoopInv, NextTrack, NEW t, NEW a, NEW b, IsHit(t, a, b)
  PROVE  Passed(t, a, b)' <=> Passed(t, a, b)
<1>1. PICK u : u = Min(Unvisited)
  OBVIOUS
<1>2. PICK N \in Nat : N = NumFiles
  BY Tables DEF LoopInv
<1>3. track \in 0 .. N /\ pc = "tracks"
  BY <1>2 DEF LoopInv, AtTrack, NextTrack
<1>4. u \in Unvisited /\ \A v \in Unvisited : u <= v
  <2>1. Unvisited # {} /\ Unvisited \in SUBSET Nat
    BY <1>2, <1>3 DEF NextTrack, Unvisited
  <2>2. \E x \in Unvisited : \A y \in Unvisited : x <= y
    BY <2>1, LeastNatural
  <2> QED BY <1>1, <2>2 DEF Min
<1>5. u \in track .. N - 1
  BY <1>2, <1>4 DEF Unvisited
<1>6. t \in 0 .. N - 1 /\ a \in Nat /\ b \in Nat /\ Key(t) \in allowed /\ DurationMatches(t) /\ b + query.seqlen <= TrackLength(t)
  BY <1>2 DEF IsHit, Starting
<1>7. t < track <=> t < u
  <2>1. t \notin track .. N - 1 => t < track
    BY <1>3, <1>6
  <2>2. t \in track .. N - 1 => t \in Unvisited
    BY <1>2, <1>6 DEF Unvisited
  <2>3. t \in track .. N - 1 => u <= t
    BY <1>4, <2>2
  <2> QED BY <1>3, <1>5, <1>6, <2>1, <2>3
<1>8. Passed(t, a, b) <=> t < track
  BY <1>3 DEF Passed
<1>9. CASE query.seqlen <= TrackLength(u) /\ DurationMatches(u)
  <2>1. pc' = "windows" /\ track' = u /\ j' = 0 /\ k' = 0
    BY <1>1, <1>9 DEF NextTrack
  <2>2. ~ (a < 0) /\ ~ (b < 0)
    BY <1>6
  <2>3. Passed(t, a, b)' <=> t < u
    BY <2>1, <2>2 DEF Passed
  <2> QED BY <1>7, <1>8, <2>3
<1>10. CASE ~ (query.seqlen <= TrackLength(u) /\ DurationMatches(u))
  <2>1. pc' = "tracks" /\ track' = u + 1
    BY <1>1, <1>10 DEF NextTrack
  <2>2. t # u
    <3>1. ASSUME t = u PROVE FALSE
      <4>1. query.seqlen \in Nat /\ TrackLength(u) \in Nat
        BY <1>2, <1>6, <3>1, QueryTypes, Tables DEF LoopInv
      <4> QED BY <1>6, <1>10, <3>1, <4>1
    <3> QED BY <3>1
  <2>3. Passed(t, a, b)' <=> t < u + 1
    BY <2>1 DEF Passed
  <2> QED BY <1>5, <1>6, <1>7, <1>8, <2>2, <2>3
<1> QED BY <1>9, <1>10

LEMMA LastTrackPasses ==
  ASSUME LoopInv, LastTrack, NEW t, NEW a, NEW b, IsHit(t, a, b)
  PROVE  Passed(t, a, b)' <=> Passed(t, a, b)
<1>1. PICK N \in Nat : N = NumFiles
  BY Tables DEF LoopInv
<1>2. track \in 0 .. N /\ pc = "tracks" /\ pc' = "points" /\ Unvisited = {}
  BY <1>1 DEF LoopInv, AtTrack, LastTrack
<1>3. t \in 0 .. N - 1 /\ Key(t) \in allowed
  BY <1>1 DEF IsHit
<1>4. t < track
  <2>1. t \notin track .. N - 1
    BY <1>1, <1>2, <1>3 DEF Unvisited
  <2> QED BY <1>2, <1>3, <2>1
<1> QED BY <1>2, <1>4 DEF Passed

(* A step from one window to the next passes the windows it has matched,    *)
(* and no others: between them none is on a hop.                            *)
LEMMA WindowPasses ==
  ASSUME LoopInv, Matching, Ready, Window, NEW t, NEW a, NEW b, IsHit(t, a, b)
  PROVE  /\ Passed(t, a, b)' <=> Passed(t, a, b) \/ (t = track /\ a = j /\ b = k)
         /\ ~ (Passed(t, a, b) /\ t = track /\ a = j /\ b = k)
<1>1. /\ pc = "windows" /\ query \in Queries /\ db \in Databases /\ j \in Nat /\ k \in Nat
      /\ OnHop(j, query.qhop) /\ OnHop(k, query.ihop)
  BY DEF Window, LoopInv, Matching
<1>2. PICK N \in Nat : N = NumFiles
  BY <1>1, Tables
<1>3. track \in 0 .. N - 1 /\ t \in 0 .. N - 1
  BY <1>1, <1>2 DEF LoopInv, AtTrack, IsHit
<1>4. PICK c \in Nat \ {0}, hq \in Nat \ {0}, hi \in Nat \ {0} :
        c = query.seqlen /\ hq = Hop(query.qhop) /\ hi = Hop(query.ihop)
  BY <1>1, QueryTypes
<1>5. PICK m \in Nat, l \in Nat : m = QueryCount /\ l = TrackLength(track)
  <2>1. ~ QueryUnknown /\ ~ QueryTooLong
    BY <1>1 DEF Ready, Running, Refused
  <2> QED BY <1>1, <1>2, <1>3, <2>1, QueryPlace, Tables
<1>6. /\ a \in Nat /\ b \in Nat /\ OnHop(a, query.qhop) /\ OnHop(b, query.ihop)
      /\ a + c <= m /\ (t = track => b + c <= l)
  BY <1>4, <1>5 DEF IsHit, Starting
<1>7. (j < a => j + hq <= a) /\ (k < b => k + hi <= b)
  BY <1>1, <1>4, <1>6, HopsApart
<1>8. Passed(t, a, b) <=> t < track \/ (t = track /\ (a < j \/ (a = j /\ b < k)))
  BY <1>1 DEF Passed
<1>9. PICK nextj \in Nat, nextk \in Nat : nextj = j + hq /\ nextk = k + hi
  BY <1>1
<1>10. ~ (Passed(t, a, b) /\ t = track /\ a = j /\ b = k)
  BY <1>1, <1>3, <1>6, <1>8
<1>11. CASE nextk <= l - c
  <2>1. pc' = "windows" /\ track' = track /\ j' = j /\ k' = nextk
    BY <1>1, <1>4, <1>5, <1>9, <1>11 DEF Window, LastWindow
  <2>2. Passed(t, a, b)' <=> t < track \/ (t = track /\ (a < j \/ (a = j /\ b < nextk)))
    BY <2>1 DEF Passed
  <2> QED BY <1>1, <1>3, <1>6, <1>7, <1>8, <1>9, <1>10, <2>2
<1>12. CASE ~ (nextk <= l - c) /\ nextj <= m - c
  <2>1. pc' = "windows" /\ track' = track /\ j' = nextj /\ k' = 0
    BY <1>1, <1>4, <1>5, <1>9, <1>12 DEF Window, LastWindow
  <2>2. Passed(t, a, b)' <=> t < track \/ (t = track /\ (a < nextj \/ (a = nextj /\ b < 0)))
    BY <2>1 DEF Passed
  <2>3. t = track => b <= k
    BY <1>1, <1>6, <1>7, <1>9, <1>12
  <2> QED BY <1>1, <1>3, <1>6, <1>7, <1>8, <1>9, <1>10, <2>2, <2>3
<1>13. CASE ~ (nextk <= l - c) /\ ~ (nextj <= m - c)
  <2>1. pc' = "tracks" /\ track' = track + 1
    BY <1>1, <1>4, <1>5, <1>9, <1>13 DEF Window, LastWindow
  <2>2. Passed(t, a, b)' <=> t < track + 1
    BY <2>1 DEF Passed
  <2>3. (t = track => b <= k) /\ a <= j
    BY <1>1, <1>6, <1>7, <1>9, <1>13
  <2> QED BY <1>1, <1>3, <1>6, <1>8, <1>10, <2>2, <2>3
<1> QED BY <1>11, <1>12, <1>13

(* What the steps of the loop rely on.                                      *)
Sound == SumInv /\ Ready /\ Matching /\ ParamsOfQuery /\ TInv

LEMMA HitTyped ==
  ASSUME FiniteDoubles, Sound, Running, NEW t, NEW a, NEW b, IsHit(t, a, b)
  PROVE  HitAt(t, a, b).dist \in Int
<1>1. /\ db \in Databases /\ query \in Queries /\ ~ QueryUnknown /\ ~ QueryTooLong
      /\ query.distance \in Distances
  BY ParamsAssumption DEF Sound, SumInv, LoopInv, Ready, Refused, ParamsOfQuery, TInv, IInv, Typed
<1>2. /\ t \in 0 .. NumFiles - 1 /\ LoopDistance(t, a, b) # NaN
      /\ a \in Starting(QueryCount, query.qhop) /\ b \in Starting(TrackLength(t), query.ihop)
  BY DEF IsHit, Within
<1>3. QueryCount \in Nat /\ TrackLength(t) \in Nat
  BY <1>1, <1>2, QueryPlace, TrackPlace
<1>4. a \in Nat /\ b \in Nat /\ a + query.seqlen <= QueryCount /\ b + query.seqlen <= TrackLength(t)
  BY <1>2, <1>3 DEF Starting
<1>5. LoopDistance(t, a, b) \in Int \cup {NaN}
  BY <1>1, <1>2, <1>4, LoopDistanceTyped
<1> QED BY <1>2, <1>5 DEF HitAt

(* Two places are never told as one.                                        *)
LEMMA PlacesApart ==
  ASSUME Sound, Running, NEW t, NEW a, NEW b, NEW u, NEW c, NEW d,
         IsHit(t, a, b), IsHit(u, c, d), HitAt(t, a, b) = HitAt(u, c, d)
  PROVE  t = u /\ a = c /\ b = d
<1>1. db \in Databases /\ query \in Queries
  BY DEF Sound, SumInv, LoopInv
<1>2. t \in 0 .. NumFiles - 1 /\ u \in 0 .. NumFiles - 1 /\ Key(t) = Key(u) /\ b = d
  BY DEF IsHit, HitAt
<1>3. t = u
  BY <1>1, <1>2, KeysDistinct
<1>4. a = c
  <2>1. CASE Exhaustive
    BY <2>1 DEF HitAt
  <2>2. CASE ~ Exhaustive
    <3>1. QueryCount = query.seqlen /\ query.seqlen \in Nat \ {0}
      BY <1>1, <2>2, QueryTypes DEF QueryCount
    <3>2. a \in Nat /\ c \in Nat /\ a + query.seqlen <= query.seqlen /\ c + query.seqlen <= query.seqlen
      BY <3>1 DEF IsHit, Starting
    <3> QED BY <3>1, <3>2
  <2> QED BY <2>1, <2>2
<1> QED BY <1>2, <1>3, <1>4

(* The point of the windows that are matched, and whether they are a hit.   *)
LEMMA PointHere ==
  ASSUME FiniteDoubles, Sound, pc = "windows"
  PROVE  /\ Point(track, j, k) = HitAt(track, j, k)
         /\ HitAt(track, j, k).dist = LoopDistance(track, j, k)
         /\ LoopDistance(track, j, k) \in Int \cup {NaN}
         /\ IsHit(track, j, k) <=> /\ PowersMatch(track, j, k)
                                   /\ Within(LoopDistance(track, j, k), Radius)
<1>1. /\ db \in Databases /\ query \in Queries /\ ~ QueryUnknown /\ ~ QueryTooLong
      /\ query.distance \in Distances
      /\ track \in 0 .. NumFiles - 1 /\ j \in Nat /\ k \in Nat /\ Key(track) \in allowed
      /\ j + query.seqlen <= QueryCount /\ k + query.seqlen <= TrackLength(track)
      /\ DurationMatches(track) /\ OnHop(j, query.qhop) /\ OnHop(k, query.ihop)
  BY ParamsAssumption DEF Sound, SumInv, LoopInv, AtTrack, WindowsInTrack, Ready, Running, Refused,
       ParamsOfQuery, TInv, IInv, Typed, Matching
<1>2. PICK c \in Nat, m \in Nat, l \in Nat : c = query.seqlen /\ m = QueryCount /\ l = TrackLength(track)
  BY <1>1, QueryTypes, QueryPlace, TrackPlace
<1>3. j \in Starting(QueryCount, query.qhop) /\ k \in Starting(TrackLength(track), query.ihop)
  BY <1>1, <1>2 DEF Starting
<1>4. Point(track, j, k) = HitAt(track, j, k)
  BY DistanceIsTrue DEF Sound, Point, HitAt
<1>5. LoopDistance(track, j, k) \in Int \cup {NaN}
  BY <1>1, LoopDistanceTyped
<1>6. PowersMatch(track, j, k) <=> TruePowersAcceptable(track, j, k)
  BY PowersAreTrue DEF Sound
<1>7. HitAt(track, j, k).dist = LoopDistance(track, j, k)
  BY DEF HitAt
<1> QED BY ONLY <1>1, <1>3, <1>4, <1>5, <1>6, <1>7 DEF IsHit

(* What was beaten stays beaten: thresholds only tighten.                   *)
LEMMA StaysBeaten ==
  ASSUME TInv, TInv', Tightened, params' = params, NEW h, h.dist \in Int, Beaten(h)
  PROVE  /\ Group(h) \in DOMAIN thresholds'
         /\ ~ Better(h, [dist |-> thresholds'[Group(h)]])
<1>1. PICK g : g = Group(h) /\ g \in DOMAIN thresholds
  BY DEF Beaten
<1>2. thresholds[g] \in Int
  <2>1. g \in DOMAIN queues /\ \E i \in Tops(offered, queues[g]) : offered[i].dist = thresholds[g]
    BY <1>1, ThresholdOfTop
  <2>2. PICK i \in queues[g] : offered[i].dist = thresholds[g]
    BY <2>1 DEF Tops
  <2>3. i \in Added
    BY <2>1, <2>2, HeldAreBest DEF TInv, Held, BestOf, Offers
  <2> QED BY <2>2, <2>3 DEF TInv, IInv, Typed
<1>3. g \in DOMAIN thresholds' /\ ~ Better([dist |-> thresholds[g]], [dist |-> thresholds'[g]])
  BY <1>1 DEF Tightened
<1>4. thresholds'[g] \in Int
  <2>1. g \in DOMAIN queues' /\ params'.accumulation # "one_to_one"
    BY <1>3 DEF TInv, QueuesOnly
  <2>2. PICK i \in queues'[g] : offered'[i].dist = thresholds'[g]
    BY <1>3, <2>1 DEF TInv, ThresholdIsWorstKept
  <2>3. \A f \in DOMAIN queues' : queues'[f] \subseteq Added'
    BY DEF TInv, IInv, Typed, KeepsBest, Held, Offers
  <2> QED BY <2>1, <2>2, <2>3 DEF TInv, IInv, Typed
<1>5. PICK x \in Int, y \in Int : x = thresholds[g] /\ y = thresholds'[g]
  BY <1>2, <1>4
<1>6. ~ Better(h, [dist |-> x])
  BY <1>1, <1>5 DEF Beaten
<1>7. ~ Better([dist |-> x], [dist |-> y])
  BY <1>3, <1>5
<1>8. ~ Better(h, [dist |-> y])
  BY <1>6, <1>7 DEF Better
<1> QED BY <1>1, <1>3, <1>5, <1>8

(* A hit that is not added cannot be among the best: the queue it would go  *)
(* to is full of better.                                                    *)
LEMMA PassedOver ==
  ASSUME FiniteDoubles, Sound, ThreshKnown, pc = "windows", IsHit(track, j, k),
         ~ (/\ ~ Pruned(Point(track, j, k)) /\ PowersMatch(track, j, k)
            /\ (Radius # Infinity => Within(Point(track, j, k).dist, Radius)))
  PROVE  Beaten(HitAt(track, j, k))
<1>1. PICK p : p = HitAt(track, j, k)
  OBVIOUS
<1>2. /\ Point(track, j, k) = p /\ p.dist = LoopDistance(track, j, k)
      /\ PowersMatch(track, j, k) /\ Within(p.dist, Radius)
  BY <1>1, PointHere
<1>3. p.dist \in Int
  BY <1>1, <1>2, PointHere DEF Within
<1>4. Pruned(p)
  BY <1>2
<1>5. query.distance = "euclidean_normed" /\ thresh # Infinity /\ p.dist > thresh
  BY <1>4 DEF Pruned
<1>6. CASE thresh = Radius
  <2>1. Radius \in Int
    BY <1>5, <1>6, QueriesAssumption DEF Radius, Sound, SumInv, LoopInv
  <2>2. p.dist <= Radius
    BY <1>2, <1>5, <1>6 DEF Within
  <2> QED BY <1>3, <1>5, <1>6, <2>1, <2>2
<1>7. CASE params.accumulation # "one_to_one" /\ thresh = Threshold(Key(track))
  <2>1. params.distance = "euclidean_normed" /\ params.accumulation \in Accumulations
    BY <1>5, ParamsAssumption DEF Sound, ParamsOfQuery, TInv, IInv, Typed
  <2>2. p.ikey = Key(track)
    BY <1>1 DEF HitAt
  <2>3. Group(p) = IF params.accumulation = "db" THEN WholeDB ELSE Key(track)
    BY <1>7, <2>1, <2>2 DEF Group, GroupOf, Accumulations
  <2>4. Group(p) \in DOMAIN thresholds /\ thresh = thresholds[Group(p)]
    BY <1>5, <1>7, <2>3 DEF Threshold
  <2>5. thresholds[Group(p)] \in Int
    <3>1. PICK g \in DOMAIN thresholds : g = Group(p)
      BY <2>4
    <3>2. g \in DOMAIN queues /\ \E i \in Tops(offered, queues[g]) : offered[i].dist = thresholds[g]
      BY ThresholdOfTop DEF Sound
    <3>3. PICK i \in queues[g] : offered[i].dist = thresholds[g]
      BY <3>2 DEF Tops
    <3>4. i \in Added
      BY <3>2, <3>3, HeldAreBest DEF Sound, TInv, Held, BestOf, Offers
    <3> QED BY <3>1, <3>3, <3>4 DEF Sound, TInv, IInv, Typed
  <2>6. ~ Better(p, [dist |-> thresholds[Group(p)]])
    BY <1>3, <1>5, <2>1, <2>4, <2>5 DEF Better
  <2> QED BY <1>1, <2>4, <2>6 DEF Beaten
<1> QED BY <1>5, <1>6, <1>7 DEF ThreshKnown

(* The windows here are matched: a hit is added, or beaten.                 *)
LEMMA HitsMatched ==
  ASSUME FiniteDoubles, Sound, ThreshKnown, EarlierAdded, HitsAdded, Window,
         Firsts \in Nat, Firsts' = Firsts, TInv', Tightened
  PROVE  HitsAdded'
<1> DEFINE p == HitAt(track, j, k)
           n == Len(offered)
<1>1. /\ pc = "windows" /\ Running /\ Running'
      /\ UNCHANGED <<db, query, sofar, allowed, pointers>> /\ MatchWindows
  BY DEF Window, Running
<1>2. /\ Point(track, j, k) = p /\ p.dist \in Int \cup {NaN}
      /\ p.dist = LoopDistance(track, j, k)
      /\ IsHit(track, j, k) <=> PowersMatch(track, j, k) /\ Within(p.dist, Radius)
  BY <1>1, PointHere
<1>3. \A t, a, b : HitAt(t, a, b)' = HitAt(t, a, b) /\ (IsHit(t, a, b)' <=> IsHit(t, a, b))
  BY <1>1, SameHits
<1>4. \A t, a, b : IsHit(t, a, b) =>
        /\ Passed(t, a, b)' <=> Passed(t, a, b) \/ (t = track /\ a = j /\ b = k)
        /\ ~ (Passed(t, a, b) /\ t = track /\ a = j /\ b = k)
  BY WindowPasses DEF Sound, SumInv
<1>5. /\ \A x \in Added : x > Firsts =>
           \E t, a, b : IsHit(t, a, b) /\ Passed(t, a, b) /\ offered[x] = HitAt(t, a, b)
      /\ \A x, y \in Added : x > Firsts /\ y > Firsts /\ offered[x] = offered[y] => x = y
      /\ \A t, a, b : IsHit(t, a, b) /\ Passed(t, a, b) =>
           \/ \E x \in Added : x > Firsts /\ offered[x] = HitAt(t, a, b)
           \/ Beaten(HitAt(t, a, b))
  BY <1>1 DEF HitsAdded
<1>6. IsSequence(offered) /\ n \in Nat /\ Firsts <= n
  BY DEF Sound, TInv, IInv, Typed, EarlierAdded
<1>7. \/ /\ AddPoint(p) /\ ~ Pruned(p) /\ PowersMatch(track, j, k)
         /\ (Radius # Infinity => Within(p.dist, Radius))
      \/ /\ UNCHANGED accVars
         /\ ~ (/\ ~ Pruned(p) /\ PowersMatch(track, j, k)
               /\ (Radius # Infinity => Within(p.dist, Radius)))
  BY <1>1, <1>2 DEF MatchWindows
<1>8. /\ params' = params /\ \A i \in 1 .. n : offered'[i] = offered[i]
      /\ \/ offered' = offered
         \/ /\ p.dist # NaN /\ Len(offered') = n + 1 /\ offered'[n + 1] = p /\ IsHit(track, j, k)
      /\ IsHit(track, j, k) => (Len(offered') = n + 1 /\ offered'[n + 1] = p) \/ Beaten(p)
  <2>1. CASE /\ AddPoint(p) /\ ~ Pruned(p) /\ PowersMatch(track, j, k)
             /\ (Radius # Infinity => Within(p.dist, Radius))
    <3>1. /\ params' = params /\ \A i \in 1 .. n : offered'[i] = offered[i]
          /\ p.dist = NaN => offered' = offered
          /\ p.dist # NaN => Len(offered') = n + 1 /\ offered'[n + 1] = p
      BY <1>6, <2>1, OneAdded DEF filling
    <3>2. IsHit(track, j, k) <=> p.dist # NaN
      BY <1>2, <2>1 DEF Within
    <3> QED BY <3>1, <3>2
  <2>2. CASE /\ UNCHANGED accVars
             /\ ~ (/\ ~ Pruned(p) /\ PowersMatch(track, j, k)
                   /\ (Radius # Infinity => Within(p.dist, Radius)))
    <3>1. params' = params /\ offered' = offered
      BY <2>2 DEF accVars
    <3>2. IsHit(track, j, k) => Beaten(p)
      BY <1>1, <1>2, <2>2, PassedOver
    <3> QED BY <3>1, <3>2
  <2> QED BY <1>7, <2>1, <2>2
<1>9. \A t, a, b : IsHit(t, a, b) /\ Beaten(HitAt(t, a, b)) => Beaten(HitAt(t, a, b))'
  <2> SUFFICES ASSUME NEW t, NEW a, NEW b, IsHit(t, a, b), Beaten(HitAt(t, a, b))
               PROVE  Beaten(HitAt(t, a, b))'
    OBVIOUS
  <2>1. PICK h : h = HitAt(t, a, b) /\ HitAt(t, a, b)' = h
    BY <1>3
  <2>2. h.dist \in Int /\ Beaten(h)
    BY <1>1, <2>1, HitTyped
  <2>3. Group(h) \in DOMAIN thresholds' /\ ~ Better(h, [dist |-> thresholds'[Group(h)]])
    BY <1>8, <2>2, StaysBeaten DEF Sound
  <2>4. params' = params
    BY <1>8
  <2> QED BY ONLY <2>1, <2>3, <2>4 DEF Beaten, Group, Better
<1>10. \A x \in Added' : x \in Added \/ (x = n + 1 /\ Len(offered') = n + 1)
  BY <1>6, <1>8 DEF Added
<1>11. \A x \in Added : x \in Added' /\ x \in 1 .. n /\ offered'[x] = offered[x]
  BY <1>6, <1>8 DEF Added
<1>12. Len(offered') = n + 1 =>
         /\ n + 1 \in Added' /\ n + 1 > Firsts /\ n + 1 \notin Added
         /\ offered'[n + 1] = p /\ IsHit(track, j, k)
  <2>1. n + 1 # n
    BY <1>6
  <2> QED BY <1>6, <1>8, <2>1 DEF Added
<1> HIDE DEF p, n
<1>13. p = HitAt(track, j, k)
  BY DEF p
<1>14. \A x \in Added' : x > Firsts' =>
         \E t, a, b : IsHit(t, a, b)' /\ Passed(t, a, b)' /\ offered'[x] = HitAt(t, a, b)'
  <2> SUFFICES ASSUME NEW x \in Added', x > Firsts
               PROVE  \E t, a, b : IsHit(t, a, b)' /\ Passed(t, a, b)' /\ offered'[x] = HitAt(t, a, b)'
    OBVIOUS
  <2>1. CASE x \in Added
    <3>1. PICK t, a, b : IsHit(t, a, b) /\ Passed(t, a, b) /\ offered[x] = HitAt(t, a, b)
      BY <1>5, <2>1
    <3>2. IsHit(t, a, b)' /\ Passed(t, a, b)' /\ offered'[x] = HitAt(t, a, b)'
      BY <1>3, <1>4, <1>11, <2>1, <3>1
    <3> QED BY <3>2
  <2>2. CASE x = n + 1 /\ Len(offered') = n + 1
    <3>1. IsHit(track, j, k) /\ offered'[x] = HitAt(track, j, k)
      BY <1>12, <1>13, <2>2
    <3>2. PICK t, a, b : t = track /\ a = j /\ b = k
      OBVIOUS
    <3>3. IsHit(t, a, b) /\ offered'[x] = HitAt(t, a, b)
      BY <3>1, <3>2
    <3>4. IsHit(t, a, b)' /\ Passed(t, a, b)' /\ offered'[x] = HitAt(t, a, b)'
      BY ONLY <1>3, <1>4, <3>2, <3>3
    <3> QED BY <3>4
  <2> QED BY <1>10, <2>1, <2>2
<1>15. ASSUME NEW x \in Added, x > Firsts, IsHit(track, j, k)
       PROVE  offered[x] # p
  <2>1. PICK t, a, b : IsHit(t, a, b) /\ Passed(t, a, b) /\ offered[x] = HitAt(t, a, b)
    BY <1>5, <1>15
  <2>2. ASSUME offered[x] = p PROVE FALSE
    <3>1. HitAt(t, a, b) = HitAt(track, j, k)
      BY <1>13, <2>1, <2>2
    <3>2. t = track /\ a = j /\ b = k
      BY <1>1, <1>15, <2>1, <3>1, PlacesApart
    <3> QED BY <1>4, <2>1, <3>2
  <2> QED BY <2>2
<1>16. \A x, y \in Added' : x > Firsts' /\ y > Firsts' /\ offered'[x] = offered'[y] => x = y
  <2> SUFFICES ASSUME NEW x \in Added', NEW y \in Added', x > Firsts, y > Firsts, offered'[x] = offered'[y]
               PROVE  x = y
    OBVIOUS
  <2>1. CASE x \in Added /\ y \in Added
    BY <1>5, <1>11, <2>1
  <2>2. CASE x \in Added /\ y = n + 1 /\ Len(offered') = n + 1
    BY <1>11, <1>12, <1>15, <2>2
  <2>3. CASE y \in Added /\ x = n + 1 /\ Len(offered') = n + 1
    BY <1>11, <1>12, <1>15, <2>3
  <2> QED BY <1>10, <2>1, <2>2, <2>3
<1>17. \A t, a, b : IsHit(t, a, b)' /\ Passed(t, a, b)' =>
         \/ \E x \in Added' : x > Firsts' /\ offered'[x] = HitAt(t, a, b)'
         \/ Beaten(HitAt(t, a, b))'
  <2> SUFFICES ASSUME NEW t, NEW a, NEW b, IsHit(t, a, b)', Passed(t, a, b)'
               PROVE  \/ \E x \in Added' : x > Firsts /\ offered'[x] = HitAt(t, a, b)
                      \/ Beaten(HitAt(t, a, b))'
    BY <1>3
  <2>1. IsHit(t, a, b) /\ (Passed(t, a, b) \/ (t = track /\ a = j /\ b = k))
    BY <1>3, <1>4
  <2>2. Beaten(HitAt(t, a, b)) => Beaten(HitAt(t, a, b))'
    BY <1>9, <2>1
  <2>3. CASE Passed(t, a, b)
    <3>1. CASE Beaten(HitAt(t, a, b))
      BY <2>2, <3>1
    <3>2. CASE \E x \in Added : x > Firsts /\ offered[x] = HitAt(t, a, b)
      BY <1>11, <3>2
    <3> QED BY <1>5, <2>1, <2>3, <3>1, <3>2
  <2>4. CASE t = track /\ a = j /\ b = k
    <3>1. IsHit(track, j, k) /\ HitAt(t, a, b) = p
      BY <1>13, <2>1, <2>4
    <3>2. CASE Len(offered') = n + 1 /\ offered'[n + 1] = p
      BY <1>12, <3>1, <3>2
    <3>3. CASE Beaten(p)
      BY <2>2, <3>1, <3>3
    <3> QED BY <1>8, <3>1, <3>2, <3>3
  <2> QED BY <2>1, <2>3, <2>4
<1> QED BY ONLY <1>14, <1>16, <1>17 DEF HitsAdded

(* The inductive invariant of the answer.                                   *)
BestInv == Sound /\ RInv /\ ThreshKnown /\ EarlierAdded /\ HitsAdded /\ ResultsGot

(* The tables and the query stay as they are, and the correlations with them. *)
LEMMA SameQuery ==
  ASSUME UNCHANGED <<db, query>>
  PROVE  /\ Refused' <=> Refused
         /\ (UsesPower' <=> UsesPower) /\ Radius' = Radius
         /\ Correlations(track, buffer)' = Correlations(track', buffer')
         /\ \A t : Key(t)' = Key(t)
         /\ \A i, hop : OnHop(i, hop)' <=> OnHop(i, hop)
<1>1. db' = db /\ query' = query
  OBVIOUS
<1>2. QueryDatum' = QueryDatum /\ QueryFirst' = QueryFirst /\ QueryCount' = QueryCount
  BY <1>1 DEF QueryDatum, QueryTrack, FirstVector, TrackOffset, TrackLength, Key, NumFiles, QueryFirst, QueryCount, Exhaustive
<1>3. (UsesPower' <=> UsesPower) /\ Radius' = Radius /\ \A t : Key(t)' = Key(t)
  BY <1>1 DEF UsesPower, Radius, Key
<1>4. \A i, hop : OnHop(i, hop)' <=> OnHop(i, hop)
  BY <1>1 DEF OnHop, Hop
<1>5. Refused' <=> Refused
  BY <1>1, <1>2, <1>3, SameTables DEF Refused, MissingTables
<1>6. Correlations(track, buffer)' = Correlations(track', buffer')
  BY ONLY <1>1, <1>2 DEF Correlations, TrackLength, SumOf, Cell, Divergence, DotProduct, VectorAt, OnHop, Hop
<1> QED BY <1>3, <1>4, <1>5, <1>6

LEMMA AccumulatorSteps ==
  ASSUME FiniteDoubles, BestInv, [Next]_vars
  PROVE  AccumulatorStep
<1>1. CASE AddSoFar
  <2>1. /\ pc = "sofar" /\ sofar < Len(query.sofar) /\ AddPoint(query.sofar[sofar + 1])
        /\ query \in Queries /\ sofar \in Nat /\ results = NoResults /\ ranked = {}
    BY <1>1 DEF AddSoFar, BestInv, Sound, SumInv, LoopInv, ResultsGot
  <2>2. PICK l \in Nat : l = Len(query.sofar) /\ DOMAIN query.sofar = 1 .. l
    BY <2>1, QueryTypes
  <2>3. sofar + 1 \in 1 .. l
    BY <2>1, <2>2
  <2>4. query.sofar[sofar + 1].dist \in Int \cup {NaN}
    BY <2>1, <2>2, <2>3, QueriesAssumption
  <2> QED BY <2>1, <2>4 DEF AccumulatorStep, Adds
<1>2. CASE Window
  <2>1. pc = "windows" /\ MatchWindows /\ results = NoResults /\ ranked = {}
    BY <1>2 DEF Window, BestInv, ResultsGot
  <2>2. Point(track, j, k).dist \in Int \cup {NaN}
    BY <2>1, PointHere DEF BestInv
  <2>3. AddPoint(Point(track, j, k)) \/ UNCHANGED accVars
    BY <2>1 DEF MatchWindows
  <2> QED BY <2>1, <2>2, <2>3 DEF AccumulatorStep, Adds
<1>3. CASE Collect
  BY <1>3 DEF Collect, AccumulatorStep
<1>4. CASE AllowKeys \/ SetUp \/ Refuse \/ NextTrack \/ LastTrack \/ UNCHANGED vars
  BY <1>4 DEF AllowKeys, SetUp, Refuse, NextTrack, LastTrack, vars, AccumulatorStep
<1> QED BY <1>1, <1>2, <1>3, <1>4 DEF Next

LEMMA ReadyStep ==
  ASSUME FiniteDoubles, BestInv, [Next]_vars
  PROVE  Ready' /\ ParamsOfQuery'
<1>1. db' = db /\ query' = query /\ db \in Databases /\ query \in Queries
  BY DEF Next, AllowKeys, AddSoFar, SetUp, Refuse, NextTrack, LastTrack, Window, Collect, vars,
         BestInv, Sound, SumInv, LoopInv
<1>2. params' = params
  <2>1. AccumulatorStep
    BY AccumulatorSteps
  <2> QED BY <2>1 DEF AccumulatorStep, Adds, AddPoint, RankTrack, GetPoints, accVars
<1>3. ParamsOfQuery'
  BY <1>1, <1>2 DEF BestInv, Sound, ParamsOfQuery
<1>4. CASE SetUp
  <2>1. ~ Refused /\ qpointers' = QueryPointers
    BY <1>4 DEF SetUp
  <2>2. UsesPower => QueryPointers.power # <<>>
    BY <1>1, <2>1, PowersThere DEF Refused, MissingTables
  <2> QED BY <1>1, <1>3, <2>1, <2>2, SameQuery DEF Ready
<1>5. CASE ~ SetUp
  <2>1. (Running' => Running) /\ qpointers' = qpointers
    BY <1>5 DEF Next, AllowKeys, AddSoFar, Refuse, NextTrack, LastTrack, Window, Collect, vars, pointers, Running
  <2>2. Ready'
    BY <1>1, <2>1, SameQuery DEF Ready, BestInv, Sound
  <2> QED BY <1>3, <2>2
<1> QED BY <1>4, <1>5

LEMMA MatchingStep ==
  ASSUME BestInv, [Next]_vars
  PROVE  Matching'
<1> SUFFICES ASSUME pc' = "windows"
             PROVE  Matching'
  BY DEF Matching
<1>1. /\ db' = db /\ query' = query /\ qpointers' = qpointers /\ dbpointers' = dbpointers
      /\ query \in Queries /\ j \in Nat /\ k \in Nat
  BY DEF Next, AllowKeys, AddSoFar, SetUp, Refuse, NextTrack, LastTrack, Window, Collect, vars, pointers,
         BestInv, Sound, SumInv, LoopInv
<1>2. QueryDatum' = QueryDatum
  BY <1>1 DEF QueryDatum, QueryTrack, FirstVector, TrackOffset, TrackLength, Key, NumFiles
<1>3. CASE NextTrack
  <2>1. PICK t : t = Min(Unvisited)
    OBVIOUS
  <2>2. /\ track' = t /\ DurationMatches(t) /\ j' = 0 /\ k' = 0
        /\ dd' = Correlations(t, buffer')
    BY <1>3, <2>1 DEF NextTrack
  <2>3. OnHop(0, query.qhop) /\ OnHop(0, query.ihop)
    <3>1. 0 = 0 * 0 /\ 0 \in 0 .. 0
      OBVIOUS
    <3>2. PICK a \in Nat, b \in Nat : a = Hop(query.qhop) /\ b = Hop(query.ihop)
      BY <1>1, QueryTypes
    <3>3. 0 = 0 * a /\ 0 = 0 * b
      OBVIOUS
    <3> QED BY <3>1, <3>2, <3>3 DEF OnHop
  <2>4. DurationMatches(track)'
    BY <1>1, <1>2, <2>2 DEF DurationMatches, MeansMatch, TrackLength
  <2>5. OnHop(j, query.qhop)' /\ OnHop(k, query.ihop)'
    BY <1>1, <2>2, <2>3 DEF OnHop, Hop
  <2>6. dd' = Correlations(track, buffer)'
    BY <1>1, <2>2, SameQuery
  <2> QED BY <2>4, <2>5, <2>6 DEF Matching
<1>4. CASE Window
  <2>1. /\ pc = "windows" /\ track' = track /\ buffer' = buffer /\ dd' = dd
        /\ j' \in {j, j + Hop(query.qhop)} /\ k' \in {0, k + Hop(query.ihop)}
    BY <1>4 DEF Window
  <2>2. /\ DurationMatches(track) /\ dd = Correlations(track, buffer)
        /\ OnHop(j, query.qhop) /\ OnHop(k, query.ihop)
    BY <2>1 DEF BestInv, Sound, Matching
  <2>3. /\ OnHop(j + Hop(query.qhop), query.qhop) /\ OnHop(k + Hop(query.ihop), query.ihop)
        /\ OnHop(0, query.ihop)
    BY <1>1, <2>2, HopsApart
  <2>4. DurationMatches(track)'
    BY <1>1, <1>2, <2>1, <2>2 DEF DurationMatches, MeansMatch, TrackLength
  <2>5. OnHop(j', query.qhop) /\ OnHop(k', query.ihop)
    BY <2>1, <2>2, <2>3
  <2>6. OnHop(j, query.qhop)' /\ OnHop(k, query.ihop)'
    BY <1>1, <2>5 DEF OnHop, Hop
  <2>7. dd' = Correlations(track, buffer)'
    BY <1>1, <2>1, <2>2, SameQuery
  <2> QED BY <2>4, <2>6, <2>7 DEF Matching
<1>5. CASE UNCHANGED vars
  <2>1. pc' = pc /\ track' = track /\ buffer' = buffer /\ dd' = dd /\ j' = j /\ k' = k
    BY <1>5 DEF vars, loops
  <2>2. /\ DurationMatches(track) /\ dd = Correlations(track, buffer)
        /\ OnHop(j, query.qhop) /\ OnHop(k, query.ihop)
    BY <2>1 DEF BestInv, Sound, Matching
  <2>3. DurationMatches(track)'
    BY <1>1, <1>2, <2>1, <2>2 DEF DurationMatches, MeansMatch, TrackLength
  <2>4. OnHop(j, query.qhop)' /\ OnHop(k, query.ihop)'
    BY <1>1, <2>1, <2>2 DEF OnHop, Hop
  <2>5. dd' = Correlations(track, buffer)'
    BY <1>1, <2>1, <2>2, SameQuery
  <2> QED BY <2>3, <2>4, <2>5 DEF Matching
<1>6. CASE AllowKeys \/ AddSoFar \/ SetUp \/ Refuse \/ LastTrack \/ Collect
  BY <1>6 DEF AllowKeys, AddSoFar, SetUp, Refuse, LastTrack, Collect
<1> QED BY <1>3, <1>4, <1>5, <1>6 DEF Next

(* What add_point tells the loop is the new threshold of the point's queue. *)
LEMMA WindowThreshold ==
  ASSUME FiniteDoubles, BestInv, Window, TInv', pc' = "windows", thresh' # Infinity
  PROVE  \/ thresh' = Radius
         \/ params'.accumulation # "one_to_one" /\ thresh' = Threshold(Key(track))'
<1> DEFINE p == HitAt(track, j, k)
<1>1. pc = "windows" /\ MatchWindows /\ track' = track /\ db' = db
  BY DEF Window
<1>2. Point(track, j, k) = p /\ p.ikey = Key(track)
  BY <1>1, PointHere DEF BestInv, HitAt
<1>3. thresh # Infinity => thresh = Radius \/ (params.accumulation # "one_to_one" /\ thresh = Threshold(Key(track)))
  BY <1>1 DEF BestInv, ThreshKnown
<1>4. Key(track)' = Key(track)
  BY <1>1 DEF Key
<1>5. ASSUME params' = params, thresholds' = thresholds, thresh' = thresh
      PROVE  \/ thresh' = Radius
             \/ params'.accumulation # "one_to_one" /\ thresh' = Threshold(Key(track))'
  BY <1>3, <1>4, <1>5 DEF Threshold
<1>6. CASE UNCHANGED <<accVars, thresh>>
  BY <1>5, <1>6 DEF accVars
<1>7. CASE AddPoint(p) /\ thresh' = Sharpened(thresh, p)
  <2>1. params' = params
    BY <1>7 DEF AddPoint
  <2>2. CASE p.dist = NaN
    <3>1. thresholds' = thresholds /\ thresh' = thresh
      BY <1>7, <2>2 DEF AddPoint, filling, Sharpened
    <3> QED BY <1>5, <2>1, <3>1
  <2>3. CASE p.dist # NaN /\ params.accumulation = "one_to_one"
    <3>1. thresholds' = thresholds /\ thresh' = thresh
      BY <1>7, <2>3 DEF AddPoint, AddNearest, Sharpened
    <3> QED BY <1>5, <2>1, <3>1
  <2>4. CASE p.dist # NaN /\ params.accumulation # "one_to_one"
    <3>1. AddToQueue(p)
      BY <1>7, <2>4 DEF AddPoint
    <3>2. PICK g : g = Group(p)
      OBVIOUS
    <3>3. g \in DOMAIN queues' /\ (Cardinality(queues'[g]) # params.npoints => thresholds' = thresholds)
      BY <3>1, <3>2 DEF AddToQueue, Put
    <3>4. CASE Cardinality(queues'[g]) # params.npoints
      <4>1. thresh' = thresh
        BY <1>7, <3>2, <3>4 DEF Sharpened
      <4> QED BY <1>5, <2>1, <3>3, <3>4, <4>1
    <3>5. CASE Cardinality(queues'[g]) = params.npoints
      <4>1. thresh' = thresholds'[g]
        BY <1>7, <2>4, <3>2, <3>5 DEF Sharpened
      <4>2. params.npoints \in Nat /\ params.accumulation \in Accumulations
        BY ParamsAssumption DEF BestInv, Sound, TInv, IInv, Typed
      <4>3. g \in DOMAIN thresholds'
        <5>1. \A h \in DOMAIN queues' :
                ~ Cardinality(queues'[h]) < params'.npoints => h \in DOMAIN thresholds'
          BY <2>1, <2>4 DEF TInv, ThresholdIsWorstKept
        <5>2. ~ params.npoints < params.npoints
          BY <4>2
        <5> QED BY <2>1, <3>3, <3>5, <5>1, <5>2
      <4>4. g = IF params.accumulation = "db" THEN WholeDB ELSE Key(track)
        BY <1>2, <2>4, <3>2, <4>2 DEF Group, GroupOf, Accumulations
      <4>5. Threshold(Key(track))' = thresholds'[g]
        BY <1>4, <2>1, <4>3, <4>4 DEF Threshold
      <4> QED BY <2>1, <2>4, <4>1, <4>5
    <3> QED BY <3>4, <3>5
  <2> QED BY <2>2, <2>3, <2>4
<1> QED BY <1>1, <1>2, <1>6, <1>7 DEF MatchWindows

LEMMA ThreshStep ==
  ASSUME FiniteDoubles, BestInv, [Next]_vars, TInv'
  PROVE  ThreshKnown'
<1> SUFFICES ASSUME pc' = "windows", thresh' # Infinity
             PROVE  ThreshKnown'
  BY DEF ThreshKnown
<1>1. db' = db /\ query' = query /\ Radius' = Radius
  <2>1. db' = db /\ query' = query
    BY DEF Next, AllowKeys, AddSoFar, SetUp, Refuse, NextTrack, LastTrack, Window, Collect, vars
  <2> QED BY <2>1, SameQuery
<1>2. CASE Window
  BY <1>1, <1>2, WindowThreshold DEF ThreshKnown
<1>3. CASE NextTrack
  <2>1. PICK t : t = Min(Unvisited)
    OBVIOUS
  <2>2. track' = t /\ thresh' = Smaller(Threshold(Key(t)), Radius) /\ params' = params /\ thresholds' = thresholds
    BY <1>3, <2>1 DEF NextTrack, StartThreshold, accVars
  <2>3. Threshold(Key(track))' = Threshold(Key(t))
    BY <1>1, <2>2 DEF Threshold, Key
  <2>4. thresh' = Radius \/ (thresh' = Threshold(Key(t)) /\ Threshold(Key(t)) # Infinity)
    BY <2>2 DEF Smaller
  <2>5. Threshold(Key(t)) # Infinity => params.accumulation # "one_to_one"
    BY DEF Threshold, BestInv, Sound, TInv, QueuesOnly
  <2> QED BY <1>1, <2>2, <2>3, <2>4, <2>5 DEF ThreshKnown
<1>4. CASE UNCHANGED vars
  <2>1. pc' = pc /\ thresh' = thresh /\ track' = track /\ params' = params /\ thresholds' = thresholds
    BY <1>4 DEF vars, loops, accVars
  <2> QED BY <1>1, <2>1 DEF ThreshKnown, Threshold, Key, BestInv
<1>5. CASE AllowKeys \/ AddSoFar \/ SetUp \/ Refuse \/ LastTrack \/ Collect
  BY <1>5 DEF AllowKeys, AddSoFar, SetUp, Refuse, LastTrack, Collect
<1> QED BY <1>2, <1>3, <1>4, <1>5 DEF Next

LEMMA ResultsStep ==
  ASSUME BestInv, [Next]_vars
  PROVE  ResultsGot'
<1>1. /\ pc \notin {"points", "done"} => ranked = {}
      /\ pc # "done" => results = NoResults
      /\ pc = "done" /\ params.accumulation # "per_track" =>
           results = UNION {queues[g] : g \in DOMAIN queues}
  BY DEF BestInv, ResultsGot
<1>2. CASE AddSoFar
  BY <1>1, <1>2 DEF AddSoFar, AddPoint, emptying, ResultsGot
<1>3. CASE Window
  <2>1. ranked' = ranked /\ results' = results
    BY <1>3 DEF Window, MatchWindows, AddPoint, emptying, accVars
  <2>2. pc = "windows" /\ pc' \in {"windows", "tracks"}
    BY <1>3 DEF Window
  <2> QED BY <1>1, <2>1, <2>2 DEF ResultsGot
<1>4. CASE Collect
  <2>1. CASE RankTrack /\ UNCHANGED pc
    BY <1>1, <1>4, <2>1 DEF Collect, RankTrack, ResultsGot
  <2>2. CASE GetPoints /\ pc' = "done"
    <3>1. params' = params /\ queues' = queues
      BY <2>2 DEF GetPoints, filling
    <3>2. params.accumulation # "per_track" => results' = UNION {queues[g] : g \in DOMAIN queues}
      BY <2>2 DEF GetPoints
    <3> QED BY <2>2, <3>1, <3>2 DEF ResultsGot
  <2> QED BY <1>4, <2>1, <2>2 DEF Collect
<1>5. CASE AllowKeys \/ SetUp \/ Refuse \/ NextTrack \/ LastTrack
  <2>1. ranked' = ranked /\ results' = results
    BY <1>5 DEF AllowKeys, SetUp, Refuse, NextTrack, LastTrack, accVars
  <2>2. pc \notin {"points", "done"} /\ pc' # "done"
    BY <1>5 DEF AllowKeys, SetUp, Refuse, NextTrack, LastTrack
  <2> QED BY <1>1, <2>1, <2>2 DEF ResultsGot
<1>6. CASE UNCHANGED vars
  BY <1>1, <1>6 DEF vars, accVars, ResultsGot
<1> QED BY <1>2, <1>3, <1>4, <1>5, <1>6 DEF Next

LEMMA EarlierStep ==
  ASSUME FiniteDoubles, BestInv, [Next]_vars
  PROVE  EarlierAdded' /\ (Running => Firsts' = Firsts /\ Firsts \in Nat)
<1>1. /\ query' = query /\ query \in Queries /\ sofar \in Nat /\ EarlierAdded
      /\ Typed /\ IsSequence(offered) /\ Len(offered) \in Nat
  BY DEF Next, AllowKeys, AddSoFar, SetUp, Refuse, NextTrack, LastTrack, Window, Collect, vars,
         BestInv, Sound, SumInv, LoopInv, TInv, IInv, Typed
<1>2. CASE AddSoFar
  <2>1. ~ Running
    BY <1>2 DEF AddSoFar, Running
  <2> QED BY <1>1, <1>2, <2>1, EarlierAddedMore
<1>3. CASE ~ AddSoFar
  <2>1. /\ sofar' = sofar
        /\ pc' \in {"start", "sofar"} => pc \in {"start", "sofar"} /\ offered' = offered
        /\ Running' => Running \/ sofar = Len(query.sofar)
    BY <1>3 DEF Next, AllowKeys, SetUp, Refuse, NextTrack, LastTrack, Window, Collect, vars, accVars, Running
  <2>2. /\ params' = params /\ Len(offered') \in Nat /\ Len(offered) <= Len(offered')
        /\ \A i \in 1 .. Len(offered) : offered'[i] = offered[i]
    <3>1. CASE offered' = offered /\ params' = params
      BY <1>1, <3>1
    <3>2. ASSUME NEW p, AddPoint(p)
          PROVE  /\ params' = params /\ Len(offered') \in Nat /\ Len(offered) <= Len(offered')
                 /\ \A i \in 1 .. Len(offered) : offered'[i] = offered[i]
      <4>1. \/ offered' = offered
            \/ Len(offered') = Len(offered) + 1
        BY <1>1, <3>2, OneAdded DEF filling
      <4> QED BY <1>1, <3>2, <4>1, OneAdded
    <3>3. AccumulatorStep
      BY AccumulatorSteps
    <3> QED BY <3>1, <3>2, <3>3 DEF AccumulatorStep, Adds, RankTrack, GetPoints, accVars, filling
  <2>3. EarlierAdded' /\ Firsts' = Firsts
    BY <1>1, <2>1, <2>2, EarlierAddedKept
  <2>4. Firsts \in Nat
    <3>1. IsFiniteSet(Earlier) /\ EarlierTo(sofar) \subseteq Earlier
      BY <1>1, EarlierFinite DEF EarlierTo
    <3> QED BY <3>1, FS_Subset, FS_CardinalityType DEF Firsts
  <2> QED BY <2>3, <2>4
<1> QED BY <1>2, <1>3

LEMMA HitsStep ==
  ASSUME FiniteDoubles, BestInv, [Next]_vars, TInv', Tightened
  PROVE  HitsAdded'
<1>1. Running => Firsts' = Firsts /\ Firsts \in Nat
  BY EarlierStep
<1>2. CASE SetUp
  BY <1>2, HitsInitially DEF BestInv, Sound, TInv, IInv, Typed
<1>3. CASE Window
  BY <1>1, <1>3, HitsMatched DEF BestInv, Window, Running
<1>4. CASE NextTrack
  <2>1. Running /\ UNCHANGED <<db, query, sofar, allowed, pointers, params, offered, thresholds>>
    BY <1>4 DEF NextTrack, Running, accVars
  <2>2. \A t, a, b : IsHit(t, a, b) => (Passed(t, a, b)' <=> Passed(t, a, b))
    BY <1>4, NextTrackPasses DEF BestInv, Sound, SumInv
  <2> QED BY <2>1, <2>2, HitsKept DEF BestInv
<1>5. CASE LastTrack
  <2>1. Running /\ UNCHANGED <<db, query, sofar, allowed, pointers, params, offered, thresholds>>
    BY <1>5 DEF LastTrack, Running, accVars
  <2>2. \A t, a, b : IsHit(t, a, b) => (Passed(t, a, b)' <=> Passed(t, a, b))
    BY <1>5, LastTrackPasses DEF BestInv, Sound, SumInv
  <2> QED BY <2>1, <2>2, HitsKept DEF BestInv
<1>6. CASE Collect
  <2>1. /\ Running /\ UNCHANGED <<db, query, sofar, allowed, pointers, params, offered, thresholds>>
        /\ pc = "points" /\ pc' \in {"points", "done"}
    BY <1>6 DEF Collect, Running, RankTrack, GetPoints, filling
  <2>2. \A t, a, b : Passed(t, a, b)' <=> Passed(t, a, b)
    BY <2>1 DEF Passed
  <2> QED BY <2>1, <2>2, HitsKept DEF BestInv
<1>7. CASE UNCHANGED vars
  <2>1. /\ UNCHANGED <<db, query, sofar, allowed, pointers, params, offered, thresholds>>
        /\ pc' = pc /\ track' = track /\ j' = j /\ k' = k
    BY <1>7 DEF vars, accVars, loops
  <2>2. \A t, a, b : Passed(t, a, b)' <=> Passed(t, a, b)
    BY <2>1 DEF Passed
  <2>3. CASE Running
    BY <2>1, <2>2, <2>3, HitsKept DEF BestInv
  <2>4. CASE ~ Running
    BY <2>1, <2>4 DEF HitsAdded, Running
  <2> QED BY <2>3, <2>4
<1>8. CASE AllowKeys \/ AddSoFar \/ Refuse
  BY <1>8 DEF AllowKeys, AddSoFar, Refuse, HitsAdded, Running
<1> QED BY <1>2, <1>3, <1>4, <1>5, <1>6, <1>7, <1>8 DEF Next

LEMMA BestStep ==
  ASSUME FiniteDoubles, BestInv, [Next]_vars
  PROVE  BestInv'
<1>1. AccumulatorStep
  BY AccumulatorSteps
<1>2. TInv' /\ Tightened
  BY <1>1, ThresholdStep DEF BestInv, Sound
<1>3. RInv'
  BY <1>1, RankingStep DEF BestInv
<1>4. SumInv'
  <2>1. LoopInv'
    BY LoopStep DEF BestInv, Sound, SumInv
  <2> QED BY <2>1, SumStep DEF BestInv, Sound
<1>5. Ready' /\ ParamsOfQuery'
  BY ReadyStep
<1>6. Matching'
  BY MatchingStep
<1>7. ThreshKnown'
  BY <1>2, ThreshStep
<1>8. EarlierAdded'
  BY EarlierStep
<1>9. HitsAdded'
  BY <1>2, HitsStep
<1>10. ResultsGot'
  BY ResultsStep
<1> QED BY <1>2, <1>3, <1>4, <1>5, <1>6, <1>7, <1>8, <1>9, <1>10 DEF BestInv, Sound

LEMMA BestInitially == Init => BestInv
<1> SUFFICES ASSUME Init PROVE BestInv
  OBVIOUS
<1>1. /\ pc = "start" /\ sofar = 0 /\ offered = <<>> /\ query \in Queries /\ ranked = {} /\ results = NoResults
      /\ AccInit
  BY DEF Init, AccInit
<1>2. TInv /\ RInv
  BY <1>1, ThresholdsInitially, RankingInitially
<1>3. SumInv
  BY <1>1, LoopInitially DEF SumInv
<1>4. Ready /\ Matching /\ ThreshKnown /\ HitsAdded /\ ResultsGot
  BY <1>1 DEF Ready, Matching, ThreshKnown, HitsAdded, ResultsGot, Running
<1>5. ParamsOfQuery
  BY DEF Init, ParamsOfQuery
<1>6. EarlierAdded
  <2>1. EarlierTo(0) = {}
    BY <1>1, QueryTypes DEF EarlierTo, Earlier
  <2>2. Firsts = 0 /\ Len(offered) = 0
    BY <1>1, EarlierFinite DEF Firsts
  <2>3. \A g : {i \in 1 .. Firsts : Group(offered[i]) = g} = {} /\ {n \in EarlierTo(sofar) : Group(query.sofar[n]) = g} = {}
    BY <1>1, <2>1, <2>2
  <2>4. sofar <= Len(query.sofar)
    BY <1>1, QueryTypes
  <2> QED BY <1>1, <2>1, <2>2, <2>3, <2>4 DEF EarlierAdded, Running
<1> QED BY <1>2, <1>3, <1>4, <1>5, <1>6 DEF BestInv, Sound

(* There are finitely many hits: as many as places, and these lie in the    *)
(* tables.                                                                  *)
LEMMA HitsFinite ==
  ASSUME Sound, Running
  PROVE  IsFiniteSet(LoopHits)
<1>1. db \in Databases /\ query \in Queries /\ ~ QueryUnknown /\ ~ QueryTooLong
  BY DEF Sound, SumInv, LoopInv, Ready, Refused
<1>2. PICK N \in Nat, m \in Nat, l \in Nat : N = NumFiles /\ m = QueryCount /\ l = VectorStart[NumFiles]
  BY <1>1, QueryPlace, WholeTables, Tables
<1> DEFINE Box == (0 .. N - 1) \X ((0 .. m) \X (0 .. l))
           Places == {p \in Box : IsHit(p[1], p[2][1], p[2][2])}
           f == [p \in Places |-> HitAt(p[1], p[2][1], p[2][2])]
<1>3. IsFiniteSet(Box)
  <2>1. IsFiniteSet(0 .. N - 1) /\ IsFiniteSet(0 .. m) /\ IsFiniteSet(0 .. l)
    BY FS_Interval
  <2>2. IsFiniteSet((0 .. m) \X (0 .. l))
    BY <2>1, FS_Product
  <2> QED BY <2>1, <2>2, FS_Product
<1>4. IsFiniteSet(Places)
  BY <1>3, FS_Subset
<1>5. ASSUME NEW t, NEW a, NEW b, IsHit(t, a, b)
      PROVE  <<t, <<a, b>>>> \in Places
  <2>1. t \in 0 .. N - 1
    BY <1>2, <1>5 DEF IsHit
  <2>2. a \in 0 .. m /\ b \in 0 .. TrackLength(t)
    BY <1>2, <1>5 DEF IsHit, Starting
  <2>3. PICK n \in Nat, v \in Nat : n = TrackLength(t) /\ v = FirstVector(t) /\ v + n <= l
    BY <1>1, <1>2, <2>1, TrackPlace
  <2>4. b \in 0 .. l
    BY <2>2, <2>3
  <2> QED BY <1>5, <2>1, <2>2, <2>4
<1>6. f \in Surjection(Places, LoopHits)
  <2>1. \A p \in Places : f[p] \in LoopHits
    BY HitsAre
  <2>2. \A h \in LoopHits : \E p \in Places : f[p] = h
    <3> SUFFICES ASSUME NEW h \in LoopHits PROVE \E p \in Places : f[p] = h
      OBVIOUS
    <3>1. PICK t, a, b : IsHit(t, a, b) /\ h = HitAt(t, a, b)
      BY HitsAre
    <3>2. <<t, <<a, b>>>> \in Places /\ f[<<t, <<a, b>>>>] = h
      BY <1>5, <3>1
    <3> QED BY <3>2
  <2> HIDE DEF f, Places
  <2>3. f \in [Places -> LoopHits]
    <3>1. f = [p \in Places |-> HitAt(p[1], p[2][1], p[2][2])]
      BY DEF f
    <3> QED BY <2>1, <3>1
  <2> QED BY <2>2, <2>3 DEF Surjection
<1> HIDE DEF f, Places
<1> QED BY <1>4, <1>6, FS_Surjection

(* A group's hits, its results so far, and what was added of its hits.      *)
HitsOf(g)    == {h \in LoopHits : Group(h) = g}
EarlierOf(g) == {n \in Earlier : Group(query.sofar[n]) = g}
LaterOf(g)   == {i \in Added : i > Firsts /\ Group(offered[i]) = g}

(* When the results so far are added they are all known.                    *)
LEMMA EarlierAll ==
  ASSUME BestInv, Running
  PROVE  /\ EarlierTo(sofar) = Earlier /\ Len(offered) \in Nat /\ Firsts \in Nat /\ Firsts <= Len(offered)
         /\ IsFiniteSet(Earlier)
<1>1. query \in Queries /\ sofar = Len(query.sofar) /\ Firsts <= Len(offered) /\ Len(offered) \in Nat
  BY DEF BestInv, Sound, SumInv, LoopInv, EarlierAdded, TInv, IInv, Typed
<1>2. EarlierTo(sofar) = Earlier /\ IsFiniteSet(Earlier) /\ Cardinality(Earlier) \in Nat
  BY <1>1, EarlierFinite
<1> QED BY <1>1, <1>2 DEF Firsts

(* No point is added but hits and results so far.                           *)
LEMMA AddedKnown ==
  ASSUME BestInv, Running, NEW i \in Added
  PROVE  offered[i] \in LoopHits \cup {query.sofar[n] : n \in Earlier}
<1>1. PICK f \in Nat, l \in Nat : f = Firsts /\ l = Len(offered)
  BY EarlierAll
<1>2. i \in 1 .. l
  BY <1>1 DEF Added
<1>3. CASE i <= f
  <2>1. i \in 1 .. Firsts
    BY <1>1, <1>2, <1>3
  <2>2. \E n \in EarlierTo(sofar) : offered[i] = query.sofar[n]
    BY <2>1 DEF BestInv, EarlierAdded
  <2> QED BY <2>2, EarlierAll
<1>4. CASE i > f
  <2>1. \E t, a, b : IsHit(t, a, b) /\ Passed(t, a, b) /\ offered[i] = HitAt(t, a, b)
    BY <1>1, <1>4 DEF BestInv, HitsAdded
  <2> QED BY <2>1, HitsAre
<1> QED BY <1>2, <1>3, <1>4

(* The points added to a group are its results so far and some of its hits, *)
(* each once.                                                               *)
LEMMA OffersCounted ==
  ASSUME BestInv, Running, NEW g
  PROVE  /\ Cardinality(Offers(g)) = Cardinality(EarlierOf(g)) + Cardinality(LaterOf(g))
         /\ Cardinality(EarlierOf(g)) \in Nat /\ Cardinality(LaterOf(g)) \in Nat
         /\ Cardinality(HitsOf(g)) \in Nat /\ Cardinality(LaterOf(g)) <= Cardinality(HitsOf(g))
         /\ (\A h \in HitsOf(g) : \E i \in LaterOf(g) : offered[i] = h)
              => Cardinality(LaterOf(g)) = Cardinality(HitsOf(g))
<1>1. PICK f \in Nat, l \in Nat : f = Firsts /\ l = Len(offered) /\ f <= l
  BY EarlierAll
<1> DEFINE first == {i \in 1 .. Firsts : Group(offered[i]) = g}
           rest  == LaterOf(g)
<1>2. IsFiniteSet(Offers(g)) /\ IsFiniteSet(Added)
  BY OffersFinite DEF BestInv, Sound, TInv, IInv
<1>3. /\ Offers(g) = first \cup rest /\ first \cap rest = {}
      /\ IsFiniteSet(first) /\ IsFiniteSet(rest)
  <2>1. \A i \in 1 .. l : i <= f \/ i > f
    BY <1>1
  <2>2. \A i \in 1 .. f : i \in 1 .. l /\ ~ (i > f)
    BY <1>1
  <2>3. /\ Offers(g) = first \cup rest /\ first \cap rest = {}
        /\ first \subseteq Offers(g) /\ rest \subseteq Offers(g)
    BY <1>1, <2>1, <2>2 DEF Offers, Added, LaterOf
  <2> HIDE DEF first, rest
  <2> QED BY <1>2, <2>3, FS_Subset
<1>4. Cardinality(first) = Cardinality(EarlierOf(g))
  <2>1. EarlierOf(g) = {n \in EarlierTo(sofar) : Group(query.sofar[n]) = g}
    BY EarlierAll DEF EarlierOf
  <2> QED BY <2>1 DEF BestInv, EarlierAdded
<1>5. Cardinality(first) \in Nat /\ Cardinality(rest) \in Nat
  <2> HIDE DEF first, rest
  <2> QED BY <1>3, FS_CardinalityType
<1>6. Cardinality(Offers(g)) = Cardinality(first) + Cardinality(rest)
  <2> HIDE DEF first, rest
  <2>1. Cardinality(first \cup rest) = Cardinality(first) + Cardinality(rest) - Cardinality({})
    BY <1>3, FS_Union
  <2>2. Cardinality({}) = 0
    BY FS_EmptySet
  <2> QED BY <1>3, <1>5, <2>1, <2>2
<1> DEFINE into == [i \in rest |-> offered[i]]
<1>7. IsFiniteSet(HitsOf(g)) /\ Cardinality(HitsOf(g)) \in Nat
  <2>1. IsFiniteSet(LoopHits)
    BY HitsFinite DEF BestInv
  <2>2. HitsOf(g) \subseteq LoopHits
    BY DEF HitsOf
  <2> QED BY <2>1, <2>2, FS_Subset, FS_CardinalityType
<1>8. into \in Injection(rest, HitsOf(g))
  <2>1. \A i \in rest : offered[i] \in HitsOf(g)
    <3> SUFFICES ASSUME NEW i \in rest PROVE offered[i] \in HitsOf(g)
      OBVIOUS
    <3>1. i \in Added /\ i > Firsts /\ Group(offered[i]) = g
      BY DEF LaterOf
    <3>2. \E t, a, b : IsHit(t, a, b) /\ offered[i] = HitAt(t, a, b)
      BY <3>1 DEF BestInv, HitsAdded
    <3>3. offered[i] \in LoopHits
      BY <3>2, HitsAre
    <3> QED BY <3>1, <3>3 DEF HitsOf
  <2>2. \A i, m \in rest : offered[i] = offered[m] => i = m
    BY DEF LaterOf, BestInv, HitsAdded
  <2>3. into \in [rest -> HitsOf(g)] /\ \A i \in rest : into[i] = offered[i]
    BY <2>1
  <2> HIDE DEF into, rest
  <2> QED BY <2>2, <2>3 DEF Injection, IsInjective
<1>9. ASSUME \A h \in HitsOf(g) : \E i \in rest : offered[i] = h
      PROVE  into \in Surjection(rest, HitsOf(g))
  <2>1. into \in [rest -> HitsOf(g)]
    BY <1>8 DEF Injection
  <2>2. \A h \in HitsOf(g) : \E i \in rest : into[i] = h
    BY <1>9
  <2> HIDE DEF into, rest
  <2> QED BY <2>1, <2>2 DEF Surjection
<1> HIDE DEF into, first
<1>10. /\ Cardinality(rest) <= Cardinality(HitsOf(g))
       /\ into \in Surjection(rest, HitsOf(g)) => Cardinality(rest) = Cardinality(HitsOf(g))
  BY <1>7, <1>8, FS_Injection
<1> QED BY <1>4, <1>5, <1>6, <1>7, <1>9, <1>10

(* What is not better than a full queue's threshold is not better than any  *)
(* point in the queue.                                                      *)
LEMMA BeatenByAll ==
  ASSUME TInv, NEW h, h.dist \in Int, Beaten(h), NEW i \in Held(Group(h))
  PROVE  ~ Better(h, offered[i])
<1>1. PICK g : g = Group(h)
  OBVIOUS
<1>2. g \in DOMAIN thresholds /\ ~ Better(h, [dist |-> thresholds[g]])
  BY <1>1 DEF Beaten
<1>3. /\ g \in DOMAIN queues /\ Held(g) = queues[g]
      /\ \E t \in Tops(offered, queues[g]) : offered[t].dist = thresholds[g]
  BY <1>2, ThresholdOfTop DEF Held
<1>4. PICK t \in Tops(offered, queues[g]) : offered[t].dist = thresholds[g]
  BY <1>3
<1>5. t \in Held(g) /\ i \in Held(g) /\ ~ Better(offered[t], offered[i])
  BY <1>1, <1>3, <1>4 DEF Tops
<1>6. offered[t].dist \in Int /\ offered[i].dist \in Int
  <2>1. Held(g) \subseteq Added
    BY HeldAreBest DEF TInv, IInv, BestOf, Offers
  <2> QED BY <1>5, <2>1 DEF TInv, IInv, Typed
<1>7. ~ Better(h, offered[t])
  BY <1>2, <1>4 DEF Better
<1> QED BY <1>5, <1>6, <1>7, NotBetterTransitive

(* A hit that is not among the points added is beaten.                      *)
LEMMA AddedOrBeaten ==
  ASSUME FiniteDoubles, BestInv, pc = "done", NEW g, NEW h \in HitsOf(g)
  PROVE  h.dist \in Int /\ ((\E i \in LaterOf(g) : offered[i] = h) \/ Beaten(h))
<1>1. Running /\ Sound
  BY DEF Running, BestInv
<1>2. PICK t, a, b : IsHit(t, a, b) /\ h = HitAt(t, a, b)
  BY HitsAre DEF HitsOf
<1>3. h.dist \in Int
  BY <1>1, <1>2, HitTyped
<1>4. Passed(t, a, b)
  BY DEF Passed
<1>5. (\E i \in Added : i > Firsts /\ offered[i] = h) \/ Beaten(h)
  BY <1>1, <1>2, <1>4 DEF BestInv, HitsAdded
<1> QED BY <1>3, <1>5 DEF LaterOf, HitsOf

(* A group's queue holds as many as asked for, or all there are; and what   *)
(* it does not hold is not better.                                          *)
LEMMA GroupIsBest ==
  ASSUME FiniteDoubles, BestInv, pc = "done", NEW g
  PROVE  /\ Cardinality(Held(g)) = IF Cardinality(HitsOf(g)) + Cardinality(EarlierOf(g)) < Capacity
                                   THEN Cardinality(HitsOf(g)) + Cardinality(EarlierOf(g)) ELSE Capacity
         /\ \A h \in HitsOf(g) : \/ \E i \in Held(g) : offered[i] = h
                                 \/ \A i \in Held(g) : ~ Better(h, offered[i])
<1>1. Running /\ Sound /\ TInv /\ IInv
  BY DEF Running, BestInv, Sound, TInv
<1>2. /\ Held(g) \subseteq Offers(g)
      /\ Cardinality(Held(g)) = IF Cardinality(Offers(g)) < Capacity THEN Cardinality(Offers(g)) ELSE Capacity
      /\ \A i \in Held(g), m \in Offers(g) \ Held(g) : ~ Better(offered[m], offered[i])
  BY <1>1, HeldAreBest DEF BestOf
<1>3. PICK o, e \in Nat, r \in Nat, s \in Nat :
        /\ o = Cardinality(Offers(g)) /\ e = Cardinality(EarlierOf(g)) /\ r = Cardinality(LaterOf(g))
        /\ s = Cardinality(HitsOf(g)) /\ o = e + r /\ r <= s
        /\ (\A h \in HitsOf(g) : \E i \in LaterOf(g) : offered[i] = h) => r = s
  BY <1>1, OffersCounted
<1>4. PICK c \in Nat : c = Capacity
  BY <1>1, ParamsAssumption DEF Capacity, IInv, Typed
<1>5. Cardinality(Held(g)) = IF s + e < c THEN s + e ELSE c
  <2>1. CASE \A h \in HitsOf(g) : \E i \in LaterOf(g) : offered[i] = h
    BY <1>2, <1>3, <1>4, <2>1
  <2>2. CASE \E h \in HitsOf(g) : ~ \E i \in LaterOf(g) : offered[i] = h
    <3>1. PICK h \in HitsOf(g) : Beaten(h)
      BY <2>2, AddedOrBeaten
    <3>2. g \in DOMAIN thresholds
      BY <3>1 DEF Beaten, HitsOf
    <3>3. Cardinality(Held(g)) = c
      BY <1>1, <1>4, <3>2, ThresholdOfTop DEF Held, Capacity
    <3> QED BY <1>2, <1>3, <1>4, <3>3
  <2> QED BY <2>1, <2>2
<1>6. ASSUME NEW h \in HitsOf(g)
      PROVE  \/ \E i \in Held(g) : offered[i] = h
             \/ \A i \in Held(g) : ~ Better(h, offered[i])
  <2>1. CASE \E i \in LaterOf(g) : offered[i] = h
    BY <1>2, <2>1 DEF LaterOf, Offers
  <2>2. CASE ~ \E i \in LaterOf(g) : offered[i] = h
    BY <1>1, <2>2, AddedOrBeaten, BeatenByAll DEF HitsOf
  <2> QED BY <2>1, <2>2
<1> QED BY <1>3, <1>4, <1>5, <1>6

(* The mean durations stay those that the query was set up with.            *)
DurationsSetUp ==
  Running => /\ qpointers.times = QueryDuration
             /\ "duration" \in query.flags =>
                  \A t \in 0 .. NumFiles - 1 : dbpointers.times[t] = MeanDuration(t)

LEMMA DurationsStep == DurationsSetUp /\ [Next]_vars => DurationsSetUp'
<1> SUFFICES ASSUME DurationsSetUp, [Next]_vars PROVE DurationsSetUp'
  OBVIOUS
<1>1. db' = db /\ query' = query
  BY DEF Next, AllowKeys, AddSoFar, SetUp, Refuse, NextTrack, LastTrack, Window, Collect, vars
<1>2. QueryDatum' = QueryDatum
  BY <1>1 DEF QueryDatum, QueryTrack, FirstVector, TrackOffset, TrackLength, Key, NumFiles
<1>3. QueryDuration' = QueryDuration
  BY <1>2 DEF QueryDuration, SumOf
<1>4. NumFiles' = NumFiles /\ \A t : MeanDuration(t)' = MeanDuration(t)
  BY <1>1 DEF MeanDuration, NumFiles, TrackLength, SumOf
<1>5. CASE SetUp
  <2>1. qpointers' = QueryPointers /\ dbpointers' = DatabasePointers
    BY <1>5 DEF SetUp
  <2>2. qpointers'.times = QueryDuration
    BY <2>1 DEF QueryPointers
  <2>3. "duration" \in query.flags => dbpointers'.times = [t \in 0 .. NumFiles - 1 |-> MeanDuration(t)]
    BY <2>1 DEF DatabasePointers
  <2> QED BY ONLY <1>1, <1>3, <1>4, <2>2, <2>3 DEF DurationsSetUp
<1>6. CASE ~ SetUp
  <2>1. (Running' => Running) /\ qpointers' = qpointers /\ dbpointers' = dbpointers
    BY <1>6 DEF Next, AllowKeys, AddSoFar, Refuse, NextTrack, LastTrack, Window, Collect, vars, pointers, Running
  <2> QED BY ONLY <1>1, <1>3, <1>4, <2>1, DurationsSetUp DEF DurationsSetUp
<1> QED BY <1>5, <1>6

(* Where each track's duration is its own, the loop lets those tracks       *)
(* through that are to be.                                                  *)
LEMMA DurationsAreTrue ==
  ASSUME BestInv, DurationsSetUp, Running, DurationsAreOwn, NEW t \in 0 .. NumFiles - 1
  PROVE  DurationMatches(t) <=> TrueDurationMatches(t)
<1>1. CASE "duration" \notin query.flags
  BY <1>1 DEF DurationMatches, TrueDurationMatches
<1>2. CASE "duration" \in query.flags
  <2>1. dbpointers.times[t] = TrueDuration(t)
    BY <1>2 DEF DurationsSetUp, DurationsAreOwn
  <2>2. qpointers.times = QueryDuration
    BY DEF DurationsSetUp
  <2> QED BY <1>2, <2>1, <2>2 DEF DurationMatches, TrueDurationMatches
<1> QED BY <1>1, <1>2

(* What the loop is to find is then what there is, if it measures it.       *)
LEMMA LoopHitsAre ==
  ASSUME MeasuresWindows, \A t \in 0 .. NumFiles - 1 : DurationMatches(t) <=> TrueDurationMatches(t)
  PROVE  Hits = LoopHits
<1>1. \A t, a, b : TrueDistance(t, a, b) = LoopDistance(t, a, b)
  BY DEF MeasuresWindows, TrueDistance, LoopDistance, Product, QueryNorm, TrackNorm
<1> DEFINE Inner(t, a) == {HitAt(t, a, b) : b \in {c \in Starting(TrackLength(t), query.ihop) :
                                                    /\ TruePowersAcceptable(t, a, c)
                                                    /\ Within(LoopDistance(t, a, c), Radius)}}
           Tracks == {u \in 0 .. NumFiles - 1 : Key(u) \in allowed /\ DurationMatches(u)}
           Trues == {u \in 0 .. NumFiles - 1 : Key(u) \in allowed /\ TrueDurationMatches(u)}
           Windowed == Starting(QueryCount, query.qhop)
<1>2. Tracks = Trues
  OBVIOUS
<1>3. LoopHits = UNION {Inner(t, a) : a \in Windowed, t \in Tracks}
  BY DEF LoopHits
<1>4. Hits = UNION {Inner(t, a) : a \in Windowed, t \in Trues}
  BY <1>1 DEF Hits, HitAt
<1> HIDE DEF Inner, Tracks, Trues, Windowed
<1> QED BY <1>2, <1>3, <1>4

(* A group's results so far, as points.                                     *)
EarlierPoints(g) == {query.sofar[n] : n \in EarlierOf(g)}

(* Results so far that are not twice the same are as many points, and were  *)
(* each offered once.                                                       *)
LEMMA EarlierOnce ==
  ASSUME BestInv, Running,
         \A m, n \in Earlier : query.sofar[m] = query.sofar[n] => m = n
  PROVE  /\ \A i, l \in 1 .. Firsts : offered[i] = offered[l] => i = l
         /\ \A g : /\ Cardinality(EarlierPoints(g)) = Cardinality(EarlierOf(g))
                   /\ IsFiniteSet(EarlierPoints(g))
<1>1. EarlierTo(sofar) = Earlier /\ IsFiniteSet(Earlier) /\ Firsts \in Nat /\ Firsts = Cardinality(Earlier)
  BY EarlierAll DEF Firsts
<1>2. ASSUME NEW S, S \subseteq Earlier
      PROVE  Cardinality({query.sofar[n] : n \in S}) = Cardinality(S) /\ IsFiniteSet({query.sofar[n] : n \in S})
  <2>1. PICK T : T = {query.sofar[n] : n \in S}
    OBVIOUS
  <2>2. PICK f : f = [n \in S |-> query.sofar[n]]
    OBVIOUS
  <2>3. f \in [S -> T] /\ (\A n \in S : f[n] = query.sofar[n]) /\ \A p \in T : \E n \in S : f[n] = p
    BY <2>1, <2>2
  <2>4. f \in Surjection(S, T)
    BY <2>3 DEF Surjection
  <2>5. \A m, n \in S : f[m] = f[n] => m = n
    BY <1>2, <2>3
  <2>6. f \in Injection(S, T)
    BY <2>3, <2>5 DEF Injection, IsInjective
  <2>7. IsFiniteSet(S)
    BY <1>1, <1>2, FS_Subset
  <2> QED BY <2>1, <2>4, <2>6, <2>7, FS_Surjection
<1>3. \A g : Cardinality(EarlierPoints(g)) = Cardinality(EarlierOf(g)) /\ IsFiniteSet(EarlierPoints(g))
  <2> SUFFICES ASSUME NEW g
               PROVE  Cardinality(EarlierPoints(g)) = Cardinality(EarlierOf(g)) /\ IsFiniteSet(EarlierPoints(g))
    OBVIOUS
  <2>1. EarlierOf(g) \subseteq Earlier
    BY DEF EarlierOf
  <2> QED BY <1>2, <2>1 DEF EarlierPoints
<1>4. ASSUME NEW i \in 1 .. Firsts, NEW l \in 1 .. Firsts, offered[i] = offered[l]
      PROVE  i = l
  <2>1. PICK P : P = {query.sofar[n] : n \in Earlier}
    OBVIOUS
  <2>2. Cardinality(P) = Firsts
    BY <1>1, <1>2, <2>1
  <2>3. /\ \A m \in 1 .. Firsts : \E n \in Earlier : offered[m] = query.sofar[n]
        /\ \A n \in Earlier : \E m \in 1 .. Firsts : offered[m] = query.sofar[n]
    BY <1>1 DEF BestInv, EarlierAdded
  <2>4. PICK I : I = 1 .. Firsts
    OBVIOUS
  <2>5. PICK f : f = [m \in I |-> offered[m]]
    OBVIOUS
  <2>6. f \in [I -> P] /\ (\A m \in I : f[m] = offered[m]) /\ \A p \in P : \E m \in I : f[m] = p
    BY <2>1, <2>3, <2>4, <2>5
  <2>7. f \in Surjection(I, P)
    BY <2>6 DEF Surjection
  <2>8. IsFiniteSet(I) /\ Cardinality(I) = Firsts
    BY <1>1, <2>4, FS_Interval
  <2>9. f \in Injection(I, P)
    BY <2>2, <2>7, <2>8, FS_Surjection
  <2> QED BY <1>4, <2>4, <2>6, <2>9 DEF Injection, IsInjective
<1> QED BY <1>3, <1>4

(* Where no point is there twice, no queue holds one twice; what the queue  *)
(* of a group does not hold is not better; and it holds as many as asked    *)
(* for, of all there are.                                                   *)
LEMMA GroupOfPoints ==
  ASSUME FiniteDoubles, BestInv, pc = "done", Hits = LoopHits, NothingTwice, NEW g
  PROVE  LET all == HitsOf(g) \cup EarlierPoints(g)
         IN  /\ \A i, l \in Held(g) : offered[i] = offered[l] => i = l
             /\ Cardinality(Held(g)) = IF Cardinality(all) < Capacity THEN Cardinality(all) ELSE Capacity
             /\ \A p \in all : \/ \E i \in Held(g) : offered[i] = p
                               \/ \A i \in Held(g) : ~ Better(p, offered[i])
<1>1. Running /\ Sound /\ TInv /\ IInv
  BY DEF Running, BestInv, Sound, TInv
<1>2. /\ \A m, n \in Earlier : query.sofar[m] = query.sofar[n] => m = n
      /\ \A n \in Earlier : query.sofar[n] \notin LoopHits
  BY DEF NothingTwice
<1>3. PICK f \in Nat : f = Firsts /\ EarlierTo(sofar) = Earlier
  BY <1>1, EarlierAll
<1>4. PICK O : O = Offers(g)
  OBVIOUS
<1>5. /\ Held(g) \subseteq O /\ O \subseteq Added
      /\ \A i \in Held(g), m \in O \ Held(g) : ~ Better(offered[m], offered[i])
  <2>1. /\ Held(g) \subseteq O
        /\ \A i \in Held(g), m \in O \ Held(g) : ~ Better(offered[m], offered[i])
    BY <1>1, <1>4, HeldAreBest DEF BestOf
  <2>2. O \subseteq Added
    BY <1>4 DEF Offers
  <2> QED BY <2>1, <2>2
<1>6. \A i \in Added : i \in Nat /\ (i <= f => i \in 1 .. Firsts)
  <2>1. PICK l \in Nat : l = Len(offered)
    BY <1>1, EarlierAll
  <2>2. \A i \in 1 .. l : i \in Nat /\ (i <= f => i \in 1 .. f)
    OBVIOUS
  <2> QED BY <1>3, <2>1, <2>2 DEF Added
<1>7. ASSUME NEW i \in Held(g), NEW l \in Held(g), offered[i] = offered[l]
      PROVE  i = l
  <2>1. i \in Added /\ l \in Added /\ i \in Nat /\ l \in Nat
    BY <1>5, <1>6
  <2>2. \A x \in Added : x > f => offered[x] \in LoopHits
    <3>1. \A x \in Added : x > Firsts => \E t, a, b : IsHit(t, a, b) /\ offered[x] = HitAt(t, a, b)
      BY <1>1 DEF BestInv, HitsAdded
    <3> QED BY <1>3, <3>1, HitsAre
  <2>3. \A x \in 1 .. Firsts : \E n \in Earlier : offered[x] = query.sofar[n]
    BY <1>3 DEF BestInv, EarlierAdded
  <2>4. CASE i <= f /\ l <= f
    BY <1>1, <1>2, <1>6, <1>7, <2>1, <2>4, EarlierOnce
  <2>5. CASE i > f /\ l > f
    BY <1>1, <1>3, <1>7, <2>1, <2>5 DEF BestInv, HitsAdded
  <2>6. CASE (i <= f /\ l > f) \/ (i > f /\ l <= f)
    BY <1>2, <1>6, <1>7, <2>1, <2>2, <2>3, <2>6
  <2> QED BY <2>1, <2>4, <2>5, <2>6
<1>8. PICK e \in Nat, h \in Nat :
        /\ e = Cardinality(EarlierPoints(g)) /\ h = Cardinality(HitsOf(g))
        /\ e = Cardinality(EarlierOf(g)) /\ IsFiniteSet(EarlierPoints(g)) /\ IsFiniteSet(HitsOf(g))
  <2>1. Cardinality(EarlierOf(g)) \in Nat /\ Cardinality(HitsOf(g)) \in Nat
    BY <1>1, OffersCounted
  <2>2. Cardinality(EarlierPoints(g)) = Cardinality(EarlierOf(g)) /\ IsFiniteSet(EarlierPoints(g))
    BY <1>1, <1>2, EarlierOnce
  <2>3. IsFiniteSet(HitsOf(g))
    BY <1>1, HitsFinite, FS_Subset DEF HitsOf
  <2> QED BY <2>1, <2>2, <2>3
<1>9. HitsOf(g) \cap EarlierPoints(g) = {}
  BY <1>2 DEF HitsOf, EarlierPoints, EarlierOf
<1>10. Cardinality(HitsOf(g) \cup EarlierPoints(g)) = h + e
  <2>1. Cardinality(HitsOf(g) \cup EarlierPoints(g))
          = Cardinality(HitsOf(g)) + Cardinality(EarlierPoints(g)) - Cardinality(HitsOf(g) \cap EarlierPoints(g))
    BY <1>8, FS_Union
  <2>2. Cardinality(HitsOf(g) \cap EarlierPoints(g)) = 0
    BY <1>9, FS_EmptySet
  <2>3. h + e - 0 = h + e
    OBVIOUS
  <2> QED BY ONLY <1>8, <2>1, <2>2, <2>3
<1>11. /\ Cardinality(Held(g)) = IF h + e < Capacity THEN h + e ELSE Capacity
       /\ \A p \in HitsOf(g) : \/ \E i \in Held(g) : offered[i] = p
                               \/ \A i \in Held(g) : ~ Better(p, offered[i])
  BY <1>8, GroupIsBest
<1>12. ASSUME NEW p \in EarlierPoints(g)
       PROVE  \/ \E i \in Held(g) : offered[i] = p
              \/ \A i \in Held(g) : ~ Better(p, offered[i])
  <2>1. PICK n \in Earlier : p = query.sofar[n] /\ Group(p) = g
    BY <1>12 DEF EarlierPoints, EarlierOf
  <2>2. PICK i \in 1 .. Firsts : offered[i] = p
    BY <1>3, <2>1 DEF BestInv, EarlierAdded
  <2>3. i \in O
    <3>1. PICK l \in Nat : l = Len(offered) /\ f <= l
      BY <1>1, <1>3, EarlierAll
    <3>2. i \in 1 .. l
      BY <1>3, <3>1
    <3> QED BY <1>4, <2>1, <2>2, <3>1, <3>2 DEF Offers, Added
  <2> QED BY <1>5, <2>2, <2>3
<1> QED BY <1>7, <1>10, <1>11, <1>12

LEMMA FoundBest == ASSUME FiniteDoubles, BestInv, DurationsSetUp PROVE AnswerIsBest
<1> SUFFICES ASSUME pc = "done", DurationsAreOwn, MeasuresWindows, NothingTwice PROVE AnswerIsBest
  BY DEF AnswerIsBest
<1>1. Hits = LoopHits
  BY DurationsAreTrue, LoopHitsAre DEF Running
<1>2. PICK P : P = Hits \cup {query.sofar[n] : n \in Earlier}
  OBVIOUS
<1>3. \A i \in Added : offered[i] \in P
  BY <1>1, <1>2, AddedKnown DEF Running
<1>4. \A g : {p \in P : Group(p) = g} = HitsOf(g) \cup EarlierPoints(g)
  BY <1>1, <1>2 DEF HitsOf, EarlierPoints, EarlierOf
<1>5. \A g : LET all == {p \in P : Group(p) = g}
             IN  /\ \A i, l \in Held(g) : offered[i] = offered[l] => i = l
                 /\ Cardinality(Held(g)) = IF Cardinality(all) < Capacity THEN Cardinality(all) ELSE Capacity
                 /\ \A p \in all : \/ \E i \in Held(g) : offered[i] = p
                                   \/ \A i \in Held(g) : ~ Better(p, offered[i])
  BY <1>1, <1>4, GroupOfPoints
<1>6. IF params.accumulation = "per_track" THEN BestTracks
      ELSE results = UNION {Held(g) : g \in DOMAIN queues}
  <2>1. BestTracks
    BY RankedAreBest DEF BestInv
  <2>2. \A g \in DOMAIN queues : Held(g) = queues[g]
    BY DEF Held
  <2> QED BY <2>1, <2>2 DEF BestInv, ResultsGot
<1> QED BY <1>2, <1>3, <1>5, <1>6 DEF AnswerIsBest

(* audiodb_query_loop, query.cpp:531-671, and the accumulators: the answer  *)
(* is the best of all windows and results so far, whatever was pruned, and  *)
(* none of them is in it twice.  Durations are each track's own and the     *)
(* distances the windows' own; where the code does not keep to that, or a   *)
(* point is already among the results so far, AnswerIsBest says nothing.    *)
THEOREM BestAnswer == ASSUME FiniteDoubles PROVE Spec => []AnswerIsBest
<1>1. Init => BestInv /\ DurationsSetUp
  BY BestInitially DEF Init, DurationsSetUp, Running
<1>2. BestInv /\ DurationsSetUp /\ [Next]_vars => BestInv' /\ DurationsSetUp'
  BY BestStep, DurationsStep
<1>3. BestInv /\ DurationsSetUp => AnswerIsBest
  BY FoundBest
<1> QED BY <1>1, <1>2, <1>3, PTL DEF Spec

-----------------------------------------------------------------------------
(* The answer of a sample.                                                  *)

(* Windows of as many doubles have a distance, or none.                     *)
LEMMA MeasuredTyped ==
  ASSUME query.distance \in Distances \ {"kullback_leibler"}, NEW v, NEW w, NEW n \in Nat \ {0},
         v \in Seq(AnyDouble), w \in Seq(AnyDouble), Len(v) = n, Len(w) = n
  PROVE  Measured(v, w) \in Int \cup {NaN}
<1>1. CASE Range(v) \cup Range(w) \subseteq Int
  <2>1. \A i \in 1 .. n : v[i] \in Int /\ w[i] \in Int
    BY <1>1 DEF Range
  <2>2. PICK a \in Seq(Int), b \in Seq(Int) : a = v /\ b = w
    BY <2>1
  <2>3. Len(a) = n /\ Len(b) = n
    BY <2>2
  <2>4. DotProduct(a, b) \in Int /\ DotProduct(a, a) \in Nat /\ DotProduct(b, b) \in Nat
    BY <2>3, DotProductOfIntegers
  <2>5. Distance(DotProduct(a, b), DotProduct(a, a), DotProduct(b, b)) \in Int \cup {NaN}
    BY <2>4, DistanceTyped
  <2> QED BY <1>1, <2>2, <2>5 DEF Measured
<1>2. CASE ~ (Range(v) \cup Range(w) \subseteq Int)
  BY <1>2 DEF Measured
<1> QED BY <1>1, <1>2

(* A point with the distance of the windows it names.                       *)
IsMeasured(p) ==
  \E t \in 0 .. NumFiles - 1, u \in 0 .. NumFiles - 1 :
    /\ p.ikey = Key(t) /\ (query.pairs => p.qkey = Key(u))
    /\ p.dist = Measured(IF query.pairs THEN DataWindow(u, p.qpos) ELSE QueryWindow(p.qpos),
                         DataWindow(t, p.ipos))

(* A sample counts the points it adds to the one queue there is.            *)
SamplesCounted ==
  /\ pc \in {"draw", "measure", "points", "done"} => ~ SampleRefused
  /\ nsamples \in Nat /\ nsamples = Len(offered) /\ nsamples <= query.npoints
  /\ pc = "measure" => nsamples < query.npoints
  /\ pc \in {"points", "done"} => nsamples = query.npoints

SamplesMeasured == \A i \in Added : IsMeasured(offered[i])

SamplesGot ==
  /\ pc # "done" => results = NoResults /\ ranked = {}
  /\ pc = "done" => results = UNION {queues[g] : g \in DOMAIN queues}

(* The inductive invariant of the answer of a sample.                       *)
SampledInv ==
  SampleInv /\ IInv /\ ParamsOfQuery /\ SamplesCounted /\ SamplesMeasured /\ SamplesGot

(* A point that is measured has a distance, or none.                        *)
LEMMA WindowsMeasured ==
  ASSUME SampledInv, pc = "measure"
  PROVE  /\ SampleDistance \in Int \cup {NaN} /\ SamplePoint.dist = SampleDistance
         /\ IsMeasured(SamplePoint)
<1>1. /\ db \in Databases /\ query \in Queries /\ SampledInside /\ SamplePlace
      /\ ~ query.pairs => ~ QueryUnknown /\ ~ QueryTooLong
  BY SampleInside DEF SampledInv, SampleInv
<1>2. query.distance \in Distances \ {"kullback_leibler"}
  BY ParamsAssumption DEF SampledInv, IInv, Typed, ParamsOfQuery, SamplesCounted, SampleRefused
<1>3. PICK d \in Nat \ {0}, c \in Nat \ {0}, m \in Nat \ {0} : d = db.dim /\ c = query.seqlen /\ m = c * d
  <2>1. PICK d \in Nat \ {0}, c \in Nat \ {0} : d = db.dim /\ c = query.seqlen
    BY <1>1, Tables, QueryTypes
  <2>2. c * d \in Nat \ {0}
    OBVIOUS
  <2> QED BY <2>1, <2>2
<1>4. m \in Nat /\ c \in Nat
  BY <1>3
<1>5. j \in Nat /\ k \in Nat /\ track \in 0 .. NumFiles - 1 /\ (query.pairs => track1 \in 0 .. NumFiles - 1)
  <2>1. HopTrack \in Nat \ {0} /\ HopQuery \in Nat \ {0}
    BY <1>1, QueryTypes DEF HopTrack, HopQuery
  <2>2. /\ track \in 0 .. NumFiles - 1 /\ Props(track) > 0 /\ k \in OnHops(Props(track), HopTrack)
        /\ query.pairs => /\ track1 \in 0 .. NumFiles - 1 /\ Props(track1) > 0
                          /\ j \in OnHops(Props(track1), HopTrack)
        /\ ~ query.pairs => j \in QueryWindows
    BY <1>1 DEF SamplePlace
  <2>3. k \in Nat /\ (query.pairs => j \in Nat)
    BY <1>1, <2>1, <2>2, PropsCount, OnHopsBelow
  <2>4. ~ query.pairs => j \in Nat
    <3> SUFFICES ASSUME ~ query.pairs PROVE j \in Nat
      OBVIOUS
    <3>1. CASE Exhaustive
      <4>1. PICK n \in Nat, s \in Nat : n = QueryDatum.n /\ s = query.start /\ s + c <= n
        BY <1>1, <1>3, DatumTypes, QueryTypes DEF QueryTooLong
      <4>2. j \in OnHops(n - c, HopQuery) /\ n - c \in Nat
        BY <1>3, <2>2, <3>1, <4>1 DEF QueryWindows, QueryCount
      <4> QED BY <2>1, <4>2, OnHopsBelow
    <3>2. CASE ~ Exhaustive
      BY <1>1, <2>2, <3>2, QueryTypes DEF QueryWindows
    <3> QED BY <3>1, <3>2
  <2> QED BY <2>2, <2>3, <2>4
<1>6. ASSUME NEW s \in Seq(AnyDouble), NEW i \in Nat, NEW e \in Nat, i + c <= e, e * d <= Len(s)
      PROVE  /\ SubSeq(s, i * d + 1, i * d + c * d) \in Seq(AnyDouble)
             /\ Len(SubSeq(s, i * d + 1, i * d + c * d)) = m /\ (i + c) * d = i * d + c * d
  <2>1. PICK a \in Nat : a = i * d
    OBVIOUS
  <2>2. (i + c) * d = i * d + c * d
    OBVIOUS
  <2>3. PICK f \in Nat : e = (i + c) + f
    <3>1. e - (i + c) \in Nat /\ e = (i + c) + (e - (i + c))
      BY <1>6
    <3> QED BY <3>1
  <2>4. ((i + c) + f) * d = (i + c) * d + f * d /\ f * d \in Nat /\ (i + c) * d \in Nat
    OBVIOUS
  <2>5. a + m <= Len(s)
    <3>1. PICK z \in Nat, x \in Nat, y \in Nat : z = Len(s) /\ x = (i + c) * d /\ y = f * d
      BY <2>4
    <3>2. x + y <= z
      BY ONLY <1>6, <2>3, <2>4, <3>1
    <3>3. x = a + m
      BY ONLY <1>3, <2>1, <2>2, <3>1
    <3>4. a + m \in Nat /\ a + m <= z
      <4>1. \A g, h, o, r \in Nat : o + h <= r /\ o = g => g <= r
        OBVIOUS
      <4> QED BY ONLY <1>4, <2>1, <3>1, <3>2, <3>3, <4>1
    <3> QED BY ONLY <3>1, <3>4
  <2>6. SubSeq(s, a + 1, a + m) \in Seq(AnyDouble) /\ Len(SubSeq(s, a + 1, a + m)) = m
    BY <2>5, CutOut
  <2> QED BY ONLY <1>3, <2>1, <2>2, <2>6
<1>7. ASSUME NEW t \in 0 .. NumFiles - 1, NEW i \in Nat, i + query.seqlen <= TrackLength(t)
      PROVE  DataWindow(t, i) \in Seq(AnyDouble) /\ Len(DataWindow(t, i)) = m
  <2>1. PICK f \in Nat, l \in Nat, v \in Nat :
          f = FirstVector(t) /\ l = TrackLength(t) /\ v = VectorStart[NumFiles] /\ f + l <= v
    BY <1>1, <1>7, TrackPlace
  <2>2. PICK s \in Seq(AnyDouble) : s = db.data /\ v * d <= Len(s)
    <3>1. db.data \in Seq(AnyDouble) /\ Len(db.data) = v * d
      BY <1>1, <1>3, <2>1, WholeTables, Tables
    <3>2. v * d <= v * d
      <4>1. PICK z \in Nat : z = v * d
        OBVIOUS
      <4> QED BY ONLY <4>1
    <3> QED BY ONLY <3>1, <3>2
  <2>3. f + i \in Nat /\ (f + i) + c <= v
    <3>1. i + c <= l
      BY <1>3, <1>7, <2>1
    <3> QED BY ONLY <1>4, <1>7, <2>1, <3>1
  <2>4. DataWindow(t, i) = SubSeq(s, (f + i) * d + 1, (f + i) * d + c * d)
    BY <1>3, <2>1, <2>2 DEF DataWindow
  <2> QED BY <1>6, <2>2, <2>3, <2>4
<1>8. ASSUME ~ query.pairs
      PROVE  QueryWindow(j) \in Seq(AnyDouble) /\ Len(QueryWindow(j)) = m
  <2>1. db.data \in Seq(AnyDouble) /\ (query.datum.given => query.datum.doubles \in Seq(AnyDouble))
    BY <1>1, Tables, QueriesAssumption
  <2>2. PICK s \in Seq(AnyDouble), n \in Nat : s = QueryDatum.doubles /\ n = QueryDatum.n /\ n * d <= Len(s)
    BY <1>1, <1>3, <1>8, <2>1, DatumDoubles
  <2>3. j + c <= n
    BY <1>1, <1>3, <1>8, <2>2, <1>1 DEF SampledInside
  <2>4. SubSeq(s, j * d + 1, j * d + c * d) \in Seq(AnyDouble)
        /\ Len(SubSeq(s, j * d + 1, j * d + c * d)) = m /\ (j + c) * d = j * d + c * d
    BY <1>5, <1>6, <2>2, <2>3
  <2>5. QueryWindow(j) = SubSeq(s, j * d + 1, (j + c) * d)
    BY <1>3, <2>2 DEF QueryWindow
  <2> QED BY <2>4, <2>5
<1>9. PICK v, w : /\ v = IF query.pairs THEN DataWindow(track1, j) ELSE QueryWindow(j)
                  /\ w = DataWindow(track, k)
  OBVIOUS
<1>10. v \in Seq(AnyDouble) /\ w \in Seq(AnyDouble) /\ Len(v) = m /\ Len(w) = m
  <2>1. /\ k + query.seqlen <= TrackLength(track)
        /\ query.pairs => j + query.seqlen <= TrackLength(track1)
    BY <1>1, <1>5 DEF SampledInside
  <2> QED BY <1>5, <1>7, <1>8, <1>9, <2>1
<1>11. SampleDistance = Measured(v, w) /\ Measured(v, w) \in Int \cup {NaN}
  <2>1. Measured(v, w) \in Int \cup {NaN}
    BY <1>2, <1>10, MeasuredTyped
  <2> QED BY <1>9, <2>1 DEF SampleDistance
<1>12. IsMeasured(SamplePoint)
  <2>1. PICK u \in 0 .. NumFiles - 1 : query.pairs => u = track1
    BY <1>5
  <2>2. /\ SamplePoint.ikey = Key(track) /\ SamplePoint.qpos = j /\ SamplePoint.ipos = k
        /\ SamplePoint.dist = Measured(IF query.pairs THEN DataWindow(u, j) ELSE QueryWindow(j),
                                       DataWindow(track, k))
        /\ query.pairs => SamplePoint.qkey = Key(u)
    BY <2>1 DEF SamplePoint, SampleDistance
  <2> QED BY <1>5, <2>2 DEF IsMeasured
<1> QED BY <1>11, <1>12 DEF SamplePoint

(* To the accumulator a sample is a caller like any other.                  *)
LEMMA SampleAccumulates ==
  ASSUME SampledInv, [SampleNext]_sampleVars
  PROVE  AccumulatorStep /\ UNCHANGED <<db, query>>
<1>1. UNCHANGED <<db, query>>
  BY DEF SampleNext, AllowKeys, Collect, RefuseSample, StartSample, DrawPair, Draw, DrawNothing,
         Measure, EnoughSamples, sampleVars, vars
<1>2. CASE Measure
  <2>1. UNCHANGED accVars \/ AddPoint(SamplePoint)
    BY <1>2 DEF Measure
  <2>2. CASE AddPoint(SamplePoint)
    <3>1. SamplePoint.dist \in Int \cup {NaN} /\ results = NoResults /\ ranked = {}
      BY <1>2, WindowsMeasured DEF Measure, SampledInv, SamplesGot
    <3> QED BY <1>1, <2>2, <3>1 DEF AccumulatorStep, Adds
  <2> QED BY <1>1, <2>1, <2>2 DEF AccumulatorStep
<1>3. CASE ~ Measure
  BY <1>1, <1>3 DEF SampleNext, AllowKeys, Collect, RefuseSample, StartSample, DrawPair, Draw,
         DrawNothing, EnoughSamples, sampleVars, vars, AccumulatorStep
<1> QED BY <1>2, <1>3

(* Its windows are the same after a step.                                   *)
LEMMA SameWindows ==
  ASSUME UNCHANGED <<db, query>>
  PROVE  /\ \A p : IsMeasured(p)' <=> IsMeasured(p)
         /\ params' = params => (SampleRefused' <=> SampleRefused)
<1>1. db' = db /\ query' = query /\ QueryDatum' = QueryDatum /\ NumFiles' = NumFiles
  BY DEF QueryDatum, QueryTrack, FirstVector, TrackOffset, TrackLength, Key, NumFiles
<1>2. \A t, i : DataWindow(t, i)' = DataWindow(t, i)
  BY <1>1 DEF DataWindow, FirstVector, TrackOffset
<1>3. \A i : QueryWindow(i)' = QueryWindow(i)
  BY <1>1 DEF QueryWindow
<1>4. \A v, w : Measured(v, w)' = Measured(v, w)
  BY <1>1 DEF Measured, Distance, DotProduct, SumOf
<1>5. \A t : Key(t)' = Key(t)
  BY <1>1 DEF Key
<1>6. \A p : IsMeasured(p)' <=> IsMeasured(p)
  BY <1>1, <1>2, <1>3, <1>4, <1>5 DEF IsMeasured
<1>7. params' = params => (SampleRefused' <=> SampleRefused)
  BY <1>1, SameTables DEF SampleRefused
<1> QED BY <1>6, <1>7

LEMMA SampledStep ==
  ASSUME SampledInv, [SampleNext]_sampleVars
  PROVE  SampledInv'
<1>1. AccumulatorStep /\ db' = db /\ query' = query
  BY SampleAccumulates
<1>2. SampleInv' /\ IInv'
  BY <1>1, SampleStep, StepKeepsInvariant DEF SampledInv
<1>3. params' = params
  BY <1>1 DEF AccumulatorStep, Adds, AddPoint, RankTrack, GetPoints, accVars
<1>4. ParamsOfQuery'
  BY <1>1, <1>3 DEF SampledInv, ParamsOfQuery
<1>5. /\ \A p : IsMeasured(p)' <=> IsMeasured(p)
      /\ SampleRefused' <=> SampleRefused
  BY <1>1, <1>3, SameWindows
<1>6. IsSequence(offered) /\ Len(offered) \in Nat /\ query.npoints \in Nat
  BY ParamsAssumption DEF SampledInv, IInv, Typed, ParamsOfQuery
<1>7. CASE Measure
  <2>1. /\ pc = "measure" /\ pc' = "draw" /\ nsamples < query.npoints /\ ~ SampleRefused
        /\ nsamples \in Nat /\ nsamples = Len(offered) /\ results = NoResults /\ ranked = {}
    BY <1>7 DEF Measure, SampledInv, SamplesCounted, SamplesGot
  <2>2. CASE UNCHANGED <<accVars, nsamples>>
    <3>1. Added' = Added /\ offered' = offered
      BY <2>2 DEF accVars, Added
    <3>2. SamplesCounted' /\ SamplesGot'
      BY <1>1, <1>5, <2>1, <2>2 DEF SampledInv, SamplesCounted, SamplesGot, accVars
    <3>3. SamplesMeasured'
      BY <1>5, <3>1 DEF SampledInv, SamplesMeasured
    <3> QED BY <1>2, <1>4, <3>2, <3>3 DEF SampledInv
  <2>3. CASE Sampled(SampleDistance) /\ AddPoint(SamplePoint) /\ nsamples' = nsamples + 1
    <3>1. SamplePoint.dist # NaN /\ IsMeasured(SamplePoint)
      BY <2>1, <2>3, WindowsMeasured DEF Sampled
    <3>2. /\ Len(offered') = Len(offered) + 1 /\ offered'[Len(offered) + 1] = SamplePoint
          /\ \A i \in 1 .. Len(offered) : offered'[i] = offered[i]
          /\ UNCHANGED emptying
      BY <1>6, <2>3, <3>1, OneAdded
    <3>3. SamplesCounted' /\ SamplesGot'
      BY <1>1, <1>5, <1>6, <2>1, <2>3, <3>2 DEF SampledInv, SamplesCounted, SamplesGot, emptying
    <3>4. SamplesMeasured'
      <4> SUFFICES ASSUME NEW i \in Added' PROVE IsMeasured(offered'[i])
        BY <1>5 DEF SamplesMeasured
      <4>1. i \in 1 .. Len(offered) \/ i = Len(offered) + 1
        BY <1>6, <3>2 DEF Added
      <4> QED BY <3>1, <3>2, <4>1 DEF SampledInv, SamplesMeasured, Added
    <3> QED BY <1>2, <1>4, <3>3, <3>4 DEF SampledInv
  <2> QED BY <1>7, <2>2, <2>3 DEF Measure
(* Other steps leave the points as they are.                                *)
<1>8. ASSUME UNCHANGED <<offered, queues, nsamples>>
      PROVE  SamplesMeasured'
  BY <1>5, <1>8 DEF SampledInv, SamplesMeasured, Added
<1>9. CASE Collect /\ UNCHANGED <<track1, nsamples>>
  <2>1. /\ pc = "points" /\ ~ SampleRefused /\ nsamples = query.npoints
        /\ nsamples \in Nat /\ nsamples = Len(offered)
    BY <1>9 DEF Collect, SampledInv, SamplesCounted
  <2>2. GetPoints /\ pc' = "done"
    BY <1>9, <2>1 DEF Collect, RankTrack, SampleRefused
  <2>3. /\ UNCHANGED <<offered, queues>> /\ results' = UNION {queues[g] : g \in DOMAIN queues}
    BY <2>1, <2>2 DEF GetPoints, filling, SampleRefused
  <2>4. SamplesCounted' /\ SamplesGot'
    BY <1>1, <1>5, <1>6, <1>9, <2>1, <2>2, <2>3 DEF SamplesCounted, SamplesGot
  <2> QED BY <1>2, <1>4, <1>8, <1>9, <2>3, <2>4 DEF SampledInv
<1>10. CASE \/ AllowKeys /\ UNCHANGED <<track1, nsamples>>
            \/ RefuseSample \/ StartSample \/ DrawPair \/ Draw \/ DrawNothing \/ EnoughSamples
            \/ UNCHANGED sampleVars
  <2>1. /\ UNCHANGED <<offered, queues, ranked, results, nsamples>>
        /\ \/ UNCHANGED pc
           \/ pc' = "sofar" /\ pc = "start"
           \/ pc' \in {"refused", "dead"} /\ pc \in {"sofar", "draw"}
           \/ pc' = "draw" /\ pc = "sofar" /\ ~ SampleRefused
           \/ pc' = "measure" /\ pc = "draw" /\ nsamples < query.npoints
           \/ pc' = "points" /\ pc = "draw" /\ nsamples = query.npoints
    BY <1>10 DEF AllowKeys, RefuseSample, StartSample, DrawPair, Draw, DrawNothing, EnoughSamples,
                 sampleVars, vars, accVars
  <2>2. SamplesCounted'
    <3>1. /\ pc \in {"draw", "measure", "points", "done"} => ~ SampleRefused
          /\ nsamples \in Nat /\ nsamples = Len(offered) /\ nsamples <= query.npoints
          /\ pc = "measure" => nsamples < query.npoints
          /\ pc \in {"points", "done"} => nsamples = query.npoints
      BY DEF SampledInv, SamplesCounted
    <3>2. nsamples' = nsamples /\ Len(offered') = Len(offered) /\ query'.npoints = query.npoints
      BY <1>1, <2>1
    <3>3. pc' \in {"draw", "measure", "points", "done"} => ~ SampleRefused'
      BY <1>5, <2>1, <3>1
    <3>4. /\ pc' = "measure" => nsamples < query.npoints
          /\ pc' \in {"points", "done"} => nsamples = query.npoints
      BY <2>1, <3>1
    <3> QED BY <3>1, <3>2, <3>3, <3>4 DEF SamplesCounted
  <2>3. SamplesGot'
    BY <2>1 DEF SampledInv, SamplesGot
  <2> QED BY <1>2, <1>4, <1>8, <2>1, <2>2, <2>3 DEF SampledInv
<1> QED BY <1>7, <1>9, <1>10 DEF SampleNext

LEMMA SampledInitially == SampleInit => SampledInv
<1> SUFFICES ASSUME SampleInit PROVE SampledInv
  OBVIOUS
<1>1. /\ Init /\ AccInit /\ pc = "start" /\ nsamples = 0 /\ offered = <<>> /\ ranked = {} /\ results = NoResults
  BY DEF SampleInit, Init, AccInit
<1>2. SampleInv
  BY <1>1 DEF Init, SampleInv, SamplePlace
<1>3. IInv
  BY <1>1, Initially
<1>4. ParamsOfQuery
  BY <1>1 DEF Init, ParamsOfQuery
<1>5. Len(offered) = 0 /\ Added = {} /\ query.npoints \in Nat
  BY <1>1, <1>3, <1>4, ParamsAssumption DEF Added, ParamsOfQuery, IInv, Typed
<1> QED BY <1>1, <1>2, <1>3, <1>4, <1>5 DEF SampledInv, SamplesCounted, SamplesMeasured, SamplesGot

(* The one queue has room for all that was asked for.                       *)
LEMMA SampleFull == SampledInv => SampledInFull
<1> SUFFICES ASSUME SampledInv, pc = "done" PROVE SampledInFull
  BY DEF SampledInFull
<1>1. /\ db \in Databases /\ params \in Params /\ params.npoints = query.npoints /\ params.accumulation = "db"
      /\ Len(offered) = query.npoints /\ results = UNION {queues[g] : g \in DOMAIN queues}
  BY DEF SampledInv, SampleInv, IInv, Typed, ParamsOfQuery, SamplesCounted, SampleRefused, SamplesGot
<1>2. PICK n \in Nat \ {0} : n = query.npoints
  BY <1>1, ParamsAssumption
<1>3. Added = 1 .. n /\ Offers(WholeDB) = Added /\ DOMAIN queues = {WholeDB}
  <2>1. \A p : Group(p) = WholeDB
    BY <1>1 DEF Group, GroupOf
  <2>2. Added = 1 .. n /\ 1 \in Added
    BY <1>1, <1>2 DEF Added
  <2> QED BY <2>1, <2>2 DEF Offers, SampledInv, IInv, Typed
<1>4. results = Held(WholeDB)
  BY <1>1, <1>3 DEF Held
<1>5. Capacity = n /\ Cardinality(Offers(WholeDB)) = n
  <2>1. Cardinality(1 .. n) = n
    BY FS_Interval
  <2> QED BY <1>1, <1>2, <1>3, <2>1 DEF Capacity
<1>6. Cardinality(results) = n /\ results \subseteq Added
  <2>1. BestOf(offered, Held(WholeDB), Offers(WholeDB))
    BY HeldAreBest DEF SampledInv
  <2> QED BY <1>3, <1>4, <1>5, <2>1 DEF BestOf
<1>7. ASSUME NEW p, IsMeasured(p)
      PROVE  LET at(key) == CHOOSE t \in 0 .. NumFiles - 1 : Key(t) = key
             IN  p.dist = Measured(IF query.pairs THEN DataWindow(at(p.qkey), p.qpos) ELSE QueryWindow(p.qpos),
                                   DataWindow(at(p.ikey), p.ipos))
  <2> DEFINE at(key) == CHOOSE t \in 0 .. NumFiles - 1 : Key(t) = key
  <2>1. PICK t \in 0 .. NumFiles - 1, u \in 0 .. NumFiles - 1 :
          /\ p.ikey = Key(t) /\ (query.pairs => p.qkey = Key(u))
          /\ p.dist = Measured(IF query.pairs THEN DataWindow(u, p.qpos) ELSE QueryWindow(p.qpos),
                               DataWindow(t, p.ipos))
    BY <1>7 DEF IsMeasured
  <2>2. \A x \in 0 .. NumFiles - 1 : at(Key(x)) = x
    BY <1>1, KeysDistinct
  <2>3. at(p.ikey) = t /\ (query.pairs => at(p.qkey) = u)
    BY <2>1, <2>2
  <2> HIDE DEF at
  <2>4. p.dist = Measured(IF query.pairs THEN DataWindow(at(p.qkey), p.qpos) ELSE QueryWindow(p.qpos),
                          DataWindow(at(p.ikey), p.ipos))
    BY <2>1, <2>3
  <2> QED BY <2>4 DEF at
<1>8. \A i \in results : IsMeasured(offered[i])
  BY <1>6 DEF SampledInv, SamplesMeasured
<1> QED BY <1>2, <1>6, <1>7, <1>8 DEF SampledInFull

(* Whatever the generator draws, a sample that ends has as many points as   *)
(* were asked for, each with the distance of the windows it names: none     *)
(* that cannot be measured is counted, and the accumulator drops none       *)
(* (sample.cpp:209, 260-286).                                               *)
THEOREM SampleIsFull == SampleSpec => []SampledInFull
<1>1. SampledInv /\ [SampleNext]_sampleVars => SampledInv'
  BY SampledStep
<1> QED BY <1>1, SampledInitially, SampleFull, PTL DEF SampleSpec

-----------------------------------------------------------------------------
(* What an exact indexed query evaluates, and what it adds.                 *)

(* A track's own norms, loaded alone, have the sums of its windows.         *)
LEMMA LoadedNorms ==
  ASSUME FiniteDoubles, db \in Databases, query \in Queries, NEW t \in 0 .. NumFiles - 1,
         NEW b \in Nat, b + query.seqlen <= TrackLength(t)
  PROVE  TrackPointers(t).l2norm[b + 1] = TrackNorm(t, b)
<1>1. PICK c \in Nat \ {0}, d \in Nat \ {0} : c = query.seqlen /\ d = db.dim
  BY QueryTypes, Tables
<1>2. PICK f \in Nat, l \in Nat, v \in Nat :
        f = FirstVector(t) /\ l = TrackLength(t) /\ v = VectorStart[NumFiles] /\ f + l <= v
  BY TrackPlace
<1>3. PICK r \in Seq(Int) : r = TrackDoubles(t) /\ Len(r) = l * d
  <2>1. PICK N \in Nat : N = NumFiles
    BY Tables
  <2>2. t \in 0 .. N /\ t \in 0 .. N - 1
    BY <2>1
  <2>3. PICK o \in Nat : o = TrackOffset(t) /\ o = Where[t]
    BY <2>1, <2>2, Tables
  <2>4. PICK z \in Nat : z = l * d
    OBVIOUS
  <2>5. o + z <= Len(db.data)
    <3>1. Where[t + 1] = Where[t] + TrackLength(t) * db.dim /\ Where[t + 1] <= Len(db.data)
      BY Tables
    <3> QED BY ONLY <1>1, <1>2, <2>3, <2>4, <3>1
  <2>6. PICK s \in Seq(Int) : s = db.data
    BY DEF FiniteDoubles
  <2>7. SubSeq(s, o + 1, o + z) \in Seq(Int) /\ Len(SubSeq(s, o + 1, o + z)) = z
    BY <2>5, <2>6, CutOut
  <2>8. TrackDoubles(t) = SubSeq(s, o + 1, o + z)
    BY ONLY <1>1, <1>2, <2>3, <2>4, <2>6 DEF TrackDoubles
  <2> QED BY ONLY <2>4, <2>7, <2>8
<1>4. l * d <= Len(r)
  <2>1. PICK z \in Nat : z = l * d
    OBVIOUS
  <2> QED BY <1>3, <2>1
<1>5. L2norms(r, l) \in Seq(Int) /\ Len(L2norms(r, l)) = l
  <2>1. db.dim \in Nat \ {0} /\ l * db.dim <= Len(r)
    BY <1>1, <1>4
  <2> QED BY ONLY <1>2, <1>3, <2>1, NormsFinite
<1>6. PICK s \in Seq(Summable) : s = L2norms(r, l) /\ Len(s) = l
  <2>1. PICK s \in Seq(Int) : s = L2norms(r, l) /\ Len(s) = l
    BY ONLY <1>5
  <2>2. Int \subseteq Summable
    BY DEF Summable
  <2>3. s \in Seq(Summable)
    BY ONLY <2>1, <2>2
  <2>4. L2norms(r, l) \in Seq(Summable) /\ Len(L2norms(r, l)) = l
    BY ONLY <2>1, <2>3
  <2> QED BY ONLY <2>4, Zenon
<1>7. b + c <= l /\ b + 1 \in 1 .. l - c + 1
  <2>1. b + c <= l
    BY ONLY <1>1, <1>2, b + query.seqlen <= TrackLength(t)
  <2> QED BY ONLY <2>1, b \in Nat, c \in Nat, l \in Nat
<1>8. SequenceSum(s, c)[b + 1] = WindowSum(s, b + 1, c)
  <2>1. PICK i \in 1 .. Len(s) - c + 1 : i = b + 1
    BY <1>6, <1>7
  <2>2. SequenceSum(s, c)[i] = WindowSum(s, i, c)
    BY SequencesSummed
  <2> QED BY <2>1, <2>2
<1>9. TrackPointers(t).l2norm = SequenceSum(s, c)
  BY <1>1, <1>2, <1>3, <1>6 DEF TrackPointers
<1>10. PICK g : g = WindowNorms(r, b, c)
  OBVIOUS
<1>11. SumOf(g) = WindowSum(L2norms(r, l), b + 1, c)
  <2>1. db.dim \in Nat \ {0} /\ l * db.dim <= Len(r)
    BY <1>1, <1>4
  <2> QED BY <1>7, <1>10, <2>1, NormOfWindow
<1>12. TrackNorm(t, b) = SumOf(g)
  <2>1. \A w \in 1 .. c : VectorAt(r, b + (w - 1)) = VectorAt(db.data, f + (b + (w - 1)))
    <3> SUFFICES ASSUME NEW w \in 1 .. c
                 PROVE  VectorAt(r, b + (w - 1)) = VectorAt(db.data, f + (b + (w - 1)))
      OBVIOUS
    <3>1. PICK i \in Nat : i = b + (w - 1) /\ i < l
      BY <1>7
    <3>2. VectorAt(TrackDoubles(t), i) = VectorAt(db.data, FirstVector(t) + i)
      BY <1>2, <3>1, VectorsOfTrack
    <3> QED BY ONLY <1>2, <1>3, <3>1, <3>2
  <2>2. g = [w \in 1 .. c |-> DotProduct(VectorAt(db.data, f + (b + (w - 1))), VectorAt(db.data, f + (b + (w - 1))))]
    BY ONLY <1>10, <2>1 DEF WindowNorms
  <2> QED
    BY ONLY <1>1, <1>2, <2>2 DEF TrackNorm, OverWindow, TrackVector
<1> QED
  BY ONLY <1>6, <1>8, <1>9, <1>11, <1>12

(* Every number an index may have leads to a track, and to a place after    *)
(* its first vector: past the last track it is a place behind that track.   *)
LEMMA NumberedPlace ==
  ASSUME db \in Databases, NumFiles # 0, NEW id \in Nat
  PROVE  /\ TrackId(id) \in 0 .. NumFiles - 1 /\ TrackPos(id) \in Nat
         /\ FirstVector(TrackId(id)) + TrackPos(id) = id
<1>1. PICK n \in Nat \ {0} : n = NumFiles
  BY Tables
<1>2. PICK h : h = StartOf /\ \A u \in 0 .. n - 1 : h[u] = FirstVector(u) /\ h[u] \in Nat
  <2>1. \A u \in 0 .. n - 1 : StartOf[u] = FirstVector(u)
    BY <1>1 DEF StartOf
  <2>2. \A u \in 0 .. n - 1 : FirstVector(u) \in Nat
    BY <1>1, TrackPlace
  <2> QED BY <2>1, <2>2
<1>3. h[0] = 0
  <2>1. VectorStart[0] = 0
    BY VectorStarts DEF Accumulates
  <2>2. 0 \in 0 .. n - 1
    BY <1>1
  <2> QED BY <1>1, <1>2, <2>1, <2>2, VectorStarts
<1>4. \E t \in 0 .. n - 1 : h[t] <= id /\ \A u \in t + 1 .. n - 1 : h[u] > id
  <2>1. PICK T : T = {m \in Nat : m <= n - 1 /\ h[n - 1 - m] <= id}
    OBVIOUS
  <2>2. T \in SUBSET Nat /\ n - 1 \in T
    <3>1. n - 1 \in Nat /\ n - 1 - (n - 1) = 0
      BY <1>1
    <3> QED BY <1>3, <2>1, <3>1
  <2>3. PICK m \in T : \A i \in T : m <= i
    BY <2>2, LeastNatural
  <2>4. PICK t \in 0 .. n - 1 : t = n - 1 - m /\ h[t] <= id
    BY <2>1
  <2>5. ASSUME NEW u \in t + 1 .. n - 1 PROVE h[u] > id
    <3>1. PICK i \in Nat : i = n - 1 - u /\ i <= n - 1 /\ n - 1 - i = u /\ i < m
      BY <2>1, <2>4
    <3>2. i \notin T
      BY <2>2, <2>3, <3>1
    <3>3. ~ (h[u] <= id)
      BY <2>1, <3>1, <3>2
    <3>4. h[u] \in Nat
      BY <1>2
    <3> QED BY <3>3, <3>4
  <2> QED BY <2>4, <2>5
<1>5. TrackId(id) = CHOOSE t \in 0 .. n - 1 : h[t] <= id /\ \A u \in t + 1 .. n - 1 : h[u] > id
  BY <1>1, <1>2 DEF TrackId, IndexToTrackId
<1>6. PICK t \in 0 .. n - 1 : t = TrackId(id) /\ h[t] <= id
  BY <1>4, <1>5
<1>7. TrackPos(id) = id - h[t]
  BY <1>2, <1>6 DEF TrackPos, IndexToTrackPos
<1>8. PICK v \in Nat : v = h[t] /\ v = FirstVector(t) /\ v <= id
  BY <1>2, <1>6
<1> QED BY <1>1, <1>6, <1>7, <1>8

(* The numbers of an index are numbers.                                     *)
LEMMA Numbered ==
  ASSUME Known(lsh), NEW id \in Ids(lsh)
  PROVE  id \in Nat
<1>1. PICK c : c \in Seq(Nat) /\ c = lsh.covers
  BY DEF Known
<1>2. PICK m \in Nat : m = Len(c)
  BY <1>1
<1>3. PICK sc : sc = [t \in 0 .. m - 1 |-> c[t + 1]]
  OBVIOUS
<1>4. \A t \in 0 .. m - 1 : sc[t] \in Nat
  <2>1. \A t \in 0 .. m - 1 : t + 1 \in 1 .. m
    OBVIOUS
  <2> QED BY <1>1, <1>2, <1>3, <2>1
<1>5. PICK f : f = Starts(m, sc) /\ Accumulates(f, m, sc)
  BY <1>4, StartsAccumulate
<1>6. Starts(Len(lsh.covers), [u \in 0 .. Len(lsh.covers) - 1 |-> lsh.covers[u + 1]]) = f
  BY ONLY <1>1, <1>2, <1>3, <1>5
<1>7. \E o \in 0 .. Len(lsh.covers) - 1 : \E p \in 0 .. lsh.covers[o + 1] - lsh.name[2] :
        id = IndexFromTrackInfo(Starts(Len(lsh.covers), [u \in 0 .. Len(lsh.covers) - 1 |-> lsh.covers[u + 1]]), o, p)
  <2>1. id \in UNION {{IndexFromTrackInfo(Starts(Len(lsh.covers), [u \in 0 .. Len(lsh.covers) - 1 |-> lsh.covers[u + 1]]), i, p) :
                        p \in 0 .. lsh.covers[i + 1] - lsh.name[2]} : i \in 0 .. Len(lsh.covers) - 1}
    BY DEF Ids
  <2> QED BY ONLY <2>1
<1>8. PICK o \in 0 .. m - 1 : \E p \in 0 .. lsh.covers[o + 1] - lsh.name[2] : id = f[o] + p
  BY ONLY <1>1, <1>2, <1>6, <1>7 DEF IndexFromTrackInfo
<1>9. PICK v \in Nat : v = f[o]
  BY <1>5 DEF Accumulates
<1>10. PICK p : p \in Nat /\ id = v + p
  BY <1>8, <1>9
<1> QED BY <1>10

-----------------------------------------------------------------------------
(* What is evaluated of the places an index reported.                       *)
PairOf(x) == [trackID |-> TrackId(x[2]), qpos |-> ReportedQpos(x[1]), spos |-> TrackPos(x[2])]

Reported == {PairOf(x) : x \in {y \in found : Key(TrackId(y[2])) \in allowed}}

IsHitPair(p) == IsHit(p.trackID, QueuePosition(p), p.spos)
HitPair(p)   == HitAt(p.trackID, QueuePosition(p), p.spos)

FreshPlaces == Cardinality(Earlier) + 1 .. Len(offered)

(* A handle that knows no track has none for the numbers of an index:       *)
(* keys[(uint32_t) -1] is read (audioDB-internals.h:372).                   *)
TracksThere == \A d \in Databases : d.lengths # <<>>

LEMMA SomeTracks ==
  ASSUME TracksThere, db \in Databases
  PROVE  NumFiles # 0
<1>1. db.lengths \in Seq(Nat) /\ NumFiles = Len(db.lengths) /\ db.lengths # <<>>
  BY DatabasesAssumption DEF TracksThere, NumFiles
<1> QED BY <1>1

(* A pair reported is a window of an allowed track, or a place behind it.   *)
LEMMA PairReported ==
  ASSUME TracksThere, db \in Databases, query \in Queries, NEW x \in Nat \X Nat
  PROVE  /\ PairOf(x) \in Pairs /\ PairOf(x).trackID \in 0 .. NumFiles - 1
         /\ QueuePosition(PairOf(x)) \in Nat
         /\ FirstVector(PairOf(x).trackID) + PairOf(x).spos = x[2]
         /\ HitPair(PairOf(x)).qpos = PairOf(x).qpos
         /\ HitPair(PairOf(x)).ikey = Key(PairOf(x).trackID)
         /\ HitPair(PairOf(x)).ipos = PairOf(x).spos
         /\ PairOf(x).qpos = ReportedQpos(x[1])
<1>1. PICK a \in Nat, id \in Nat : a = x[1] /\ id = x[2]
  OBVIOUS
<1>2. /\ TrackId(id) \in 0 .. NumFiles - 1 /\ TrackPos(id) \in Nat
      /\ FirstVector(TrackId(id)) + TrackPos(id) = id
  BY SomeTracks, NumberedPlace
<1>3. ReportedQpos(a) \in Nat
  BY QueryTypes DEF ReportedQpos
<1>4. PICK p : p = PairOf(x)
  OBVIOUS
<1>5. p.trackID = TrackId(id) /\ p.qpos = ReportedQpos(a) /\ p.spos = TrackPos(id) /\ p \in Pairs
  <2>1. TrackId(id) \in Nat
    BY <1>2, Tables
  <2> QED BY <1>1, <1>2, <1>3, <1>4, <2>1 DEF PairOf, Pairs
<1>6. QueuePosition(p) \in Nat /\ (Exhaustive => QueuePosition(p) = p.qpos) /\ (~ Exhaustive => p.qpos = query.start)
  BY <1>3, <1>5 DEF QueuePosition, ReportedQpos
<1>7. /\ HitPair(p).qpos = p.qpos /\ HitPair(p).ikey = Key(p.trackID) /\ HitPair(p).ipos = p.spos
  BY <1>6 DEF HitPair, HitAt
<1> QED BY <1>1, <1>2, <1>4, <1>5, <1>6, <1>7

(* Two pairs that one triple names are at one place.                        *)
LEMMA OnePlace ==
  ASSUME TracksThere, db \in Databases, query \in Queries, NEW x \in Nat \X Nat, NEW y \in Nat \X Nat,
         Triple(HitPair(PairOf(x))) = Triple(HitPair(PairOf(y)))
  PROVE  PairOf(x) = PairOf(y)
<1>1. PICK p, q : p = PairOf(x) /\ q = PairOf(y)
  OBVIOUS
<1>2. /\ p \in Pairs /\ q \in Pairs /\ p.trackID \in 0 .. NumFiles - 1 /\ q.trackID \in 0 .. NumFiles - 1
      /\ HitPair(p).qpos = p.qpos /\ HitPair(p).ikey = Key(p.trackID) /\ HitPair(p).ipos = p.spos
      /\ HitPair(q).qpos = q.qpos /\ HitPair(q).ikey = Key(q.trackID) /\ HitPair(q).ipos = q.spos
  BY <1>1, PairReported
<1>3. p.qpos = q.qpos /\ Key(p.trackID) = Key(q.trackID) /\ p.spos = q.spos
  BY <1>1, <1>2 DEF Triple
<1>4. p.trackID = q.trackID
  BY <1>2, <1>3, KeysDistinct
<1> QED BY <1>1, <1>2, <1>3, <1>4 DEF Pairs

(* The parts of a call that look into the index for the query's windows.    *)
Answering == lsh # NoLsh /\ pc \in {"retrieve", "evaluate", "points", "done"}

Asked == Answering => qpointers = QueryPointers /\ ~ QueryUnknown /\ ~ QueryTooLong

(* Windows and numbers are reported, by an index.                           *)
FoundTyped ==
  found \subseteq Nat \X Nat /\ (lsh = NoLsh => found = {} /\ queue = EmptyBag)

(* The queue holds nothing but what was reported, each as often as a number *)
(* says.                                                                    *)
QueueReported ==
  /\ queue = [p \in DOMAIN queue |-> queue[p]] /\ IsFiniteSet(DOMAIN queue)
  /\ DOMAIN queue \subseteq Reported
  /\ \A p \in DOMAIN queue : queue[p] \in Nat \ {0}

(* A track that was loaded for the queue is there whole, with its own sums. *)
TrackLoaded ==
  pc = "evaluate" /\ track \in 0 .. NumFiles - 1 =>
    /\ buffer = TrackDoubles(track) /\ dbpointers = TrackPointers(track)
    /\ query.seqlen <= TrackLength(track)

(* Every point added by the index is a reported hit, what is remembered of  *)
(* it is that it was added, and every reported hit waits or was added.      *)
FoundEvaluated ==
  AsExhaustive =>
    /\ \A m \in FreshPlaces : \E p \in Reported : IsHitPair(p) /\ offered[m] = HitPair(p)
    /\ \A s \in seen : \E m \in FreshPlaces : s = Triple(offered[m])
    /\ \A p \in Reported : IsHitPair(p) =>
         p \in DOMAIN queue \/ \E m \in FreshPlaces : offered[m] = HitPair(p)

(* The invariant: of the queue, of what was loaded, and of what was added.  *)
FoundInv ==
  /\ AddInv /\ SoundInv
  /\ Asked /\ FoundTyped /\ QueueReported /\ TrackLoaded /\ FoundEvaluated

(* The top of such a queue is one of its pairs.                             *)
LEMMA TopReported ==
  ASSUME TracksThere, db \in Databases, query \in Queries, found \subseteq Nat \X Nat,
         QueueReported, queue # EmptyBag
  PROVE  TopPair \in DOMAIN queue /\ TopPair \in Reported
<1>1. DOMAIN queue \subseteq Pairs
  <2>1. \A x \in found : PairOf(x) \in Pairs
    BY PairReported
  <2> QED BY <2>1 DEF QueueReported, Reported
<1>2. TopPair \in DOMAIN queue
  BY <1>1, TopOfQueue DEF QueueReported
<1> QED BY <1>2 DEF QueueReported

LEMMA SameFinds ==
  ASSUME UNCHANGED <<db, query, allowed>>, "duration" \notin query.flags
  PROVE  \A p : HitPair(p)' = HitPair(p) /\ (IsHitPair(p)' <=> IsHitPair(p))
<1>1. \A t, a, b : HitAt(t, a, b)' = HitAt(t, a, b) /\ (IsHit(t, a, b)' <=> IsHit(t, a, b))
  BY SameHits
<1>2. \A p : QueuePosition(p)' = QueuePosition(p)
  BY DEF QueuePosition, Exhaustive
<1> QED
  BY ONLY <1>1, <1>2 DEF HitPair, IsHitPair

LEMMA SameReports ==
  ASSUME UNCHANGED <<db, query, allowed>>
  PROVE  /\ \A x : PairOf(x)' = PairOf(x)
         /\ \A t : Key(t)' = Key(t)
         /\ \A x : TrackId(x)' = TrackId(x)
         /\ UNCHANGED found => Reported' = Reported
<1>1. db' = db /\ query' = query /\ allowed' = allowed
  OBVIOUS
<1>2. NumFiles' = NumFiles /\ (Exhaustive' <=> Exhaustive) /\ StartOf' = StartOf /\ \A t : Key(t)' = Key(t)
  BY <1>1 DEF NumFiles, Exhaustive, StartOf, FirstVector, TrackOffset, Key
<1>3. \A x : TrackId(x)' = TrackId(x) /\ TrackPos(x)' = TrackPos(x)
  BY <1>2 DEF TrackId, TrackPos
<1>4. \A a : ReportedQpos(a)' = ReportedQpos(a)
  BY <1>1, <1>2 DEF ReportedQpos
<1>5. \A x : PairOf(x)' = PairOf(x)
  BY <1>3, <1>4 DEF PairOf
<1>6. UNCHANGED found => Reported' = Reported
  BY <1>1, <1>2, <1>3, <1>5 DEF Reported
<1> QED BY <1>2, <1>3, <1>5, <1>6

(* The distance of a pair on the queue is that of its windows.              *)
LEMMA QueueDistanceIsTrue ==
  ASSUME FiniteDoubles, db \in Databases, query \in Queries, ~ QueryUnknown, ~ QueryTooLong,
         query.distance \in {"euclidean", "euclidean_normed"}, UsesPower => db.hasPower,
         track \in 0 .. NumFiles - 1, qpointers = QueryPointers,
         buffer = TrackDoubles(track), dbpointers = TrackPointers(track),
         NEW a \in Nat, NEW b \in Nat,
         a + query.seqlen <= QueryCount, b + query.seqlen <= TrackLength(track)
  PROVE  QueueDistance(a, b) = LoopDistance(track, a, b)
<1>2. PICK c \in Nat \ {0}, e \in Nat, n \in Nat, m \in Nat :
        c = query.seqlen /\ e = QueryFirst /\ n = QueryDatum.n /\ m = QueryCount
  BY QueryTypes, DatumTypes, QueryPlace
<1>3. PICK f \in Nat, l \in Nat : f = FirstVector(track) /\ l = TrackLength(track)
  BY TrackPlace
<1>4. e + m <= n /\ a + c <= m /\ b + c <= l
  BY <1>2, <1>3, QueryPlace
<1>5. qpointers.l2norm[e + a + 1] = QueryNorm(a)
  <2>1. PICK i \in 1 .. n - c + 1 : i = e + a + 1
    BY <1>4
  <2>2. QueryPointers.l2norm[0 + i] = WindowSum(L2norms(QueryDatum.doubles, n), 0 + i, c)
    BY <1>2, <2>1, PointersSummed DEF SummedBy
  <2>3. QueryNorm(a) = WindowSum(L2norms(QueryDatum.doubles, n), e + a + 1, c)
    BY <1>2, TrueNorms
  <2>4. 0 + i = i
    OBVIOUS
  <2> QED
    BY <2>1, <2>2, <2>3, <2>4
<1>6. dbpointers.l2norm[b + 1] = TrackNorm(track, b)
  BY LoadedNorms
<1>7. VectorSum(LAMBDA w : DotProduct(VectorAt(QueryDatum.doubles, QueryFirst + a + w), VectorAt(buffer, b + w)))
        = Product(track, a, b)
  <2>1. VectorSum(LAMBDA w : DotProduct(VectorAt(QueryDatum.doubles, QueryFirst + a + w), VectorAt(buffer, b + w)))
          = SumOf([w \in 1 .. c |-> DotProduct(VectorAt(QueryDatum.doubles, e + a + (w - 1)),
                                               VectorAt(buffer, b + (w - 1)))])
    BY ONLY <1>2 DEF VectorSum
  <2>2. \A w \in 1 .. c : VectorAt(buffer, b + (w - 1)) = VectorAt(db.data, f + (b + (w - 1)))
    <3> SUFFICES ASSUME NEW w \in 1 .. c
                 PROVE  VectorAt(buffer, b + (w - 1)) = VectorAt(db.data, f + (b + (w - 1)))
      OBVIOUS
    <3>1. PICK i \in Nat : i = b + (w - 1) /\ i < l
      BY <1>4
    <3>2. VectorAt(TrackDoubles(track), i) = VectorAt(db.data, FirstVector(track) + i)
      BY <1>3, <3>1, VectorsOfTrack
    <3> QED
      BY ONLY <1>3, <3>1, <3>2, buffer = TrackDoubles(track)
  <2>3. \A w \in 1 .. c : e + a + (w - 1) = e + (a + (w - 1))
    OBVIOUS
  <2>4. \A w \in 1 .. c : DotProduct(VectorAt(QueryDatum.doubles, e + a + (w - 1)), VectorAt(buffer, b + (w - 1)))
           = Cell(VectorAt(QueryDatum.doubles, e + (a + (w - 1))), VectorAt(db.data, f + (b + (w - 1))))
    <3>1. query.distance # "kullback_leibler"
      OBVIOUS
    <3> QED BY ONLY <2>2, <2>3, <3>1 DEF Cell
  <2>5. VectorSum(LAMBDA w : DotProduct(VectorAt(QueryDatum.doubles, QueryFirst + a + w), VectorAt(buffer, b + w)))
          = SumOf([w \in 1 .. c |-> Cell(VectorAt(QueryDatum.doubles, e + (a + (w - 1))),
                                         VectorAt(db.data, f + (b + (w - 1))))])
    BY ONLY <2>1, <2>4
  <2> QED
    BY ONLY <1>2, <1>3, <2>5 DEF Product, OverWindow, QueryVector, TrackVector
<1>8. QueueDistance(a, b) = Distance(Product(track, a, b), qpointers.l2norm[e + a + 1], dbpointers.l2norm[b + 1])
  <2>1. query.distance # "dot_product" /\ query.distance # "kullback_leibler"
    OBVIOUS
  <2>2. QueueDistance(a, b)
          = Distance(VectorSum(LAMBDA w : DotProduct(VectorAt(QueryDatum.doubles, QueryFirst + a + w),
                                                     VectorAt(buffer, b + w))),
                     qpointers.l2norm[QueryFirst + a + 1], dbpointers.l2norm[b + 1])
    BY ONLY <2>1 DEF QueueDistance
  <2> QED BY ONLY <1>2, <1>7, <2>2
<1> QED
  BY ONLY <1>5, <1>6, <1>8 DEF LoopDistance, QueryNorm, TrackNorm, Product

(* The powers of a pair on the queue are those of its windows.              *)
LEMMA QueuePowersAreTrue ==
  ASSUME FiniteDoubles, db \in Databases, query \in Queries, ~ QueryUnknown, ~ QueryTooLong,
         UsesPower, db.hasPower,
         track \in 0 .. NumFiles - 1, qpointers = QueryPointers, dbpointers = TrackPointers(track),
         NEW a \in Nat, NEW b \in Nat,
         a + query.seqlen <= QueryCount, b + query.seqlen <= TrackLength(track)
  PROVE  /\ QueuePowersMatch(a, b) <=> TruePowersAcceptable(track, a, b)
         /\ ~ BehindPowers(b)
<1>2. PICK c \in Nat \ {0}, e \in Nat, n \in Nat, m \in Nat :
        c = query.seqlen /\ e = QueryFirst /\ n = QueryDatum.n /\ m = QueryCount
  BY QueryTypes, DatumTypes, QueryPlace
<1>3. PICK f \in Nat, l \in Nat, v \in Nat :
        f = FirstVector(track) /\ l = TrackLength(track) /\ v = VectorStart[NumFiles] /\ f + l <= v
  BY TrackPlace
<1>4. PICK r \in Seq(Summable) : r = QueryDatum.power /\ Len(r) = n
  BY <1>2, PowersThere
<1>5. PICK s \in Seq(Summable) : s = db.power /\ Len(s) = v
  BY <1>3, WholeTables DEF FiniteDoubles
<1>6. PICK x \in Nat, y \in Nat : x = e + a /\ y = f + b /\ x + c <= n /\ y + c <= v /\ b + c <= l
  <2>1. e + m <= n /\ a + c <= m
    BY <1>2, QueryPlace
  <2>2. f + l <= v /\ b + c <= l
    BY <1>2, <1>3
  <2>3. PICK x \in Nat : x = e + a
    OBVIOUS
  <2>4. PICK y \in Nat : y = f + b
    OBVIOUS
  <2>5. x + c <= n
    BY <2>1, <2>3
  <2>6. y + c <= v
    BY <2>2, <2>4
  <2> QED
    BY ONLY <2>2, <2>3, <2>4, <2>5, <2>6
<1>7. SumOf([w \in 1 .. c |-> r[x + (w - 1) + 1]]) = WindowSum(r, x + 1, c)
  <2>1. x + c <= Len(r)
    BY <1>4, <1>6
  <2> QED BY <2>1, PowersOfWindow
<1>8. SumOf([w \in 1 .. c |-> s[y + (w - 1) + 1]]) = WindowSum(s, y + 1, c)
  <2>1. y + c <= Len(s)
    BY <1>5, <1>6
  <2> QED BY <2>1, PowersOfWindow
<1>9. qpointers.power[e + a + 1] = WindowSum(r, x + 1, c)
  <2>1. QueryPointers.power # <<>>
    BY PowersThere
  <2>2. PICK i \in 1 .. n - c + 1 : i = e + a + 1 /\ 0 + i = x + 1 /\ 0 + i = i
    BY <1>6
  <2>3. QueryPointers.power[0 + i] = WindowSum(r, 0 + i, c)
    BY <1>2, <1>4, <2>1, <2>2, PointersSummed DEF SummedBy
  <2> QED
    BY <2>2, <2>3
<1>10. dbpointers.power = SumsOf(s, track)
  <2>1. ~ (l < c) /\ l >= c
    BY <1>6
  <2>2. dbpointers.power = SequenceSum(SubSeq(s, f + 1, f + l), c)
    BY ONLY <1>2, <1>3, <1>5, db.hasPower, dbpointers = TrackPointers(track) DEF TrackPointers
  <2>3. SumsOf(s, track) = SequenceSum(SubSeq(s, f + 1, f + l), c)
    BY ONLY <1>2, <1>3, <2>1 DEF SumsOf, PartOf
  <2> QED BY ONLY <2>2, <2>3
<1>11. dbpointers.power[b + 1] = WindowSum(s, y + 1, c) /\ Len(dbpointers.power) = l
  <2>1. PICK i \in 1 .. l - c + 1 : i = b + 1 /\ f + i = y + 1
    BY <1>6
  <2>2. SumsOf(s, track)[i] = WindowSum(s, f + i, c) /\ Len(SumsOf(s, track)) = l
    BY <1>2, <1>3, <1>5, <2>1, SumsOfTrack
  <2> QED BY ONLY <1>10, <2>1, <2>2
<1>12. ~ BehindPowers(b)
  <2>1. ~ (b + 1 > l)
    BY <1>6
  <2> QED BY <1>11, <2>1 DEF BehindPowers
<1>13. QueuePowersMatch(a, b)
         <=> PowersAcceptable(WindowSum(r, x + 1, c), WindowSum(s, y + 1, c))
  BY ONLY <1>2, <1>9, <1>11, UsesPower DEF QueuePowersMatch
<1>14. TruePowersAcceptable(track, a, b)
         <=> PowersAcceptable(WindowSum(r, x + 1, c), WindowSum(s, y + 1, c))
  BY ONLY <1>2, <1>3, <1>4, <1>5, <1>6, <1>7, <1>8, UsesPower DEF TruePowersAcceptable, OverWindow
<1> QED
  BY <1>12, <1>13, <1>14

(* A pair passes the tests of the queue exactly when its windows are a hit. *)
LEMMA EvaluatedIsHit ==
  ASSUME FiniteDoubles, db \in Databases, query \in Queries, ~ QueryUnknown, ~ QueryTooLong,
         AsExhaustive,
         track \in 0 .. NumFiles - 1, Key(track) \in allowed, qpointers = QueryPointers,
         buffer = TrackDoubles(track), dbpointers = TrackPointers(track),
         NEW a \in Nat, NEW b \in Nat
  PROVE  /\ IsHit(track, a, b) <=> /\ ~ BehindPowers(b) /\ QueuePowersMatch(a, b) /\ InsideTrack(a, b)
                                   /\ Within(QueueDistance(a, b), Radius)
         /\ IsHit(track, a, b) => QueueDistance(a, b) = LoopDistance(track, a, b)
<1>1. /\ query.distance \in {"euclidean", "euclidean_normed"} /\ (UsesPower => db.hasPower)
      /\ "hop" \notin query.flags /\ "duration" \notin query.flags
  BY DEF AsExhaustive, MissingTables
<1>2. PICK c \in Nat \ {0}, m \in Nat, l \in Nat :
        c = query.seqlen /\ m = QueryCount /\ l = TrackLength(track)
  BY QueryTypes, QueryPlace, TrackPlace
<1>3. DurationMatches(track)
  BY <1>1 DEF DurationMatches
<1>4. /\ a \in Starting(QueryCount, query.qhop) <=> a + c <= m
      /\ b \in Starting(TrackLength(track), query.ihop) <=> b + c <= l
  <2>1. Hop(query.qhop) = 1 /\ Hop(query.ihop) = 1
    BY <1>1 DEF Hop
  <2>2. ASSUME NEW i \in Nat, NEW hop, Hop(hop) = 1
        PROVE  OnHop(i, hop)
    <3>1. i \in 0 .. i /\ i = i * 1
      OBVIOUS
    <3> QED BY <2>2, <3>1 DEF OnHop
  <2>3. OnHop(a, query.qhop) /\ OnHop(b, query.ihop)
    BY <2>1, <2>2
  <2>4. (a + c <= m => a \in 0 .. m) /\ (b + c <= l => b \in 0 .. l)
    OBVIOUS
  <2> QED BY ONLY <1>2, <2>3, <2>4 DEF Starting
<1>5. InsideTrack(a, b) <=> a + c <= m /\ b + c <= l
  <2>1. LastWindow(QueryCount) = m - c /\ LastWindow(TrackLength(track)) = l - c
    BY <1>2 DEF LastWindow
  <2>2. (a <= m - c <=> a + c <= m) /\ (b <= l - c <=> b + c <= l)
    OBVIOUS
  <2> QED BY ONLY <2>1, <2>2 DEF InsideTrack
<1>6. CASE ~ (a + c <= m /\ b + c <= l)
  BY <1>4, <1>5, <1>6 DEF IsHit
<1>7. CASE a + c <= m /\ b + c <= l
  <2>1. a + query.seqlen <= QueryCount /\ b + query.seqlen <= TrackLength(track)
    BY <1>2, <1>7
  <2>2. QueueDistance(a, b) = LoopDistance(track, a, b)
    BY <1>1, <2>1, QueueDistanceIsTrue
  <2>3. (QueuePowersMatch(a, b) <=> TruePowersAcceptable(track, a, b)) /\ ~ BehindPowers(b)
    <3>1. CASE UsesPower
      BY <1>1, <2>1, <3>1, QueuePowersAreTrue
    <3>2. CASE ~ UsesPower
      BY <3>2 DEF QueuePowersMatch, TruePowersAcceptable, BehindPowers
    <3> QED BY <3>1, <3>2
  <2> QED BY ONLY <1>3, <1>4, <1>5, <1>7, <2>2, <2>3, track \in 0 .. NumFiles - 1, Key(track) \in allowed DEF IsHit
<1> QED BY <1>6, <1>7

(* What is loaded depends on the tables and the query.                      *)
LEMMA SameLoads ==
  ASSUME UNCHANGED <<db, query>>
  PROVE  /\ QueryPointers' = QueryPointers /\ (QueryUnknown' <=> QueryUnknown) /\ (QueryTooLong' <=> QueryTooLong)
         /\ NumFiles' = NumFiles
         /\ \A t : /\ TrackDoubles(t)' = TrackDoubles(t) /\ TrackPointers(t)' = TrackPointers(t)
                  /\ TrackLength(t)' = TrackLength(t)
<1>1. db' = db /\ query' = query
  OBVIOUS
<1>2. NumFiles' = NumFiles /\ \A t : Key(t)' = Key(t) /\ TrackLength(t)' = TrackLength(t)
  BY <1>1 DEF NumFiles, Key, TrackLength
<1>3. \A t : FirstVector(t)' = FirstVector(t) /\ TrackDoubles(t)' = TrackDoubles(t)
  BY <1>1 DEF FirstVector, TrackDoubles, TrackOffset, TrackLength
<1>4. QueryDatum' = QueryDatum
  BY <1>1 DEF QueryDatum, QueryTrack, FirstVector, TrackOffset, TrackLength, Key, NumFiles
<1>5. \A s, n : L2norms(s, n)' = L2norms(s, n)
  BY <1>1 DEF L2norms, DotProduct, SumOf, VectorAt
<1>6. QueryPointers' = QueryPointers
  BY ONLY <1>1, <1>4, <1>5 DEF QueryPointers, QueryDuration, SumOf
<1>7. (QueryUnknown' <=> QueryUnknown) /\ (QueryTooLong' <=> QueryTooLong)
  BY <1>1, <1>2, <1>4 DEF QueryUnknown, QueryTooLong
<1>8. \A t : TrackPointers(t)' = TrackPointers(t)
  BY ONLY <1>1, <1>2, <1>3, <1>5 DEF TrackPointers
<1> QED BY ONLY <1>2, <1>3, <1>6, <1>7, <1>8

(* Nothing of an index is known, or asked for, outside a query of one.      *)
LEMMA UnusedFound ==
  ASSUME lsh = NoLsh, found = {}, queue = EmptyBag, pc # "evaluate"
  PROVE  Asked /\ FoundTyped /\ QueueReported /\ TrackLoaded /\ FoundEvaluated
<1>1. QueueReported
  BY FS_EmptySet DEF QueueReported, EmptyBag, SetToBag
<1> QED
  BY <1>1 DEF Asked, Answering, FoundTyped, TrackLoaded, FoundEvaluated, AsExhaustive

(* What was evaluated still is, when no more is reported than waits.        *)
LEMMA EvaluatedKept ==
  ASSUME FoundEvaluated, UNCHANGED <<db, query, allowed, lsh>>,
         AsExhaustive =>
           /\ UNCHANGED <<seen, offered>>
           /\ Reported \subseteq Reported' /\ Reported' \ Reported \subseteq DOMAIN queue'
           /\ DOMAIN queue \subseteq DOMAIN queue'
  PROVE  FoundEvaluated'
<1> SUFFICES ASSUME AsExhaustive' PROVE FoundEvaluated'
  BY DEF FoundEvaluated
<1>1. AsExhaustive
  BY DEF AsExhaustive, Exact, MissingTables, UsesPower
<1>2. /\ seen' = seen /\ offered' = offered
      /\ Reported \subseteq Reported' /\ Reported' \ Reported \subseteq DOMAIN queue'
      /\ DOMAIN queue \subseteq DOMAIN queue'
  BY <1>1
<1>3. FreshPlaces' = FreshPlaces
  BY <1>2 DEF FreshPlaces, Earlier
<1>4. \A p : HitPair(p)' = HitPair(p) /\ (IsHitPair(p)' <=> IsHitPair(p))
  BY <1>1, SameFinds DEF AsExhaustive
<1>5. /\ \A m \in FreshPlaces : \E p \in Reported : IsHitPair(p) /\ offered[m] = HitPair(p)
      /\ \A s \in seen : \E m \in FreshPlaces : s = Triple(offered[m])
      /\ \A p \in Reported : IsHitPair(p) =>
           p \in DOMAIN queue \/ \E m \in FreshPlaces : offered[m] = HitPair(p)
  BY <1>1 DEF FoundEvaluated
<1>6. /\ \A m \in FreshPlaces' : \E p \in Reported' : IsHitPair(p)' /\ offered'[m] = HitPair(p)'
      /\ \A s \in seen' : \E m \in FreshPlaces' : s = Triple(offered'[m])
      /\ \A p \in Reported' : IsHitPair(p)' =>
           p \in DOMAIN queue' \/ \E m \in FreshPlaces' : offered'[m] = HitPair(p)'
  BY ONLY <1>2, <1>3, <1>4, <1>5
<1> QED
  BY ONLY <1>6 DEF FoundEvaluated, Triple

(* Steps that report nothing and add nothing.                               *)
LEMMA QuietFound ==
  ASSUME FoundInv, UNCHANGED <<db, query, allowed, lsh, found, queue, seen, offered>>,
         pc' \in {"retrieve", "evaluate", "points", "done"} =>
           \/ pc \in {"retrieve", "evaluate", "points", "done"} /\ qpointers' = qpointers
           \/ qpointers' = QueryPointers /\ ~ QueryUnknown /\ ~ QueryTooLong
  PROVE  Asked' /\ FoundTyped' /\ QueueReported' /\ FoundEvaluated'
<1>1. UNCHANGED <<db, query, allowed>> /\ UNCHANGED found
  OBVIOUS
<1>2. QueryPointers' = QueryPointers /\ (QueryUnknown' <=> QueryUnknown) /\ (QueryTooLong' <=> QueryTooLong)
  BY <1>1, SameLoads
<1>3. Asked'
  BY <1>2 DEF Asked, Answering, FoundInv
<1>4. FoundTyped'
  BY DEF FoundTyped, FoundInv
<1>5. Reported' = Reported
  BY <1>1, SameReports
<1>6. QueueReported'
  BY <1>5 DEF QueueReported, FoundInv
<1>7. FoundEvaluated'
  BY <1>5, EvaluatedKept DEF FoundInv
<1> QED
  BY <1>3, <1>4, <1>6, <1>7

(* Steps that load no track.                                                *)
LEMMA QuietTrack ==
  ASSUME FoundInv, UNCHANGED <<db, query>>,
         pc' = "evaluate" =>
           (pc = "evaluate" /\ UNCHANGED <<track, buffer, dbpointers>>) \/ track' \notin 0 .. NumFiles - 1
  PROVE  TrackLoaded'
<1>1. /\ NumFiles' = NumFiles
      /\ \A t : /\ TrackDoubles(t)' = TrackDoubles(t) /\ TrackPointers(t)' = TrackPointers(t)
               /\ TrackLength(t)' = TrackLength(t)
  BY SameLoads
<1> SUFFICES ASSUME pc' = "evaluate", track' \in 0 .. NumFiles - 1
             PROVE  /\ buffer' = TrackDoubles(track)' /\ dbpointers' = TrackPointers(track)'
                    /\ query'.seqlen <= TrackLength(track)'
  BY <1>1 DEF TrackLoaded
<1>2. pc = "evaluate" /\ track' = track /\ buffer' = buffer /\ dbpointers' = dbpointers /\ query' = query
  OBVIOUS
<1>3. buffer = TrackDoubles(track) /\ dbpointers = TrackPointers(track) /\ query.seqlen <= TrackLength(track)
  BY <1>2 DEF FoundInv, TrackLoaded
<1>4. /\ TrackDoubles(track)' = TrackDoubles(track) /\ TrackPointers(track)' = TrackPointers(track)
      /\ TrackLength(track)' = TrackLength(track)
  BY <1>2 DEF TrackDoubles, TrackPointers, TrackLength, TrackOffset, FirstVector, L2norms, DotProduct, VectorAt, SumOf
<1> QED BY ONLY <1>2, <1>3, <1>4

(* An index is opened with nothing reported.                                *)
LEMMA LoadIndexFound ==
  ASSUME FoundInv, LoadIndex
  PROVE  Asked' /\ FoundTyped' /\ QueueReported' /\ TrackLoaded' /\ FoundEvaluated'
<1>1. /\ pc = "allocate" /\ UNCHANGED <<db, query, allowed, found, queue, seen, offered>>
      /\ pc' \in {"dead", "shingles"}
  BY DEF LoadIndex, accVars
<1>2. /\ lsh = NoLsh /\ seen = {} /\ Len(offered) = Cardinality(Earlier) /\ found = {} /\ queue = EmptyBag
      /\ query \in Queries
  BY <1>1 DEF FoundInv, AddInv, FoundTyped
<1>3. QueueReported'
  BY <1>1, <1>2, FS_EmptySet DEF QueueReported, EmptyBag, SetToBag
<1>4. FoundEvaluated'
  <2>1. Cardinality(Earlier) \in Nat /\ Cardinality(Earlier)' = Cardinality(Earlier)
    BY <1>1, <1>2, NothingAdded, EarlierFinite
  <2>2. FreshPlaces' = {}
    <3>1. PICK e \in Nat : e = Cardinality(Earlier)
      BY <2>1
    <3>2. e + 1 .. e = {}
      OBVIOUS
    <3>3. Cardinality(Earlier)' = e /\ Len(offered)' = e
      BY <1>1, <1>2, <2>1, <3>1
    <3> QED BY ONLY <3>2, <3>3 DEF FreshPlaces
  <2>3. Reported' = {} /\ seen' = {}
    BY <1>1, <1>2 DEF Reported
  <2> QED
    BY ONLY <2>2, <2>3 DEF FoundEvaluated
<1> QED
  BY <1>1, <1>2, <1>3, <1>4 DEF Asked, Answering, FoundTyped, TrackLoaded

(* A track is loaded whole.                                                 *)
LEMMA LoadTrackFound ==
  ASSUME TracksThere, FoundInv, LoadTrack
  PROVE  Asked' /\ FoundTyped' /\ QueueReported' /\ TrackLoaded' /\ FoundEvaluated'
<1>1. /\ pc = "evaluate" /\ queue # EmptyBag /\ TopPair.trackID # track
      /\ UNCHANGED <<db, query, allowed, lsh, found, queue, seen, offered, qpointers>>
      /\ \/ pc' = "dead" /\ UNCHANGED <<track, buffer, dbpointers>>
         \/ /\ ~ TrackTooShort(TopPair.trackID) /\ pc' = pc /\ track' = TopPair.trackID
            /\ buffer' = TrackDoubles(TopPair.trackID) /\ dbpointers' = TrackPointers(TopPair.trackID)
  BY DEF LoadTrack, perCall, accVars
<1>2. /\ db \in Databases /\ query \in Queries /\ found \subseteq Nat \X Nat /\ QueueReported
      /\ Asked /\ FoundTyped /\ FoundEvaluated
  BY DEF FoundInv, SoundInv, FoundTyped
<1>3. PICK t : t = TopPair.trackID
  OBVIOUS
<1>4. t \in 0 .. NumFiles - 1
  <2>1. TopPair \in Reported
    BY <1>1, <1>2, TopReported
  <2>2. PICK x \in Nat \X Nat : TopPair = PairOf(x)
    BY <1>2, <2>1 DEF Reported
  <2> QED BY <1>2, <1>3, <2>2, PairReported
<1>5. TrackLoaded'
  <2> SUFFICES ASSUME pc' = "evaluate"
               PROVE  /\ buffer' = TrackDoubles(track)' /\ dbpointers' = TrackPointers(track)'
                      /\ query'.seqlen <= TrackLength(track)'
    BY DEF TrackLoaded
  <2>1. track' = t /\ buffer' = TrackDoubles(t) /\ dbpointers' = TrackPointers(t) /\ ~ TrackTooShort(t) /\ t # track
    BY <1>1, <1>3
  <2>2. TrackDoubles(track)' = TrackDoubles(t) /\ TrackPointers(track)' = TrackPointers(t) /\ TrackLength(track)' = TrackLength(t)
    BY <1>1, <2>1 DEF NumFiles, TrackDoubles, TrackPointers, TrackLength, TrackOffset, FirstVector, L2norms, DotProduct, VectorAt
  <2>3. query.seqlen <= TrackLength(t)
    <3>1. PICK w \in Nat, l \in Nat : w = query.seqlen /\ l = TrackLength(t)
      BY <1>2, <1>4, Tables, QueryTypes
    <3> QED BY <2>1, <3>1 DEF TrackTooShort
  <2> QED BY <1>1, <2>1, <2>2, <2>3
<1>6. Asked' /\ FoundTyped' /\ QueueReported' /\ FoundEvaluated'
  <2>1. CASE pc' = "dead"
    BY <1>1, <2>1, QuietFound
  <2>2. CASE pc' = pc
    BY <1>1, <2>2, QuietFound
  <2> QED BY <1>1, <2>1, <2>2
<1> QED
  BY <1>5, <1>6

(* A place that is reported.                                                *)
LEMMA ReportFound ==
  ASSUME TracksThere, FoundInv, Report, UNCHANGED <<db, query, allowed>>
  PROVE  Asked' /\ FoundTyped' /\ QueueReported' /\ TrackLoaded' /\ FoundEvaluated'
<1>1. pc = "retrieve" /\ UNCHANGED <<pc, lsh, j, qpointers>>
  BY DEF Report, pointers, loops
<1>2. PICK id \in Ids(lsh) :
        /\ found' = found \cup {<<j, id>>}
        /\ \/ Key(TrackId(id)) \notin allowed /\ UNCHANGED <<queue, seen, accVars>>
           \/ Key(TrackId(id)) \in allowed /\ Exact /\ AddExact(id) /\ UNCHANGED <<seen, accVars>>
           \/ Key(TrackId(id)) \in allowed /\ ~ Exact /\ UNCHANGED queue
  BY DEF Report
<1>3. /\ db \in Databases /\ query \in Queries /\ lsh # NoLsh /\ Known(lsh) /\ j \in Nat
      /\ FoundTyped /\ QueueReported /\ Asked /\ FoundEvaluated
  BY <1>1 DEF FoundInv, SoundInv, LshKnown
<1>4. PICK x \in Nat \X Nat : x = <<j, id>> /\ x[1] = j /\ x[2] = id
  <2>1. id \in Nat /\ j \in Nat
    BY <1>3, Numbered
  <2>2. <<j, id>> \in Nat \X Nat /\ <<j, id>>[1] = j /\ <<j, id>>[2] = id
    BY ONLY <2>1
  <2> QED BY ONLY <2>2, Zenon
<1>5. PICK p : p = PairOf(x) /\ p = [trackID |-> TrackId(id), qpos |-> ReportedQpos(j), spos |-> TrackPos(id)]
  BY <1>4 DEF PairOf
<1>6. Asked'
  <2>1. QueryPointers' = QueryPointers /\ (QueryUnknown' <=> QueryUnknown) /\ (QueryTooLong' <=> QueryTooLong)
    BY SameLoads
  <2> QED BY <1>1, <1>3, <2>1 DEF Asked, Answering
<1>7. FoundTyped' /\ TrackLoaded'
  BY <1>1, <1>2, <1>3, <1>4 DEF FoundTyped, TrackLoaded
<1>8. /\ \A y : PairOf(y)' = PairOf(y)
      /\ \A y : Key(TrackId(y))' = Key(TrackId(y))
  <2>1. /\ \A y : PairOf(y)' = PairOf(y)
        /\ \A t : Key(t)' = Key(t)
        /\ \A y : TrackId(y)' = TrackId(y)
    BY SameReports
  <2>2. \A y : Key(TrackId(y))' = Key(TrackId(y))
    BY <2>1 DEF Key
  <2> QED BY <2>1, <2>2
<1>9. Reported' = IF Key(TrackId(id)) \in allowed THEN Reported \cup {p} ELSE Reported
  <2>1. Reported' = {PairOf(y) : y \in {y \in found' : Key(TrackId(y[2])) \in allowed}}
    BY <1>8 DEF Reported
  <2>2. \A y : y \in found' <=> y \in found \/ y = x
    BY <1>2, <1>4
  <2>3. CASE Key(TrackId(id)) \in allowed
    <3>1. {y \in found' : Key(TrackId(y[2])) \in allowed} = {y \in found : Key(TrackId(y[2])) \in allowed} \cup {x}
      BY <1>4, <2>2, <2>3
    <3> QED BY <1>5, <2>1, <2>3, <3>1 DEF Reported
  <2>4. CASE Key(TrackId(id)) \notin allowed
    <3>1. {y \in found' : Key(TrackId(y[2])) \in allowed} = {y \in found : Key(TrackId(y[2])) \in allowed}
      BY <1>4, <2>2, <2>4
    <3> QED BY <2>1, <2>4, <3>1 DEF Reported
  <2> QED BY <2>3, <2>4
<1>10. Reported \subseteq Reported'
  BY <1>9
<1>11. CASE ~ (Key(TrackId(id)) \in allowed /\ Exact)
  <2>1. UNCHANGED queue
    BY <1>2, <1>11
  <2>2. QueueReported'
    BY <1>3, <1>10, <2>1 DEF QueueReported
  <2>3. FoundEvaluated'
    <3>1. AsExhaustive => UNCHANGED <<seen, offered>> /\ Reported' = Reported
      BY <1>2, <1>9, <1>11 DEF AsExhaustive, accVars
    <3> QED BY <1>1, <1>3, <2>1, <3>1, EvaluatedKept
  <2> QED BY <1>6, <1>7, <2>2, <2>3
<1>12. CASE Key(TrackId(id)) \in allowed /\ Exact
  <2>1. queue' = queue (+) SetToBag({p}) /\ UNCHANGED <<seen, accVars>>
    BY <1>2, <1>5, <1>12 DEF AddExact
  <2>2. Reported' = Reported \cup {p}
    BY <1>9, <1>12
  <2>3. /\ DOMAIN queue' = DOMAIN queue \cup {p} /\ queue' = [q \in DOMAIN queue' |-> queue'[q]]
        /\ \A q \in DOMAIN queue' : queue'[q] = (IF q \in DOMAIN queue THEN queue[q] ELSE 0) + (IF q = p THEN 1 ELSE 0)
    BY <2>1 DEF (+), SetToBag
  <2>4. QueueReported'
    <3>1. IsFiniteSet(DOMAIN queue')
      <4>1. PICK S : S = DOMAIN queue /\ IsFiniteSet(S)
        BY <1>3 DEF QueueReported
      <4>2. IsFiniteSet(S \cup {p})
        BY <4>1, FS_AddElement
      <4> QED BY <2>3, <4>1, <4>2
    <3>2. DOMAIN queue' \subseteq Reported'
      BY <1>3, <2>2, <2>3 DEF QueueReported
    <3>3. \A q \in DOMAIN queue' : queue'[q] \in Nat \ {0}
      <4> SUFFICES ASSUME NEW q \in DOMAIN queue' PROVE queue'[q] \in Nat \ {0}
        OBVIOUS
      <4>1. CASE q \in DOMAIN queue
        <5>1. PICK n \in Nat \ {0} : n = queue[q]
          BY <1>3, <4>1 DEF QueueReported
        <5>2. queue'[q] = n + (IF q = p THEN 1 ELSE 0)
          BY <2>3, <4>1, <5>1
        <5> QED BY <5>2
      <4>2. CASE q \notin DOMAIN queue
        <5>1. q = p
          BY <2>3, <4>2
        <5>2. queue'[q] = 0 + 1
          BY <2>3, <4>2, <5>1
        <5> QED BY <5>2
      <4> QED BY <4>1, <4>2
    <3> QED BY <2>3, <3>1, <3>2, <3>3 DEF QueueReported
  <2>5. FoundEvaluated'
    <3>1. UNCHANGED <<seen, offered>>
      BY <2>1 DEF accVars
    <3>2. Reported' \ Reported \subseteq DOMAIN queue' /\ DOMAIN queue \subseteq DOMAIN queue'
      BY <2>2, <2>3
    <3> QED BY <1>1, <1>3, <1>10, <3>1, <3>2, EvaluatedKept
  <2> QED BY <1>6, <1>7, <2>4, <2>5
<1> QED
  BY <1>11, <1>12

(* A pair that is evaluated leaves the queue; a hit is among what was added.*)
LEMMA PairEvaluated ==
  ASSUME FiniteDoubles, TracksThere, FoundInv, AsExhaustive, Evaluate
  PROVE  /\ FreshPlaces \subseteq FreshPlaces' /\ \A m \in FreshPlaces : offered'[m] = offered[m]
         /\ IsHitPair(TopPair) => \E m \in FreshPlaces' : offered'[m] = HitPair(TopPair)
         /\ \A m \in FreshPlaces' : m \notin FreshPlaces => IsHitPair(TopPair) /\ offered'[m] = HitPair(TopPair)
         /\ \A s \in seen' : s \in seen \/ \E m \in FreshPlaces' : s = Triple(offered'[m])
<1>1. /\ pc = "evaluate" /\ queue # EmptyBag /\ TopPair.trackID = track /\ query' = query
  BY DEF Evaluate
<1>2. /\ db \in Databases /\ query \in Queries /\ found \subseteq Nat \X Nat /\ QueueReported
      /\ lsh # NoLsh /\ TrackLoaded /\ Asked /\ FoundEvaluated /\ AddInv
  BY <1>1 DEF FoundInv, SoundInv, FoundTyped, LshKnown
<1>3. PICK x \in Nat \X Nat : x \in found /\ Key(TrackId(x[2])) \in allowed /\ TopPair = PairOf(x)
  <2>1. TopPair \in Reported
    BY <1>1, <1>2, TopReported
  <2> QED BY <1>2, <2>1 DEF Reported
<1>4. PICK p, a, b : p = TopPair /\ p = PairOf(x) /\ a = QueuePosition(p) /\ b = p.spos
  BY <1>3
<1>5. /\ p \in Pairs /\ p.trackID \in 0 .. NumFiles - 1 /\ a \in Nat /\ b \in Nat
      /\ HitPair(p).qpos = p.qpos /\ HitPair(p).ikey = Key(p.trackID) /\ HitPair(p).ipos = b
      /\ p.trackID = track /\ Key(track) \in allowed
  <2>1. p \in Pairs /\ p.trackID \in 0 .. NumFiles - 1 /\ QueuePosition(p) \in Nat
    BY <1>2, <1>4, PairReported
  <2>2. HitPair(p).qpos = p.qpos /\ HitPair(p).ikey = Key(p.trackID) /\ HitPair(p).ipos = p.spos
    BY <1>2, <1>4, PairReported
  <2>3. p.trackID = TrackId(x[2])
    BY <1>4 DEF PairOf
  <2> QED BY <1>1, <1>3, <1>4, <2>1, <2>2, <2>3 DEF Pairs
<1>6. /\ IsHit(track, a, b) <=> /\ ~ BehindPowers(b) /\ QueuePowersMatch(a, b) /\ InsideTrack(a, b)
                                /\ Within(QueueDistance(a, b), Radius)
      /\ IsHit(track, a, b) => QueueDistance(a, b) = LoopDistance(track, a, b)
  <2>1. buffer = TrackDoubles(track) /\ dbpointers = TrackPointers(track) /\ track \in 0 .. NumFiles - 1
    BY <1>1, <1>2, <1>5 DEF TrackLoaded
  <2>2. qpointers = QueryPointers /\ ~ QueryUnknown /\ ~ QueryTooLong
    BY <1>1, <1>2 DEF Asked, Answering
  <2> QED BY <1>2, <1>5, <2>1, <2>2, EvaluatedIsHit
<1>7. (IsHitPair(p) <=> IsHit(track, a, b)) /\ HitPair(p) = HitAt(track, a, b)
  BY <1>4, <1>5 DEF IsHitPair, HitPair
<1>8. PICK q : q = [ikey |-> Key(track), qpos |-> p.qpos, ipos |-> b, dist |-> QueueDistance(a, b)]
  OBVIOUS
<1>9. IF IsHit(track, a, b) THEN AddEvaluated(q) ELSE UNCHANGED <<seen, accVars>>
  BY <1>4, <1>6, <1>8 DEF Evaluate
<1>10. PICK S : offered \in Seq(S)
  BY <1>2 DEF AddInv
<1>11. PICK e \in Nat, l \in Nat : e = Cardinality(Earlier) /\ e = Cardinality(Earlier)' /\ l = Len(offered) /\ e <= l
  <2>1. Earlier' = Earlier
    BY <1>1 DEF Earlier
  <2>2. Cardinality(Earlier) \in Nat
    BY <1>2, EarlierFinite
  <2>3. Len(offered) \in Nat
    BY <1>10
  <2>4. Cardinality(Earlier) <= Len(offered)
    BY <1>2 DEF AddInv, FreshOnce
  <2> QED BY <2>1, <2>2, <2>3, <2>4
<1>12. FreshPlaces = e + 1 .. l /\ FreshPlaces' = e + 1 .. Len(offered')
  BY <1>11 DEF FreshPlaces
<1>13. CASE ~ IsHit(track, a, b)
  <2>1. UNCHANGED <<seen, offered>>
    BY <1>9, <1>13 DEF accVars
  <2> QED BY <1>4, <1>7, <1>11, <1>12, <1>13, <2>1
<1>14. CASE IsHit(track, a, b)
  <2>1. q = HitAt(track, a, b) /\ q = HitPair(p) /\ q.dist = LoopDistance(track, a, b)
    <3>1. QueueDistance(a, b) = LoopDistance(track, a, b)
      BY <1>6, <1>14
    <3>2. HitAt(track, a, b).qpos = p.qpos
      BY <1>5, <1>7
    <3>3. HitAt(track, a, b).qpos = IF Exhaustive THEN a ELSE query.start
      BY DEF HitAt
    <3>4. HitAt(track, a, b) = [ikey |-> Key(track), qpos |-> p.qpos, ipos |-> b, dist |-> LoopDistance(track, a, b)]
      BY ONLY <3>2, <3>3 DEF HitAt
    <3> QED BY ONLY <1>7, <1>8, <3>1, <3>4
  <2>2. CASE Triple(q) \in seen
    <3>1. UNCHANGED <<seen, accVars>>
      BY <1>9, <1>14, <2>2 DEF AddEvaluated, Triple
    <3>2. PICK m \in FreshPlaces : Triple(q) = Triple(offered[m])
      BY <1>2, <2>2 DEF FoundEvaluated
    <3>3. PICK r \in Reported : IsHitPair(r) /\ offered[m] = HitPair(r)
      BY <1>2 DEF FoundEvaluated
    <3>4. PICK y \in Nat \X Nat : r = PairOf(y)
      BY <1>2, <3>3 DEF Reported
    <3>5. Triple(HitPair(PairOf(x))) = Triple(HitPair(PairOf(y)))
      BY ONLY <1>4, <2>1, <3>2, <3>3, <3>4
    <3>6. PairOf(x) = PairOf(y)
      BY <1>2, <3>5, OnePlace
    <3>7. offered[m] = HitPair(p)
      BY ONLY <1>4, <3>3, <3>4, <3>6
    <3>8. seen' = seen /\ offered' = offered
      BY <3>1 DEF accVars
    <3> QED BY ONLY <1>4, <1>11, <1>12, <3>7, <3>8, m \in FreshPlaces
  <2>3. CASE Triple(q) \notin seen
    <3>1. seen' = seen \cup {Triple(q)} /\ AddPoint(q)
      BY <1>9, <1>14, <2>3 DEF AddEvaluated, Triple
    <3>2. q.dist # NaN
      BY <1>14, <2>1 DEF IsHit, Within
    <3>3. /\ Len(offered') = Len(offered) + 1 /\ offered'[Len(offered) + 1] = q
          /\ \A i \in 1 .. Len(offered) : offered'[i] = offered[i]
      BY <1>10, <3>1, <3>2, PointAdded
    <3>4. /\ Len(offered') = l + 1 /\ offered'[l + 1] = q /\ \A i \in 1 .. l : offered'[i] = offered[i]
      BY ONLY <1>11, <3>3
    <3>5. /\ l + 1 \in e + 1 .. l + 1
          /\ \A m \in e + 1 .. l : m \in 1 .. l /\ m \in e + 1 .. l + 1
          /\ \A m \in e + 1 .. l + 1 : m \notin e + 1 .. l => m = l + 1
      BY ONLY <1>11
    <3>6. FreshPlaces' = e + 1 .. l + 1
      BY ONLY <1>12, <3>4
    <3>7. IsHitPair(p)
      BY <1>7, <1>14
    <3>8. \E m \in FreshPlaces' : offered'[m] = HitPair(p)
      BY ONLY <2>1, <3>4, <3>5, <3>6
    <3>9. \A m \in FreshPlaces' : m \notin FreshPlaces => offered'[m] = HitPair(p)
      BY ONLY <1>12, <2>1, <3>4, <3>5, <3>6
    <3>10. \A s \in seen' : s \in seen \/ \E m \in FreshPlaces' : s = Triple(offered'[m])
      BY ONLY <2>1, <3>1, <3>4, <3>5, <3>6
    <3>11. FreshPlaces \subseteq FreshPlaces' /\ \A m \in FreshPlaces : offered'[m] = offered[m]
      BY ONLY <1>12, <3>4, <3>5, <3>6
    <3> QED BY ONLY <1>4, <3>7, <3>8, <3>9, <3>10, <3>11
  <2> QED BY <2>2, <2>3
<1> QED
  BY <1>13, <1>14

LEMMA EvaluateFound ==
  ASSUME FiniteDoubles, TracksThere, FoundInv, Evaluate
  PROVE  Asked' /\ FoundTyped' /\ QueueReported' /\ TrackLoaded' /\ FoundEvaluated'
<1>1. /\ pc = "evaluate" /\ pc' \in {"evaluate", "dead"}
      /\ UNCHANGED <<db, query, allowed, lsh, found, track, buffer, dbpointers, qpointers>>
      /\ queue' = queue (-) SetToBag({TopPair})
  BY DEF Evaluate, pointers, loops
<1>2. /\ QueueReported /\ FoundTyped /\ Asked /\ FoundEvaluated /\ lsh # NoLsh
  BY <1>1 DEF FoundInv, SoundInv, LshKnown
<1>3. Asked'
  <2>1. QueryPointers' = QueryPointers /\ (QueryUnknown' <=> QueryUnknown) /\ (QueryTooLong' <=> QueryTooLong)
    BY <1>1, SameLoads
  <2> QED BY <1>1, <1>2, <2>1 DEF Asked, Answering
<1>4. FoundTyped' /\ TrackLoaded'
  BY <1>1, <1>2, QuietTrack DEF FoundTyped
<1>5. Reported' = Reported
  BY <1>1, SameReports
<1>6. PICK p : p = TopPair
  OBVIOUS
<1>7. /\ DOMAIN queue' \subseteq DOMAIN queue /\ queue' = [q \in DOMAIN queue' |-> queue'[q]]
      /\ \A q \in DOMAIN queue' : queue'[q] = queue[q] - (IF q = p THEN 1 ELSE 0) /\ queue'[q] > 0
      /\ \A q \in DOMAIN queue : q # p /\ queue[q] > 0 => q \in DOMAIN queue'
  <2>1. PICK B : B = [q \in DOMAIN queue |-> IF q \in {p} THEN queue[q] - 1 ELSE queue[q]]
    OBVIOUS
  <2>2. queue' = [q \in {d \in DOMAIN B : B[d] > 0} |-> B[q]]
    BY <1>1, <1>6, <2>1 DEF (-), SetToBag
  <2>3. \A q \in DOMAIN queue : B[q] = queue[q] - (IF q = p THEN 1 ELSE 0) \/ (q # p /\ B[q] = queue[q])
    BY <2>1
  <2>4. \A q \in DOMAIN queue : q # p => B[q] = queue[q]
    BY <2>1
  <2>5. \A q \in DOMAIN queue : queue[q] - 0 = queue[q]
    BY <1>2 DEF QueueReported
  <2> QED BY ONLY <2>1, <2>2, <2>3, <2>4, <2>5
<1>8. QueueReported'
  <2>1. IsFiniteSet(DOMAIN queue') /\ DOMAIN queue' \subseteq Reported'
    BY <1>2, <1>5, <1>7, FS_Subset DEF QueueReported
  <2>2. \A q \in DOMAIN queue' : queue'[q] \in Nat \ {0}
    <3> SUFFICES ASSUME NEW q \in DOMAIN queue' PROVE queue'[q] \in Nat \ {0}
      OBVIOUS
    <3>1. PICK n \in Nat \ {0}, i \in 0 .. 1 : n = queue[q] /\ i = IF q = p THEN 1 ELSE 0
      BY <1>2, <1>7 DEF QueueReported
    <3>2. queue'[q] = n - i /\ queue'[q] > 0
      BY ONLY <1>7, <3>1, q \in DOMAIN queue'
    <3> QED BY ONLY <3>1, <3>2
  <2> QED BY <1>7, <2>1, <2>2 DEF QueueReported
<1>9. FoundEvaluated'
  <2> SUFFICES ASSUME AsExhaustive' PROVE FoundEvaluated'
    BY DEF FoundEvaluated
  <2>1. AsExhaustive
    BY <1>1 DEF AsExhaustive, Exact, MissingTables, UsesPower
  <2>2. \A y : HitPair(y)' = HitPair(y) /\ (IsHitPair(y)' <=> IsHitPair(y))
    BY <1>1, <2>1, SameFinds DEF AsExhaustive
  <2>3. /\ \A m \in FreshPlaces : \E y \in Reported : IsHitPair(y) /\ offered[m] = HitPair(y)
        /\ \A s \in seen : \E m \in FreshPlaces : s = Triple(offered[m])
        /\ \A y \in Reported : IsHitPair(y) =>
             y \in DOMAIN queue \/ \E m \in FreshPlaces : offered[m] = HitPair(y)
    BY <1>2, <2>1 DEF FoundEvaluated
  <2>4. /\ FreshPlaces \subseteq FreshPlaces' /\ \A m \in FreshPlaces : offered'[m] = offered[m]
        /\ IsHitPair(p) => \E m \in FreshPlaces' : offered'[m] = HitPair(p)
        /\ \A m \in FreshPlaces' : m \notin FreshPlaces => IsHitPair(p) /\ offered'[m] = HitPair(p)
        /\ \A s \in seen' : s \in seen \/ \E m \in FreshPlaces' : s = Triple(offered'[m])
    BY <1>6, <2>1, PairEvaluated
  <2>5. p \in Reported
    <3>1. queue # EmptyBag /\ db \in Databases /\ query \in Queries /\ found \subseteq Nat \X Nat
      BY <1>2 DEF Evaluate, FoundInv, SoundInv, FoundTyped
    <3> QED BY <1>2, <1>6, <3>1, TopReported
  <2>6. \A y \in DOMAIN queue : y = p \/ y \in DOMAIN queue'
    <3> SUFFICES ASSUME NEW y \in DOMAIN queue, y # p PROVE y \in DOMAIN queue'
      OBVIOUS
    <3>1. PICK n \in Nat \ {0} : n = queue[y]
      BY <1>2 DEF QueueReported
    <3>2. queue[y] > 0
      BY ONLY <3>1
    <3> QED BY ONLY <1>7, <3>2, y \in DOMAIN queue, y # p
  <2>7. \A m \in FreshPlaces' : \E y \in Reported' : IsHitPair(y)' /\ offered'[m] = HitPair(y)'
    BY ONLY <1>5, <2>2, <2>3, <2>4, <2>5
  <2>8. \A s \in seen' : \E m \in FreshPlaces' : s = Triple(offered'[m])
    <3> SUFFICES ASSUME NEW s \in seen' PROVE \E m \in FreshPlaces' : s = Triple(offered'[m])
      OBVIOUS
    <3>1. CASE s \in seen
      <4>1. PICK m \in FreshPlaces : s = Triple(offered[m])
        BY <2>3, <3>1
      <4>2. m \in FreshPlaces' /\ offered'[m] = offered[m]
        BY ONLY <2>4, <4>1
      <4> QED BY ONLY <4>1, <4>2
    <3> QED BY <2>4, <3>1
  <2>9. \A y \in Reported' : IsHitPair(y)' =>
          y \in DOMAIN queue' \/ \E m \in FreshPlaces' : offered'[m] = HitPair(y)'
    <3>1. ASSUME NEW y \in Reported, IsHitPair(y)
          PROVE  y \in DOMAIN queue' \/ \E m \in FreshPlaces' : offered'[m] = HitPair(y)
      <4>1. CASE y = p
        BY ONLY <2>4, <3>1, <4>1
      <4>2. CASE y # p
        <5>1. y \in DOMAIN queue' \/ \E m \in FreshPlaces : offered[m] = HitPair(y)
          BY ONLY <2>3, <2>6, <3>1, <4>2
        <5> QED BY ONLY <2>4, <5>1
      <4> QED BY ONLY <4>1, <4>2
    <3>2. \A y \in Reported : IsHitPair(y) =>
            y \in DOMAIN queue' \/ \E m \in FreshPlaces' : offered'[m] = HitPair(y)
      BY <3>1
    <3> QED BY ONLY <1>5, <2>2, <3>2
  <2> QED
    BY ONLY <2>7, <2>8, <2>9 DEF FoundEvaluated, Triple
<1> QED
  BY <1>3, <1>4, <1>8, <1>9

LEMMA FoundInitially == IndexedInit => FoundInv
<1> SUFFICES ASSUME IndexedInit PROVE FoundInv
  OBVIOUS
<1>1. lsh = NoLsh /\ found = {} /\ queue = EmptyBag /\ pc = "start"
  BY DEF IndexedInit, Init, InitCall
<1>2. Asked /\ FoundTyped /\ QueueReported /\ TrackLoaded /\ FoundEvaluated
  BY <1>1, UnusedFound
<1> QED BY <1>2, AddInitially, SoundInitially DEF FoundInv

LEMMA FoundStep ==
  ASSUME FiniteDoubles, TracksThere, FoundInv, [IndexedNext]_allVars
  PROVE  FoundInv'
<1>1. AddInv' /\ SoundInv'
  BY AddStep, SoundStep DEF FoundInv
<1>2. /\ AddInv /\ SoundInv
      /\ lsh # NoLsh => pc \in IndexedParts
      /\ pc \in {"shingles", "retrieve", "evaluate"} => lsh # NoLsh
      /\ lsh = NoLsh => found = {} /\ queue = EmptyBag
  BY DEF FoundInv, SoundInv, LshKnown, FoundTyped
<1>3. pc' = "evaluate" => lsh' # NoLsh
  BY <1>1 DEF SoundInv, LshKnown
<1> SUFFICES Asked' /\ FoundTyped' /\ QueueReported' /\ TrackLoaded' /\ FoundEvaluated'
  BY <1>1 DEF FoundInv
<1>4. ASSUME lsh' = NoLsh, found' = {}, queue' = EmptyBag
      PROVE  Asked' /\ FoundTyped' /\ QueueReported' /\ TrackLoaded' /\ FoundEvaluated'
  <2>1. pc' # "evaluate"
    BY <1>3, <1>4
  <2>2. QueueReported'
    BY <1>4, FS_EmptySet DEF QueueReported, EmptyBag, SetToBag
  <2> QED
    BY <1>4, <2>1, <2>2 DEF Asked, Answering, FoundTyped, TrackLoaded, FoundEvaluated, AsExhaustive
<1>5. CASE CallSteps
  <2>1. UNCHANGED <<lsh, found, queue, seen, db, query>>
    BY <1>5 DEF CallSteps, perCall, AllowKeys, AddSoFar, Collect, SetUp, Refuse, NextTrack, LastTrack, Window
  <2>2. CASE lsh = NoLsh
    BY <1>2, <1>4, <2>1, <2>2
  <2>3. CASE lsh # NoLsh
    <3>1. Collect
      BY <1>2, <1>5, <2>3 DEF CallSteps, AllowKeys, AddSoFar, SetUp, Refuse, NextTrack, LastTrack, Window, IndexedParts
    <3>2. /\ pc = "points" /\ pc' \in {"points", "done"}
          /\ UNCHANGED <<db, query, allowed, offered, qpointers>>
      BY <3>1 DEF Collect, RankTrack, GetPoints, filling, pointers
    <3> QED BY <2>1, <3>2, QuietFound, QuietTrack
  <2> QED BY <2>2, <2>3
<1>6. CASE NextCall
  BY <1>4, <1>6 DEF NextCall
<1>7. CASE Build \/ UNCHANGED allVars
  <2>1. /\ UNCHANGED <<db, query, allowed, lsh, found, queue, seen, offered, qpointers, pc>>
        /\ UNCHANGED <<track, buffer, dbpointers>>
    BY <1>7 DEF Build, allVars, queryVars, perCall, accVars, pointers, loops
  <2> QED BY <2>1, QuietFound, QuietTrack
<1>8. CASE Dispatch \/ IndexVanished \/ Allocate
  <2>1. pc \in {"sofar", "index"} /\ UNCHANGED <<lsh, found, queue>>
    BY <1>8 DEF Dispatch, IndexVanished, Allocate, perCall
  <2>2. lsh = NoLsh
    BY <1>2, <2>1 DEF AddInv
  <2> QED BY <1>2, <1>4, <2>1, <2>2
<1>9. CASE LoadIndex
  BY <1>9, LoadIndexFound
<1>10. CASE MakeShingles
  <2>1. /\ UNCHANGED <<db, query, allowed, lsh, found, queue, seen, offered>>
        /\ \/ pc' = "refused"
           \/ pc' = "retrieve" /\ qpointers' = QueryPointers /\ ~ QueryUnknown /\ ~ QueryTooLong
    BY <1>10 DEF MakeShingles, perCall, accVars, Refusal
  <2> QED BY <2>1, QuietFound, QuietTrack
<1>11. CASE Report
  <2>1. UNCHANGED <<db, query, allowed>>
    BY <1>11 DEF Report
  <2> QED BY <1>11, <2>1, ReportFound
<1>12. CASE NextShingle
  <2>1. /\ UNCHANGED <<db, query, allowed, lsh, found, queue, seen, offered, qpointers>> /\ pc = "retrieve"
        /\ \/ pc' = pc
           \/ track' = NumFiles /\ pc' \in {"evaluate", "points"}
    BY <1>12 DEF NextShingle, accVars, pointers
  <2>2. NumFiles \notin 0 .. NumFiles - 1
    <3>1. PICK n \in Nat : n = NumFiles
      BY <1>2, Tables DEF SoundInv
    <3> QED BY <3>1
  <2> QED BY <2>1, <2>2, QuietFound, QuietTrack
<1>13. CASE LoadTrack
  BY <1>13, LoadTrackFound
<1>14. CASE TrackUnread \/ QueueEmpty
  <2>1. /\ UNCHANGED <<db, query, allowed, lsh, found, queue, seen, offered, qpointers>>
        /\ pc = "evaluate" /\ pc' = "points"
    BY <1>14 DEF TrackUnread, QueueEmpty, perCall, accVars, pointers
  <2> QED BY <2>1, QuietFound, QuietTrack
<1>15. CASE Evaluate
  BY <1>15, EvaluateFound
<1> QED
  BY <1>5, <1>6, <1>7, <1>8, <1>9, <1>10, <1>11, <1>12, <1>13, <1>14, <1>15 DEF IndexedNext

(* A hit among what the index reported is a pair that was reported.         *)
LEMMA HitReported ==
  ASSUME TracksThere, db \in Databases, query \in Queries, ~ QueryUnknown, ~ QueryTooLong,
         found \subseteq Nat \X Nat, NEW t, NEW a, NEW b, IsHit(t, a, b), WasFound(HitAt(t, a, b))
  PROVE  \E p \in Reported : IsHitPair(p) /\ HitPair(p) = HitAt(t, a, b)
<1>1. t \in 0 .. NumFiles - 1 /\ Key(t) \in allowed
  BY DEF IsHit
<1>2. PICK x \in found, u \in 0 .. NumFiles - 1 :
        /\ Key(u) = HitAt(t, a, b).ikey /\ FirstVector(u) + HitAt(t, a, b).ipos = x[2]
        /\ ReportedQpos(x[1]) = HitAt(t, a, b).qpos
  BY DEF WasFound
<1>3. /\ HitAt(t, a, b).ikey = Key(t) /\ HitAt(t, a, b).ipos = b
      /\ HitAt(t, a, b).qpos = IF Exhaustive THEN a ELSE query.start
  BY DEF HitAt
<1>4. u = t
  BY <1>1, <1>2, <1>3, KeysDistinct
<1>5. PICK c \in Nat \ {0}, n \in Nat \ {0}, m \in Nat, l \in Nat :
        c = query.seqlen /\ n = NumFiles /\ m = QueryCount /\ l = TrackLength(t)
  <2>1. NumFiles \in Nat \ {0}
    BY SomeTracks, Tables
  <2>2. query.seqlen \in Nat \ {0} /\ QueryCount \in Nat
    BY QueryTypes, QueryPlace
  <2>3. TrackLength(t) \in Nat
    BY <1>1, TrackPlace
  <2> QED BY ONLY <2>1, <2>2, <2>3
<1>6. /\ a \in 0 .. m /\ a + c <= m
      /\ b \in 0 .. l /\ b + c <= l
  BY <1>5 DEF IsHit, Starting
<1>7. b \in 0 .. l - 1
  BY <1>5, <1>6
<1>8. TrackId(x[2]) = t /\ TrackPos(x[2]) = b
  <2>1. PICK ls : ls = [i \in 0 .. n - 1 |-> TrackLength(i)]
    OBVIOUS
  <2>2. \A i \in 0 .. n - 1 : ls[i] \in Nat /\ ls[i] = TrackLength(i)
    BY <1>5, <2>1, Tables
  <2>3. PICK g : g = Starts(n, ls) /\ g = VectorStart
    BY <1>5, <2>1 DEF VectorStart
  <2>4. PICK h : h = StartOf /\ \A i \in 0 .. n - 1 : h[i] = g[i]
    <3>1. \A i \in 0 .. n - 1 : FirstVector(i) = g[i]
      BY <1>5, <2>3, VectorStarts
    <3>2. \A i \in 0 .. n - 1 : StartOf[i] = FirstVector(i)
      BY <1>5 DEF StartOf
    <3> QED BY ONLY <3>1, <3>2
  <2>5. PICK id : id = x[2] /\ id = IndexFromTrackInfo(g, t, b)
    <3>1. g[t] = FirstVector(t)
      BY <1>1, <2>3, VectorStarts
    <3> QED BY <1>2, <1>3, <1>4, <3>1 DEF IndexFromTrackInfo
  <2>6. IndexToTrackId(h, n, id) = t /\ IndexToTrackPos(h, t, id) = b
    <3>1. n \in Nat /\ (\A i \in 0 .. n - 1 : ls[i] \in Nat) /\ g = Starts(n, ls)
      BY <2>2, <2>3
    <3>2. \A i \in 0 .. n - 1 : h[i] = g[i]
      BY <2>4
    <3>3. t \in 0 .. n - 1
      BY <1>1, <1>5
    <3>4. ls[t] = l
      BY ONLY <1>5, <2>2, <3>3
    <3>5. b \in 0 .. ls[t] - 1 /\ id = IndexFromTrackInfo(g, t, b)
      BY ONLY <1>7, <2>5, <3>4
    <3> QED BY ONLY <3>1, <3>2, <3>3, <3>5, BackToTrack
  <2> QED BY <1>5, <2>4, <2>5, <2>6 DEF TrackId, TrackPos
<1>9. PICK p : p = PairOf(x)
  OBVIOUS
<1>10. p \in Reported /\ p.trackID = t /\ p.spos = b /\ p.qpos = ReportedQpos(x[1])
  BY <1>1, <1>2, <1>8, <1>9 DEF Reported, PairOf
<1>11. QueuePosition(p) = a
  <2>1. CASE Exhaustive
    BY <1>2, <1>3, <1>10, <2>1 DEF QueuePosition
  <2>2. CASE ~ Exhaustive
    <3>1. m = c
      BY <1>5, <2>2 DEF QueryCount
    <3>2. a = 0
      BY <1>5, <1>6, <3>1
    <3> QED BY <2>2, <3>2 DEF QueuePosition
  <2> QED BY <2>1, <2>2
<1> QED
  BY <1>10, <1>11 DEF IsHitPair, HitPair

(* What a reported pair is as a hit was found by the index.                 *)
LEMMA ReportedFound ==
  ASSUME TracksThere, db \in Databases, query \in Queries, found \subseteq Nat \X Nat,
         NEW p \in Reported, IsHitPair(p)
  PROVE  HitPair(p) \in LoopHits /\ WasFound(HitPair(p))
<1>1. PICK x \in found : p = PairOf(x) /\ x \in Nat \X Nat
  BY DEF Reported
<1>2. /\ p.trackID \in 0 .. NumFiles - 1
      /\ FirstVector(p.trackID) + p.spos = x[2] /\ HitPair(p).qpos = p.qpos
      /\ HitPair(p).ikey = Key(p.trackID) /\ HitPair(p).ipos = p.spos /\ p.qpos = ReportedQpos(x[1])
  BY <1>1, PairReported
<1>3. WasFound(HitPair(p))
  BY <1>1, <1>2 DEF WasFound
<1>4. HitPair(p) \in LoopHits
  <2>1. PICK t, a, b : t = p.trackID /\ a = QueuePosition(p) /\ b = p.spos
    OBVIOUS
  <2>2. IsHit(t, a, b) /\ HitPair(p) = HitAt(t, a, b)
    BY <2>1 DEF IsHitPair, HitPair
  <2> QED BY ONLY <2>2, HitsAre
<1> QED BY <1>3, <1>4

(* With nothing left in the queue all the hits reported have been added.    *)
LEMMA FoundExact == ASSUME TracksThere, FoundInv PROVE ExhaustiveOnFound
<1> SUFFICES ASSUME pc = "done", AsExhaustive
             PROVE  IF queue = EmptyBag THEN Range(Fresh) = {h \in LoopHits : WasFound(h)}
                    ELSE Range(Fresh) \subseteq {h \in LoopHits : WasFound(h)}
  <2>1. AsExhaustive => Hits = LoopHits
    BY LoopHitsAre DEF AsExhaustive, MeasuresWindows, DurationMatches, TrueDurationMatches
  <2> QED BY <2>1 DEF ExhaustiveOnFound
<1>1. /\ db \in Databases /\ query \in Queries /\ found \subseteq Nat \X Nat
      /\ ~ QueryUnknown /\ ~ QueryTooLong /\ FreshOnce
  BY DEF FoundInv, SoundInv, AddInv, FoundTyped, AsExhaustive, Asked, Answering
<1>2. /\ \A m \in FreshPlaces : \E p \in Reported : IsHitPair(p) /\ offered[m] = HitPair(p)
      /\ \A p \in Reported : IsHitPair(p) =>
           p \in DOMAIN queue \/ \E m \in FreshPlaces : offered[m] = HitPair(p)
  BY DEF FoundInv, FoundEvaluated
<1>3. PICK S : offered \in Seq(S)
  BY DEF FoundInv, AddInv
<1>4. PICK e \in Nat, l \in Nat : e = Cardinality(Earlier) /\ l = Len(offered) /\ e <= l
  <2>1. Cardinality(Earlier) \in Nat /\ Len(offered) \in Nat
    BY <1>1, <1>3, EarlierFinite
  <2> QED BY <1>1, <2>1 DEF FreshOnce
<1>5. FreshPlaces = e + 1 .. l
  BY <1>4 DEF FreshPlaces
<1>6. DOMAIN Fresh = 1 .. l - e /\ \A m \in 1 .. l - e : Fresh[m] = offered[e + m]
  <2>1. \A i \in e + 1 .. l : offered[i] \in S
    BY <1>3, <1>4
  <2>2. /\ Len(SubSeq(offered, e + 1, l)) = l - e /\ SubSeq(offered, e + 1, l) \in Seq(S)
        /\ \A m \in 1 .. l - e : SubSeq(offered, e + 1, l)[m] = offered[e + m]
    BY <1>3, <1>4, <2>1, SubSeqProperties
  <2> QED BY <1>4, <2>2 DEF Fresh
<1>7. \A h : h \in Range(Fresh) <=> \E m \in FreshPlaces : h = offered[m]
  <2>1. \A h : h \in Range(Fresh) <=> \E m \in 1 .. l - e : h = offered[e + m]
    BY <1>6 DEF Range
  <2>2. (\A m \in 1 .. l - e : e + m \in e + 1 .. l) /\ \A i \in e + 1 .. l : i - e \in 1 .. l - e /\ e + (i - e) = i
    BY <1>4
  <2> QED BY ONLY <1>5, <2>1, <2>2
<1>8. Range(Fresh) \subseteq {h \in LoopHits : WasFound(h)}
  <2> SUFFICES ASSUME NEW h \in Range(Fresh) PROVE h \in LoopHits /\ WasFound(h)
    OBVIOUS
  <2>1. PICK p \in Reported : IsHitPair(p) /\ h = HitPair(p)
    BY <1>2, <1>7
  <2> QED BY <1>1, <2>1, ReportedFound
<1>9. ASSUME queue = EmptyBag, NEW h \in LoopHits, WasFound(h)
      PROVE  h \in Range(Fresh)
  <2>1. PICK t, a, b : IsHit(t, a, b) /\ h = HitAt(t, a, b)
    BY HitsAre
  <2>2. PICK p \in Reported : IsHitPair(p) /\ HitPair(p) = h
    BY <1>1, <1>9, <2>1, HitReported
  <2>3. DOMAIN queue = {}
    BY <1>9 DEF EmptyBag, SetToBag
  <2> QED BY <1>2, <1>7, <2>2, <2>3
<1> QED
  BY <1>8, <1>9

(* What an exact indexed query adds to the accumulator is what the          *)
(* exhaustive query would add of the windows its index reported, no less    *)
(* when all that was reported is evaluated, and no more when a track cannot *)
(* be read: whatever the tables and probes report, as often as they like,   *)
(* and also of an index that is older or newer than the handle's view of    *)
(* the database (query-indexed.cpp:68-79, query.cpp:452-537).  The queue    *)
(* holds only what was reported, in whatever order it is drained; a pair    *)
(* passes its tests exactly when the windows are a hit, with the sums of    *)
(* their own vectors, though one side's come from the track loaded alone;   *)
(* and the set drops no hit but those that were added.                      *)
THEOREM ExactAsExhaustive ==
  ASSUME FiniteDoubles, TracksThere
  PROVE  IndexedSpec => []ExhaustiveOnFound
<1>1. IndexedInit => FoundInv
  BY FoundInitially
<1>2. FoundInv /\ [IndexedNext]_allVars => FoundInv'
  BY FoundStep
<1>3. FoundInv => ExhaustiveOnFound
  BY FoundExact
<1> QED BY <1>1, <1>2, <1>3, PTL DEF IndexedSpec
=============================================================================
