------------------------------- MODULE Query -------------------------------
(***************************************************************************)
(* The exhaustive sequence query: audiodb_query_spec_given_sofar through   *)
(* audiodb_query_loop, for a database without an index for the query.  The *)
(* tracks are read one after another from the position the file descriptor *)
(* has; every window of the query is matched with every window of a track; *)
(* matches beyond the accumulator's threshold are skipped.                 *)
(*                                                                         *)
(* Positions in the tables are counted in doubles (data) and vectors (all  *)
(* other tables); tracks and windows are numbered from 0, as in the code.  *)
(***************************************************************************)
EXTENDS Accumulator, Offsets, SequencesExt

CONSTANTS
  Databases,    \* open databases: header and caches of the handle, and tables
  Queries,      \* adb_query_spec_t, and results so far
  Scale         \* units of a normed distance

(* A handle's caches have an entry for each track, and the data table the   *)
(* vectors of all tracks, one after another.  No two tracks have the same   *)
(* key: none is inserted under a key that is there (Insert of Catalogue).   *)
Sizes(d) == [t \in 0 .. Len(d.lengths) - 1 |-> d.lengths[t + 1] * d.dim]

ASSUME DatabasesAssumption ==
  \A d \in Databases :
    /\ d.dim \in Nat \ {0} /\ d.lengths \in Seq(Nat)
    /\ Len(d.keys) = Len(d.lengths) /\ DOMAIN d.offsets = 1 .. Len(d.lengths)
    /\ \A i, l \in 1 .. Len(d.lengths) : d.keys[i] = d.keys[l] => i = l
    /\ \A i \in DOMAIN d.offsets : d.offsets[i] = Starts(Len(d.lengths), Sizes(d))[i - 1]
    /\ d.data \in Seq(AnyDouble) /\ Len(d.data) = Starts(Len(d.lengths), Sizes(d))[Len(d.lengths)]
    /\ d.hasPower => d.power \in Seq(AnyDouble) /\ Len(d.power) * d.dim = Len(d.data)

(* What the code does not check and the caller must see to: a datum has the *)
(* features that its query refines by, with a power for each vector, and    *)
(* sequence_start + sequence_length does not wrap around.  The results so   *)
(* far may be of any query, this one too.  The database has its norms       *)
(* (audiodb_l2norm).                                                        *)
ASSUME QueriesAssumption ==
  /\ Scale \in Nat \ {0}
  /\ \A q \in Queries :
       /\ q.seqlen \in Nat \ {0} /\ q.start \in Nat /\ q.qhop \in Nat /\ q.ihop \in Nat
       /\ q.datum.given => /\ q.datum.n \in Nat /\ q.datum.doubles \in Seq(AnyDouble)
                           /\ Len(q.datum.doubles) = q.datum.n * q.datum.dim
       /\ Len(q.sofar) \in Nat /\ DOMAIN q.sofar = 1 .. Len(q.sofar)
       /\ \A i \in DOMAIN q.sofar : q.sofar[i].dist \in Int \cup {NaN}
       /\ q.flags \subseteq {"include", "exclude", "radius", "absolute", "relative",
                             "duration", "hop"}
       /\ q.flags \cap {"absolute", "relative"} # {} => q.datum.hasPower
       /\ q.datum.given /\ q.datum.hasPower => Len(q.datum.power) = q.datum.n
       /\ "duration" \in q.flags => q.datum.hasTimes
       /\ "radius" \in q.flags => q.radius \in Int

VARIABLES
  db, query,
  pc,           \* where the call stands
  sofar,        \* how many of the results so far have been added
  allowed,      \* allowed_keys
  filepos,      \* the position of adb->fd in the data table
  track, j, k,  \* the loops: track, query window, track window
  qpointers,    \* of the query: windowed norms (squared) and powers
  dbpointers,   \* of the database: the same, and mean durations
  buffer,       \* data_buffer: the doubles read for this track
  dd,           \* DD: the correlation of each pair of windows
  thresh

loops == <<filepos, track, j, k, buffer, dd, thresh>>
pointers == <<qpointers, dbpointers>>
vars  == <<db, query, pc, sofar, allowed, pointers, loops, accVars>>

-----------------------------------------------------------------------------
(* The handle's view of the database. *)
NumFiles       == Len(db.keys)
Key(t)         == db.keys[t + 1]
TrackLength(t) == db.lengths[t + 1]
TrackOffset(t) == db.offsets[t + 1]
FirstVector(t) == TrackOffset(t) \div db.dim

(* Vector number i of some doubles. *)
VectorAt(doubles, i) == SubSeq(doubles, i * db.dim + 1, (i + 1) * db.dim)
SumOf(s)             == WindowSum(s, 1, Len(s))
DotProduct(v, w)     == SumOf([i \in DOMAIN v |-> v[i] * w[i]])

(* Norms are kept as squares, and averages as sums. *)
L2norms(doubles, n) == [i \in 1 .. n |-> DotProduct(VectorAt(doubles, i - 1), VectorAt(doubles, i - 1))]

-----------------------------------------------------------------------------
(* The query: vectors from memory, or those of a track of the database.     *)
QueryTrack == CHOOSE t \in 0 .. NumFiles - 1 : Key(t) = query.datum.key

QueryDatum ==
  IF query.datum.given THEN query.datum
  ELSE LET from == FirstVector(QueryTrack)  n == TrackLength(QueryTrack)
       IN  [doubles |-> SubSeq(db.data, from * db.dim + 1, (from + n) * db.dim),
            power |-> IF db.hasPower THEN SubSeq(db.power, from + 1, from + n) ELSE <<>>,
            times |-> IF db.hasTimes THEN SubSeq(db.times, from + 1, from + n) ELSE <<>>,
            n |-> n, dim |-> db.dim]

Exhaustive == "exhaustive" \in query.idflags

(* Where the query's pointers start, and how many vectors they cover. *)
QueryFirst == IF Exhaustive THEN 0 ELSE query.start
QueryCount == IF Exhaustive THEN QueryDatum.n ELSE query.seqlen

QueryDuration == IF QueryDatum.times = <<>> THEN 0 ELSE SumOf(QueryDatum.times)

QueryPointers ==
  LET datum == QueryDatum
  IN  [l2norm |-> SequenceSum(L2norms(datum.doubles, datum.n), query.seqlen),
       power  |-> IF datum.power = <<>> THEN <<>> ELSE SequenceSum(datum.power, query.seqlen),
       times  |-> QueryDuration]

QueryUnknown ==
  IF query.datum.given THEN query.datum.dim # db.dim
  ELSE query.datum.key \notin {Key(t) : t \in 0 .. NumFiles - 1}

QueryTooLong == ~ QueryUnknown /\ query.start + query.seqlen > QueryDatum.n

-----------------------------------------------------------------------------
(* The database's tables, each track's part windowed by itself.             *)
ByTrack(table) ==
  FoldLeft(LAMBDA cells, t : cells \o
             LET part == SubSeq(table, FirstVector(t) + 1, FirstVector(t) + TrackLength(t))
             IN  IF TrackLength(t) >= query.seqlen THEN SequenceSum(part, query.seqlen) ELSE part,
           <<>>, [i \in 1 .. NumFiles |-> i - 1])

UsesPower == query.flags \cap {"absolute", "relative"} # {}

(* times_table is never advanced: all tracks are given its first entries.   *)
MeanDuration(t) == SumOf(SubSeq(db.times, 1, TrackLength(t)))

DatabasePointers ==
  [l2norm |-> ByTrack(L2norms(db.data, Len(db.data) \div db.dim)),
   power  |-> IF UsesPower THEN ByTrack(db.power) ELSE <<>>,
   times  |-> IF "duration" \in query.flags
              THEN [t \in 0 .. NumFiles - 1 |-> MeanDuration(t)] ELSE <<>>]

MissingTables == (UsesPower /\ ~ db.hasPower) \/ ("duration" \in query.flags /\ ~ db.hasTimes)

(* The means of two durations, compared as sums of a track's times and of   *)
(* the query's.                                                             *)
MeansMatch(t, times, qtimes) ==
  LET difference == times * QueryDatum.n - qtimes * TrackLength(t)
      most       == qtimes * TrackLength(t) * query.ratio
  IN  difference < most /\ - difference < most

DurationMatches(t) ==
  "duration" \in query.flags => MeansMatch(t, dbpointers.times[t], qpointers.times)

-----------------------------------------------------------------------------
(* Matching.  A cell of the sums is a dot product, or a Kullback-Leibler     *)
(* divergence, in units of log 2 and rounded down.  Terms that are NaN count *)
(* as 0; so do, here only, infinite ones.                                    *)
Log2(n) == CHOOSE e \in 0 .. n : 2 ^ e <= n /\ n < 2 ^ (e + 1)
Divergence(v, w) ==
  SumOf([i \in DOMAIN v |-> IF v[i] > 0 /\ w[i] > 0 THEN v[i] * (Log2(v[i]) - Log2(w[i])) ELSE 0])

Cell(v, w) == IF query.distance = "kullback_leibler" THEN Divergence(v, w) ELSE DotProduct(v, w)

(* Mutant: a hop size of zero is taken as it is. *)
HopAsGiven(hop) == IF "hop" \in query.flags THEN hop ELSE 1

Hop(hop) == IF "hop" \in query.flags /\ hop # 0 THEN hop ELSE 1

OnHop(i, hop) == \E m \in 0 .. i : i = m * Hop(hop)

(* The sums along the diagonals, of as many cells as a window has vectors,  *)
(* for the pairs of windows the hops come to.  `bf' is the buffer.          *)
Correlations(t, bf) ==
  [p \in {ab \in (0 .. QueryCount - query.seqlen) \X (0 .. TrackLength(t) - query.seqlen) :
           OnHop(ab[1], query.qhop) /\ OnHop(ab[2], query.ihop)} |->
     SumOf([w \in 1 .. query.seqlen |->
              Cell(VectorAt(QueryDatum.doubles, QueryFirst + p[1] + w - 1),
                   VectorAt(bf, p[2] + w - 1))])]

Root(n) == CHOOSE r \in 0 .. n : r * r <= n /\ n < (r + 1) * (r + 1)

(* Zero vectors have no normed distance: 2 / 0 times 0 is NaN.  The exhaustive *)
(* loop computes no distance from a Kullback-Leibler sum.                      *)
Distance(product, qq, ss) ==
  CASE query.distance = "euclidean_normed" ->
         IF qq * ss = 0 THEN NaN ELSE 2 * Scale - (2 * Scale * product) \div Root(qq * ss)
    [] query.distance = "euclidean"        -> qq + ss - 2 * product
    [] query.distance = "dot_product"      -> product
    [] query.distance = "kullback_leibler" -> 0

Less(x, y) == CASE NaN \in {x, y} -> FALSE
                [] x = NegInf -> y # NegInf
                [] y = NegInf -> FALSE
                [] OTHER -> x < y

(* Averages are compared as sums; the difference of two infinities is NaN. *)
PowersAcceptable(p1, p2) ==
  /\ "absolute" \in query.flags =>
       ~ Less(p1, query.absolute * query.seqlen) /\ ~ Less(p2, query.absolute * query.seqlen)
  /\ "relative" \in query.flags =>
       IF {p1, p2} \subseteq Int
       THEN LET d == p1 - p2  most == query.relative * query.seqlen
            IN  (IF d < 0 THEN -d ELSE d) <= (IF most < 0 THEN -most ELSE most)
       ELSE p1 = p2 \/ NaN \in {p1, p2}

Radius == IF "radius" \in query.flags THEN query.radius ELSE Infinity
Within(dist, bound) == dist # NaN /\ (bound = Infinity \/ dist <= bound)
Smaller(x, y) == IF x = Infinity THEN y ELSE IF y = Infinity \/ x < y THEN x ELSE y

(* The point for query window a and window b of a track. *)
Point(t, a, b) ==
  [ikey |-> Key(t), qpos |-> IF Exhaustive THEN a ELSE query.start, ipos |-> b,
   dist |-> Distance(dd[<<a, b>>], qpointers.l2norm[QueryFirst + a + 1],
                     dbpointers.l2norm[FirstVector(t) + b + 1])]

-----------------------------------------------------------------------------
Init ==
  /\ db \in Databases /\ query \in Queries
  /\ params = [accumulation |-> query.accumulation, distance |-> query.distance,
               npoints |-> query.npoints, ntracks |-> query.ntracks]
  /\ AccInit
  /\ pc = "start" /\ sofar = 0 /\ allowed = {}
  /\ filepos = 0 /\ track = 0 /\ j = 0 /\ k = 0 /\ buffer = <<>> /\ dd = <<>>
  /\ qpointers = <<>> /\ dbpointers = <<>> /\ thresh = Infinity

(* The keys the query may find. *)
AllowKeys ==
  /\ pc = "start"
  /\ allowed' = (IF "include" \in query.flags THEN query.include ELSE {Key(t) : t \in 0 .. NumFiles - 1})
                  \ (IF "exclude" \in query.flags THEN query.exclude ELSE {})
  /\ pc' = "sofar"
  /\ UNCHANGED <<db, query, sofar, pointers, loops, accVars>>

AddSoFar ==
  /\ pc = "sofar" /\ sofar < Len(query.sofar)
  /\ AddPoint(query.sofar[sofar + 1])
  /\ sofar' = sofar + 1
  /\ UNCHANGED <<db, query, pc, allowed, pointers, loops>>

Refused == db.references \/ QueryUnknown \/ QueryTooLong \/ MissingTables

(* The query and its pointers are set up, and the file is at the first track. *)
SetUp ==
  /\ pc = "sofar" /\ sofar = Len(query.sofar) /\ ~ Refused
  /\ qpointers' = QueryPointers /\ dbpointers' = DatabasePointers
  /\ filepos' = 0 /\ track' = 0
  /\ pc' = "tracks"
  /\ UNCHANGED <<db, query, sofar, allowed, j, k, buffer, dd, thresh, accVars>>

(* No results are returned. *)
Refuse ==
  /\ pc = "sofar" /\ sofar = Len(query.sofar) /\ Refused
  /\ pc' = "refused"
  /\ UNCHANGED <<db, query, sofar, allowed, pointers, loops, accVars>>

(* Mutants: the file is not repositioned after tracks are passed over; the  *)
(* threshold of the last track is kept.                                     *)
ReadOn(t) == filepos
KeepThreshold(t) == Smaller(thresh, Radius)

(* Where the next track is read from: only after a gap does the loop seek.   *)
ReadFrom(t) == IF t # track THEN TrackOffset(t) ELSE filepos

StartThreshold(t) == Smaller(Threshold(Key(t)), Radius)

(* After the data the table is empty. *)
FileRead(from, count) ==
  [i \in 1 .. count |-> IF from + i \in DOMAIN db.data THEN db.data[from + i] ELSE 0]

Unvisited == {t \in track .. NumFiles - 1 : Key(t) \in allowed}

NextTrack ==
  /\ pc = "tracks" /\ Unvisited # {}
  /\ LET t == Min(Unvisited)
         count == TrackLength(t) * db.dim
     IN  /\ buffer' = FileRead(ReadFrom(t), count)
         /\ filepos' = ReadFrom(t) + count
         /\ IF query.seqlen <= TrackLength(t)
            THEN thresh' = StartThreshold(t) /\ dd' = Correlations(t, buffer')
            ELSE UNCHANGED <<thresh, dd>>
         /\ IF query.seqlen <= TrackLength(t) /\ DurationMatches(t)
            THEN pc' = "windows" /\ track' = t ELSE pc' = "tracks" /\ track' = t + 1
  /\ j' = 0 /\ k' = 0
  /\ UNCHANGED <<db, query, sofar, allowed, pointers, accVars>>

LastTrack ==
  /\ pc = "tracks" /\ Unvisited = {}
  /\ pc' = "points"
  /\ UNCHANGED <<db, query, sofar, allowed, pointers, loops, accVars>>

Pruned(p) == /\ query.distance = "euclidean_normed"
             /\ p.dist # NaN /\ thresh # Infinity /\ p.dist > thresh

PowersMatch(t, a, b) == UsesPower =>
  PowersAcceptable(qpointers.power[QueryFirst + a + 1], dbpointers.power[FirstVector(t) + b + 1])

MatchWindows ==
  LET p == Point(track, j, k)
  IN  IF ~ Pruned(p) /\ PowersMatch(track, j, k) /\ (Radius # Infinity => Within(p.dist, Radius))
      THEN AddPoint(p) /\ thresh' = Sharpened(thresh, p)
      ELSE UNCHANGED <<accVars, thresh>>

LastWindow(count) == count - query.seqlen

Window ==
  /\ pc = "windows"
  /\ MatchWindows
  /\ LET nextj == j + Hop(query.qhop)
         nextk == k + Hop(query.ihop)
     IN  IF nextk <= LastWindow(TrackLength(track))
         THEN k' = nextk /\ UNCHANGED <<j, track, pc>>
         ELSE /\ k' = 0 /\ j' = nextj
              /\ IF nextj <= LastWindow(QueryCount) THEN UNCHANGED <<track, pc>>
                 ELSE track' = track + 1 /\ pc' = "tracks"
  /\ UNCHANGED <<db, query, sofar, allowed, pointers, filepos, buffer, dd>>

Collect ==
  /\ pc = "points"
  /\ \/ RankTrack /\ UNCHANGED pc
     \/ GetPoints /\ pc' = "done"
  /\ UNCHANGED <<db, query, sofar, allowed, pointers, loops>>

Next == AllowKeys \/ AddSoFar \/ SetUp \/ Refuse \/ NextTrack \/ LastTrack \/ Window \/ Collect

Spec == Init /\ [][Next]_vars

-----------------------------------------------------------------------------

(* The windows about to be matched lie inside the query and inside the      *)
(* track, and the buffer holds that track and nothing else: the file was at *)
(* its start although the loop seeks only after tracks it passed over.      *)
WindowsInTrack ==
  pc = "windows" =>
    /\ j + query.seqlen <= QueryCount /\ k + query.seqlen <= TrackLength(track)
    /\ Key(track) \in allowed
    /\ buffer = SubSeq(db.data, TrackOffset(track) + 1,
                       TrackOffset(track) + TrackLength(track) * db.dim)

(* Every window of the query and of each track has the sum of its own       *)
(* cells, whatever was infinite in the windows before it, and nothing of    *)
(* the next track.                                                          *)
WindowsSummed ==
  pc = "tracks" =>
    LET datum == QueryDatum
        starts(count) == 1 .. count - query.seqlen + 1
        sums(cells, table, count, from) ==
          \A i \in starts(count) : cells[from + i] = WindowSum(table, from + i, query.seqlen)
    IN  /\ sums(qpointers.l2norm, L2norms(datum.doubles, datum.n), datum.n, 0)
        /\ qpointers.power # <<>> => sums(qpointers.power, datum.power, datum.n, 0)
        /\ \A t \in 0 .. NumFiles - 1 :
             /\ sums(dbpointers.l2norm, L2norms(db.data, Len(db.data) \div db.dim),
                     TrackLength(t), FirstVector(t))
             /\ UsesPower => sums(dbpointers.power, db.power, TrackLength(t), FirstVector(t))

-----------------------------------------------------------------------------
(* What the query is to find, from the tables alone: every window that the  *)
(* refinement lets through, with its distance.                              *)
QueryVector(a)    == VectorAt(QueryDatum.doubles, QueryFirst + a)
TrackVector(t, b) == VectorAt(db.data, FirstVector(t) + b)
OverWindow(Term(_)) == SumOf([w \in 1 .. query.seqlen |-> Term(w - 1)])

(* A divergence is its sum; the other distances are made of it and the norms. *)
TrueDistance(t, a, b) ==
  LET sum == OverWindow(LAMBDA w : Cell(QueryVector(a + w), TrackVector(t, b + w)))
  IN  IF query.distance = "kullback_leibler" THEN sum
      ELSE Distance(sum, OverWindow(LAMBDA w : DotProduct(QueryVector(a + w), QueryVector(a + w))),
                    OverWindow(LAMBDA w : DotProduct(TrackVector(t, b + w), TrackVector(t, b + w))))

TruePowersAcceptable(t, a, b) ==
  UsesPower => PowersAcceptable(OverWindow(LAMBDA w : QueryDatum.power[QueryFirst + a + w + 1]),
                                OverWindow(LAMBDA w : db.power[FirstVector(t) + b + w + 1]))

(* The mean duration of a track is that of its own times.                   *)
TrueDuration(t) == SumOf(SubSeq(db.times, FirstVector(t) + 1, FirstVector(t) + TrackLength(t)))

TrueDurationMatches(t) ==
  "duration" \in query.flags => MeansMatch(t, TrueDuration(t), QueryDuration)

Starting(count, hop) == {i \in 0 .. count : i + query.seqlen <= count /\ OnHop(i, hop)}

Hits ==
  UNION {{[ikey |-> Key(t), qpos |-> IF Exhaustive THEN a ELSE query.start, ipos |-> b,
           dist |-> TrueDistance(t, a, b)] :
             b \in {c \in Starting(TrackLength(t), query.ihop) :
                     /\ TruePowersAcceptable(t, a, c)
                     /\ Within(TrueDistance(t, a, c), Radius)}} :
           a \in Starting(QueryCount, query.qhop),
           t \in {u \in 0 .. NumFiles - 1 : Key(u) \in allowed /\ TrueDurationMatches(u)}}

(* The results so far are points like those found here; those without a     *)
(* distance are not counted.                                                *)
Earlier == {i \in DOMAIN query.sofar : query.sofar[i].dist # NaN}

(* Three things a caller cannot count on, and the code is as it is:         *)
(*  - each track has its own mean duration.  audioDB-internals.h:65-66 says *)
(*    "an array of mean durations for each track", but every track is given *)
(*    the mean of the first times of the database (query.cpp:430);          *)
(*  - the exhaustive loop measures a divergence.  It leaves every distance  *)
(*    of such a query at 0 (query.cpp:623);                                 *)
(*  - a point is there once.  query.txt:91-93 wants the accumulator to      *)
(*    defend against "the same hit multiple times", but a result so far     *)
(*    that is found again, or is there twice, is added twice.               *)
DurationsAreOwn == "duration" \in query.flags =>
                     \A t \in 0 .. NumFiles - 1 : MeanDuration(t) = TrueDuration(t)

MeasuresWindows == query.distance # "kullback_leibler"

Place(p) == <<p.ikey, p.qpos, p.ipos>>

NothingTwice ==
  /\ \A m, n \in Earlier : Place(query.sofar[m]) = Place(query.sofar[n]) => m = n
  /\ \A n \in Earlier : \A h \in Hits : Place(query.sofar[n]) # Place(h)

(* Where these three hold, the answer is the best of all hits and of the    *)
(* results so far, none of them twice and as many as asked for: no pruning, *)
(* no order of tracks or windows, no filter and no earlier result changes   *)
(* what a comparison of everything, from the tables alone, would give.      *)
AnswerIsBest ==
  pc = "done" /\ DurationsAreOwn /\ MeasuresWindows /\ NothingTwice =>
    LET points == Hits \cup {query.sofar[n] : n \in Earlier}
        of(g)  == {p \in points : Group(p) = g}
    IN  /\ \A i \in Added : offered[i] \in points
        /\ \A g \in {Group(p) : p \in points} :
             /\ \A i, l \in Held(g) : offered[i] = offered[l] => i = l
             /\ Cardinality(Held(g)) = IF Cardinality(of(g)) < Capacity THEN Cardinality(of(g))
                                       ELSE Capacity
             /\ \A p \in of(g) : \/ \E i \in Held(g) : offered[i] = p
                                \/ \A i \in Held(g) : ~ Better(p, offered[i])
        /\ IF params.accumulation = "per_track" THEN BestTracks
           ELSE results = UNION {Held(g) : g \in DOMAIN queues}

(* How far a call has come, the most significant first. *)
Stage ==
  <<CASE pc = "start" -> 0 [] pc = "sofar" -> 1 [] pc \in {"tracks", "windows"} -> 2
      [] pc = "points" -> 3 [] pc \in {"done", "refused"} -> 4,
    sofar, track, IF pc = "windows" THEN 1 ELSE 0, j, k, Cardinality(ranked)>>

Later(s, t) == \E n \in DOMAIN s : s[n] > t[n] /\ \A m \in 1 .. n - 1 : s[m] = t[m]

(* Every step takes the call further, to a later pair of windows or a later *)
(* track, and never back to one it has been at; as tracks and windows are   *)
(* bounded (WindowsInTrack), every call comes to an end.                    *)
GoesOn == [][Later(Stage', Stage)]_vars
=============================================================================
