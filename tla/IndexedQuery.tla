---------------------------- MODULE IndexedQuery ----------------------------
(***************************************************************************)
(* Queries by radius on a handle of a database that may have index files:  *)
(* audiodb_index_query_loop and audiodb_query_queue_loop, with the         *)
(* exhaustive loop of Query when no index exists.  Indexes are built by    *)
(* other processes, at any time, from what the database holds then: an     *)
(* index is named by the lengths of the tracks it covers, and reports any  *)
(* of their windows, as often as it likes (LshIndex says which).           *)
(***************************************************************************)
EXTENDS Query, Bags

CONSTANTS
  Coverages,    \* the track lengths an index may be built from
  NoIndex,
  MaxReports,   \* bound: points reported for one query window
  MaxCalls,     \* bound: queries of the handle
  MaxBuilds     \* bound: changes of index files

ASSUME CoveragesAssumption == \A c \in Coverages : c \in Seq(Nat)

VARIABLES
  files,        \* index files, by radius and sequence length
  cached,       \* cached_lsh of the handle: its name and what it covers
  lsh,          \* qstate->lsh
  queue,        \* exact_evaluation_queue
  seen,         \* qstate->set
  found,        \* ghost: the query windows and points reported
  wild,         \* ghost: a power was read behind the track's
  reports, calls, builds

indexes == <<files, cached, builds>>
perCall == <<lsh, queue, seen, found, wild, reports, calls>>
queryVars == <<db, query, pc, sofar, allowed, pointers, loops, accVars>>
allVars == <<queryVars, indexes, perCall>>

Name(q) == <<q.radius, q.seqlen>>

NoLsh == [name |-> <<>>, covers |-> NoIndex]

IndexExists == files[Name(query)] # NoIndex

Exact == "approximate" \notin query.idflags

-----------------------------------------------------------------------------
(* Points of an index. *)

(* An index holds the windows of its own sequence length. *)
Ids(index) ==
  LET covers == index.covers
      start == Starts(Len(covers), [t \in 0 .. Len(covers) - 1 |-> covers[t + 1]])
  IN  UNION {{IndexFromTrackInfo(start, t, p) : p \in 0 .. covers[t + 1] - index.name[2]} :
               t \in 0 .. Len(covers) - 1}

(* The handle's offsets, in vectors. *)
StartOf == [t \in 0 .. NumFiles - 1 |-> FirstVector(t)]
TrackId(id) == IndexToTrackId(StartOf, NumFiles, id)
TrackPos(id) == IndexToTrackPos(StartOf, TrackId(id), id)

ReportedQpos(a) == IF Exhaustive THEN a ELSE query.start

(* Only the query's power against the absolute threshold is looked at. *)
Searched(a) ==
  "absolute" \in query.flags =>
    LET p == qpointers.power[QueryFirst + a + 1]
    IN  p # NaN /\ ~ Less(p, query.absolute * query.seqlen)

-----------------------------------------------------------------------------
InitIndexes ==
  /\ files = [n \in {Name(q) : q \in Queries} |-> NoIndex]
  /\ cached = NoLsh /\ builds = 0

InitCall ==
  /\ lsh = NoLsh /\ queue = EmptyBag /\ seen = {}
  /\ found = {} /\ wild = FALSE /\ reports = 0 /\ calls = 1

IndexedInit == Init /\ InitIndexes /\ InitCall

(* The database only ever grows at its end (see Catalogue): what was there *)
(* when an index was built is a part of what the handle knows, or contains *)
(* it.                                                                     *)
Versions ==
  {c \in Coverages : IsPrefix(c, db.lengths) \/ IsPrefix(db.lengths, c)} \cup {NoIndex}

(* Another process builds, rebuilds or removes an index. *)
Build ==
  /\ builds < MaxBuilds /\ builds' = builds + 1
  /\ \E n \in DOMAIN files, c \in Versions :
       c # files[n] /\ files' = [files EXCEPT ![n] = c]
  /\ UNCHANGED <<queryVars, cached, perCall>>

UseIndex == "radius" \in query.flags /\ IndexExists

(* The first look for the index file.                                      *)
Dispatch ==
  /\ pc = "sofar" /\ sofar = Len(query.sofar)
  /\ UseIndex
  /\ pc' = "index"
  /\ UNCHANGED <<db, query, sofar, allowed, pointers, loops, accVars, indexes, perCall>>

(* The second look: without a file the call ends with nothing found.       *)
IndexVanished ==
  /\ pc = "index" /\ ~ IndexExists
  /\ pc' = "points"
  /\ UNCHANGED <<db, query, sofar, allowed, pointers, loops, accVars, indexes, perCall>>

Cached == cached.name = Name(query)

(* audiodb_index_allocate: an index is read once, until the handle asks    *)
(* for one of another name; a file that is gone meanwhile is exit(1).      *)
Allocate ==
  /\ pc = "index" /\ IndexExists
  /\ pc' = "allocate"
  /\ UNCHANGED <<db, query, sofar, allowed, pointers, loops, accVars, indexes, perCall>>

LoadIndex ==
  /\ pc = "allocate"
  /\ lsh' = IF Cached THEN cached
            ELSE IF IndexExists THEN [name |-> Name(query), covers |-> files[Name(query)]]
            ELSE NoLsh
  /\ cached' = lsh'
  /\ pc' = IF lsh' = NoLsh THEN "dead" ELSE "shingles"
  /\ UNCHANGED <<db, query, sofar, allowed, pointers, loops, accVars, files, builds,
                 queue, seen, found, wild, reports, calls>>

(* audiodb_index_norm_shingles wants powers, whether or not it uses them.  *)
Refusal == QueryUnknown \/ QueryTooLong \/ QueryPointers.power = <<>>

MakeShingles ==
  /\ pc = "shingles"
  /\ IF Refusal THEN pc' = "refused" /\ UNCHANGED qpointers
     ELSE pc' = "retrieve" /\ qpointers' = QueryPointers
  /\ j' = 0
  /\ UNCHANGED <<db, query, sofar, allowed, dbpointers, filepos, track, k, buffer, dd, thresh,
                 accVars, indexes, perCall>>

-----------------------------------------------------------------------------
(* The callbacks of retrieve_point.                                        *)

(* Mutant: no set of what was added. *)
AddAgain(id) ==
  /\ seen' = seen
  /\ AddPoint([ikey |-> Key(TrackId(id)), qpos |-> ReportedQpos(j), ipos |-> TrackPos(id),
               dist |-> query.radius])

(* audiodb_index_add_point_approximate: the distance is the radius.        *)
AddApproximate(id) ==
  LET triple == <<Key(TrackId(id)), ReportedQpos(j), TrackPos(id)>>
  IN  IF triple \in seen THEN UNCHANGED <<seen, accVars>>
      ELSE /\ seen' = seen \cup {triple}
           /\ AddPoint([ikey |-> triple[1], qpos |-> triple[2], ipos |-> triple[3],
                        dist |-> query.radius])

AddExact(id) ==
  queue' = queue (+) SetToBag({[trackID |-> TrackId(id), qpos |-> ReportedQpos(j), spos |-> TrackPos(id)]})

Report ==
  /\ pc = "retrieve" /\ Searched(j) /\ reports < MaxReports
  /\ reports' = reports + 1
  /\ \E id \in Ids(lsh) :
       /\ found' = found \cup {<<j, id>>}
       /\ IF Key(TrackId(id)) \notin allowed THEN UNCHANGED <<queue, seen, accVars>>
          ELSE IF Exact THEN AddExact(id) /\ UNCHANGED <<seen, accVars>>
          ELSE AddApproximate(id) /\ UNCHANGED queue
  /\ UNCHANGED <<db, query, pc, sofar, allowed, pointers, loops, indexes, lsh, wild, calls>>

NextShingle ==
  /\ pc = "retrieve"
  /\ reports' = 0
  /\ IF j < LastWindow(QueryCount) THEN j' = j + 1 /\ UNCHANGED <<pc, track>>
     ELSE /\ j' = 0 /\ track' = NumFiles
          /\ pc' = IF Exact THEN "evaluate" ELSE "points"
  /\ UNCHANGED <<db, query, sofar, allowed, pointers, filepos, k, buffer, dd, thresh,
                 accVars, indexes, lsh, queue, seen, found, wild, calls>>

-----------------------------------------------------------------------------
(* audiodb_query_queue_loop.                                               *)

Greater(p, q) ==
  \/ p.trackID > q.trackID
  \/ p.trackID = q.trackID /\ (p.spos > q.spos \/ (p.spos = q.spos /\ p.qpos > q.qpos))

TopPair == CHOOSE p \in BagToSet(queue) : \A q \in BagToSet(queue) \ {p} : Greater(p, q)

TrackDoubles(t) == SubSeq(db.data, TrackOffset(t) + 1, TrackOffset(t) + TrackLength(t) * db.dim)

TrackPointers(t) ==
  [l2norm |-> SequenceSum(L2norms(TrackDoubles(t), TrackLength(t)), query.seqlen),
   power  |-> IF db.hasPower
              THEN SequenceSum(SubSeq(db.power, FirstVector(t) + 1, FirstVector(t) + TrackLength(t)),
                               query.seqlen)
              ELSE <<>>]

(* The windows of a shorter track are summed far beyond its arrays.        *)
TrackTooShort(t) == t # track /\ TrackLength(t) < query.seqlen

LoadTrack ==
  /\ pc = "evaluate" /\ queue # EmptyBag /\ TopPair.trackID # track
  /\ LET t == TopPair.trackID
     IN  IF TrackTooShort(t) THEN pc' = "dead" /\ UNCHANGED <<track, buffer, dbpointers>>
         ELSE /\ track' = t /\ buffer' = TrackDoubles(t) /\ dbpointers' = TrackPointers(t)
              /\ UNCHANGED pc
  /\ UNCHANGED <<db, query, sofar, allowed, qpointers, filepos, j, k, dd, thresh, accVars,
                 indexes, perCall>>

(* A track cannot be read: the rest of the queue is given up, the result   *)
(* is not looked at.                                                       *)
TrackUnread ==
  /\ pc = "evaluate" /\ queue # EmptyBag /\ TopPair.trackID # track
  /\ pc' = "points"
  /\ UNCHANGED <<db, query, sofar, allowed, pointers, loops, accVars, indexes, perCall>>

VectorSum(term(_)) == SumOf([w \in 1 .. query.seqlen |-> term(w - 1)])

(* Both directions, and infinite where one vector is zero and the other    *)
(* positive: beyond every radius, as NaN is.                               *)
SymmetricDivergence(v, w) ==
  IF \E i \in DOMAIN v : {v[i], w[i]} # {0} /\ 0 \in {v[i], w[i]} /\ v[i] + w[i] > 0 THEN NaN
  ELSE (Divergence(v, w) + Divergence(w, v)) \div 2

(* 1.0e9, whatever the vectors: no distance is computed for dot products.  *)
NotComputed == 1000000000

QueueDistance(a, b) ==
  LET v(w) == VectorAt(QueryDatum.doubles, QueryFirst + a + w)
      u(w) == VectorAt(buffer, b + w)
  IN  CASE query.distance = "dot_product" -> NotComputed
        [] query.distance = "kullback_leibler" -> VectorSum(LAMBDA w : SymmetricDivergence(v(w), u(w)))
        [] OTHER -> Distance(VectorSum(LAMBDA w : DotProduct(v(w), u(w))),
                             qpointers.l2norm[QueryFirst + a + 1], dbpointers.l2norm[b + 1])

(* Mutant: the position that is reported. *)
ReportedPosition(pair) == pair.qpos

(* Without the exhaustive flag the query's pointers are at the window.     *)
QueuePosition(pair) == IF Exhaustive THEN pair.qpos ELSE 0

InsideTrack(a, b) == a <= LastWindow(QueryCount) /\ b <= LastWindow(TrackLength(track))

(* Powers are read before the position is compared: behind a track they    *)
(* are anything, without powers there is a null pointer.                   *)
BehindPowers(b) == UsesPower /\ b + 1 > Len(dbpointers.power)

QueuePowersMatch(a, b) ==
  UsesPower => PowersAcceptable(qpointers.power[QueryFirst + a + 1], dbpointers.power[b + 1])

AddEvaluated(p) ==
  IF <<p.ikey, p.qpos, p.ipos>> \in seen THEN UNCHANGED <<seen, accVars>>
  ELSE seen' = seen \cup {<<p.ikey, p.qpos, p.ipos>>} /\ AddPoint(p)

Evaluate ==
  /\ pc = "evaluate" /\ queue # EmptyBag /\ TopPair.trackID = track
  /\ LET pair == TopPair
         a == QueuePosition(pair)
         b == pair.spos
         dist == QueueDistance(a, b)
     IN  /\ queue' = queue (-) SetToBag({pair})
         /\ wild' = (wild \/ BehindPowers(b))
         /\ IF UsesPower /\ ~ db.hasPower THEN pc' = "dead" ELSE UNCHANGED pc
         /\ IF ~ BehindPowers(b) /\ QueuePowersMatch(a, b) /\ InsideTrack(a, b) /\ Within(dist, Radius)
            THEN AddEvaluated([ikey |-> Key(track), qpos |-> pair.qpos, ipos |-> b, dist |-> dist])
            ELSE UNCHANGED <<seen, accVars>>
  /\ UNCHANGED <<db, query, sofar, allowed, pointers, loops, indexes, lsh, found, reports, calls>>

QueueEmpty ==
  /\ pc = "evaluate" /\ queue = EmptyBag
  /\ pc' = "points"
  /\ UNCHANGED <<db, query, sofar, allowed, pointers, loops, accVars, indexes, perCall>>

-----------------------------------------------------------------------------
(* Another call on the same handle.                                        *)
NextCall ==
  /\ pc \in {"done", "refused"} /\ calls < MaxCalls
  /\ calls' = calls + 1
  /\ query' \in Queries
  /\ params' = [accumulation |-> query'.accumulation, distance |-> query'.distance,
                npoints |-> query'.npoints, ntracks |-> query'.ntracks]
  /\ offered' = <<>> /\ queues' = << >> /\ thresholds' = << >>
  /\ ranked' = {} /\ ranking' = {} /\ size' = 0 /\ results' = NoResults
  /\ pc' = "start" /\ sofar' = 0 /\ allowed' = {}
  /\ filepos' = 0 /\ track' = 0 /\ j' = 0 /\ k' = 0 /\ buffer' = <<>> /\ dd' = <<>>
  /\ qpointers' = <<>> /\ dbpointers' = <<>> /\ thresh' = Infinity
  /\ lsh' = NoLsh /\ queue' = EmptyBag /\ seen' = {}
  /\ found' = {} /\ wild' = FALSE /\ reports' = 0
  /\ UNCHANGED <<db, indexes>>

(* The steps of Query that are taken with or without an index. *)
CallSteps ==
  /\ \/ AllowKeys \/ AddSoFar \/ Collect
     \/ ~ UseIndex /\ (SetUp \/ Refuse)
     \/ NextTrack \/ LastTrack \/ Window
  /\ UNCHANGED <<indexes, perCall>>

IndexedNext ==
  \/ CallSteps \/ NextCall \/ Build
  \/ Dispatch \/ IndexVanished \/ Allocate \/ LoadIndex \/ MakeShingles
  \/ Report \/ NextShingle \/ LoadTrack \/ TrackUnread \/ Evaluate \/ QueueEmpty

IndexedSpec == IndexedInit /\ [][IndexedNext]_allVars
-----------------------------------------------------------------------------
Newer == lsh # NoLsh /\ Len(lsh.covers) > NumFiles

Fresh == SubSeq(offered, Cardinality(Earlier) + 1, Len(offered))

(* No point is added twice, however many tables, probes and windows report  *)
(* it (query-indexed.cpp:59, query.cpp:521).                                *)
AddedOnce ==
  lsh # NoLsh => \A m, n \in DOMAIN Fresh :
    (/\ Fresh[m].ikey = Fresh[n].ikey /\ Fresh[m].qpos = Fresh[n].qpos
     /\ Fresh[m].ipos = Fresh[n].ipos) => m = n

(* The windows the index has reported, as the exhaustive search would count *)
(* them.                                                                    *)
WasFound(h) ==
  \E x \in found, t \in 0 .. NumFiles - 1 :
    /\ Key(t) = h.ikey /\ FirstVector(t) + h.ipos = x[2] /\ ReportedQpos(x[1]) = h.qpos

AsExhaustive ==
  /\ lsh # NoLsh /\ Exact /\ ~ MissingTables
  /\ query.flags \cap {"hop", "duration"} = {}
  /\ query.distance \in {"euclidean", "euclidean_normed"}

(* An exact indexed query adds what the exhaustive one would add of the     *)
(* windows its index reported, and nothing else, with the same distances:   *)
(* also when the index is older or newer than the handle's view of the      *)
(* database (query.cpp:452-537).  With a track that cannot be read it adds  *)
(* fewer.  Hops and durations are ignored, the other distances differ.      *)
ExhaustiveOnFound ==
  (pc = "done" /\ AsExhaustive) =>
    LET hits == {h \in Hits : WasFound(h)}
    IN  IF queue = EmptyBag THEN Range(Fresh) = hits ELSE Range(Fresh) \subseteq hits

(* The exact evaluation reads powers behind a track, or sums windows of a   *)
(* track that has none, only with an index newer than the handle or a       *)
(* threshold on a database without powers (query.cpp:485, 495); else the    *)
(* process dies only when the index is removed while it is opened.          *)
SoundUnlessNewer ==
  (wild \/ (pc = "dead" /\ lsh # NoLsh)) => (Newer \/ (UsesPower /\ ~ db.hasPower))
=============================================================================
