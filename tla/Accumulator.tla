----------------------------- MODULE Accumulator -----------------------------
(***************************************************************************)
(* The accumulators: what add_point keeps of the points of a query, and    *)
(* what get_points returns of them.                                        *)
(*                                                                         *)
(* `offered' is the history of points that reached add_point with a        *)
(* distance; a point is named by its position in it.  A queue, or the set  *)
(* of NearestAccumulator, is the set of points it holds.  Which of several *)
(* equally bad points a priority_queue drops is up to its implementation.  *)
(***************************************************************************)
EXTENDS Doubles, FiniteSetsExt

CONSTANTS
  WholeDB,              \* the one group of DBAccumulator
  Params                \* the adb_query_parameters_t in use

Accumulations == {"db", "per_track", "one_to_one"}
Distances == {"dot_product", "euclidean_normed", "euclidean", "kullback_leibler"}

(* pointNN = 0 makes add_point read top() of an empty queue: out of scope. *)
ASSUME ParamsAssumption ==
  \A p \in Params : /\ p.accumulation \in Accumulations /\ p.distance \in Distances
                    /\ p.npoints \in Nat \ {0} /\ p.ntracks \in Nat

VARIABLES
  params,
  offered,      \* history of the points added
  queues,       \* the points kept, by group
  thresholds,   \* _threshold or _thresholds, by group; absent is infinity
  ranked,       \* the tracks get_points has taken out of the map of queues
  ranking,      \* those of them in its queue of tracks
  size,         \* the length of the array of results
  results       \* the points returned, NoResults before

accVars == <<params, offered, queues, thresholds, ranked, ranking, size, results>>
filling == <<offered, queues, thresholds>>
emptying == <<ranked, ranking, size, results>>

NoResults == {0}        \* no point has position 0

Better(p, q) == IF params.distance = "dot_product" THEN p.dist > q.dist ELSE p.dist < q.dist

(* One queue in all, one for each track, one place for each query position. *)
GroupOf(accumulation, p) == CASE accumulation = "db"         -> WholeDB
                              [] accumulation = "per_track"  -> p.ikey
                              [] accumulation = "one_to_one" -> p.qpos

Group(p) == GroupOf(params.accumulation, p)

Held(group) == IF group \in DOMAIN queues THEN queues[group] ELSE {}

Threshold(key) ==
  LET group == IF params.accumulation = "db" THEN WholeDB ELSE key
  IN  IF group \in DOMAIN thresholds THEN thresholds[group] ELSE Infinity

-----------------------------------------------------------------------------
AccInit ==
  /\ params \in Params
  /\ offered = <<>>
  /\ queues = << >>
  /\ thresholds = << >>
  /\ ranked = {} /\ ranking = {} /\ size = 0
  /\ results = NoResults

(* top(): the worst points of a queue. *)
Tops(points, queue) == {i \in queue : \A j \in queue : ~ Better(points[i], points[j])}

(* Mutant: the best point is dropped, not the worst. *)
DropsBest(points, queue) ==
  IF Cardinality(queue) > params.npoints
  THEN {queue \ {i} : i \in {b \in queue : \A j \in queue : ~ Better(points[j], points[b])}}
  ELSE {queue}

(* pop() when the queue has become longer than pointNN. *)
Popped(points, queue) ==
  IF Cardinality(queue) > params.npoints
  THEN {queue \ {i} : i \in Tops(points, queue)} ELSE {queue}

Put(f, group, value) == [g \in DOMAIN f \cup {group} |-> IF g = group THEN value ELSE f[g]]

(* Mutant: the threshold is the distance of the point just added. *)
ThresholdOfNew(points, queue) == points[Len(points)].dist

TopDistance(points, queue) == points[CHOOSE i \in Tops(points, queue) : TRUE].dist

AddToQueue(p) ==
  LET points == Append(offered, p)
      group  == Group(p)
  IN  \E queue \in Popped(points, Held(group) \cup {Len(points)}) :
        /\ offered' = points
        /\ queues' = Put(queues, group, queue)
        /\ thresholds' = IF Cardinality(queue) = params.npoints
                         THEN Put(thresholds, group, TopDistance(points, queue))
                         ELSE thresholds

AddNearest(p) ==
  LET points == Append(offered, p)
  IN  /\ offered' = points
      /\ queues' = IF \A i \in Held(p.qpos) : Better(p, offered[i])
                   THEN Put(queues, p.qpos, {Len(points)}) ELSE queues
      /\ UNCHANGED thresholds

AddPoint(p) ==
  /\ IF p.dist = NaN THEN UNCHANGED filling
     ELSE IF params.accumulation = "one_to_one" THEN AddNearest(p) ELSE AddToQueue(p)
  /\ UNCHANGED <<params, emptying>>

(* What add_point leaves in *thresh. *)
Sharpened(thresh, p) ==
  IF /\ p.dist # NaN /\ params.accumulation # "one_to_one"
     /\ Cardinality(queues'[Group(p)]) = params.npoints
  THEN thresholds'[Group(p)] ELSE thresh

-----------------------------------------------------------------------------
Total(queue) == MapThenSumSet(LAMBDA i : offered[i].dist, queue)

(* Mutant: the sums are not divided by the number of points. *)
BetterInTotal(k1, k2) ==
  IF params.distance = "dot_product" THEN Total(queues[k1]) > Total(queues[k2])
  ELSE Total(queues[k1]) < Total(queues[k2])

(* Compares the average distances of two tracks. *)
BetterTrack(k1, k2) ==
  LET a == Total(queues[k1]) * Cardinality(queues[k2])
      b == Total(queues[k2]) * Cardinality(queues[k1])
  IN  IF params.distance = "dot_product" THEN a > b ELSE a < b

WorstTracks(keys) == {k \in keys : \A l \in keys : ~ BetterTrack(k, l)}

(* Mutant: the dropped track stays counted. *)
CountsNone(k) == 0

(* How many points of the dropped track are taken off the count. *)
DroppedPoints(k) == Cardinality(queues[k])

(* get_points of PerTrackAccumulator takes a track from the map, ranks it   *)
(* by its average, and drops the worst when there are more than trackNN.    *)
(* The map is in the order of the keys' strings: any order.                 *)
RankTrack ==
  /\ params.accumulation = "per_track" /\ results = NoResults
  /\ \E k \in DOMAIN queues \ ranked :
       LET keys == ranking \cup {k}
           more == size + Cardinality(queues[k])
       IN  /\ ranked' = ranked \cup {k}
           /\ IF Cardinality(keys) > params.ntracks
              THEN \E w \in WorstTracks(keys) :
                     ranking' = keys \ {w} /\ size' = more - DroppedPoints(w)
              ELSE ranking' = keys /\ size' = more
  /\ UNCHANGED <<params, filling, results>>

(* The other two return all they hold. *)
GetPoints ==
  /\ results = NoResults
  /\ IF params.accumulation = "per_track"
     THEN /\ ranked = DOMAIN queues
          /\ results' = UNION {queues[k] : k \in ranking} /\ UNCHANGED size
     ELSE /\ results' = UNION {queues[g] : g \in DOMAIN queues} /\ size' = Cardinality(results')
  /\ UNCHANGED <<params, filling, ranked, ranking>>

-----------------------------------------------------------------------------
Added == 1 .. Len(offered)

Capacity == IF params.accumulation = "one_to_one" THEN 1 ELSE params.npoints

Offers(group) == {i \in Added : Group(offered[i]) = group}

(* Of every group, exactly the best points offered are kept, as many as     *)
(* there is room for: whatever the order they came in.                      *)
KeepsBest ==
  \A g \in {Group(offered[i]) : i \in Added} :
    LET kept == Held(g)  all == Offers(g)
    IN  /\ kept \subseteq all
        /\ Cardinality(kept) = IF Cardinality(all) < Capacity THEN Cardinality(all) ELSE Capacity
        /\ \A i \in kept, j \in all \ kept : ~ Better(offered[j], offered[i])

(* A queue that is full, and no other, has a threshold: the distance of the *)
(* worst point it keeps.                                                    *)
ThresholdIsWorstKept ==
  params.accumulation # "one_to_one" =>
    \A g \in DOMAIN queues :
      IF Cardinality(queues[g]) < params.npoints THEN g \notin DOMAIN thresholds
      ELSE /\ g \in DOMAIN thresholds
           /\ \E i \in queues[g] : offered[i].dist = thresholds[g]
           /\ \A i \in queues[g] : ~ Better([dist |-> thresholds[g]], offered[i])

(* get_points of PerTrackAccumulator returns all that was kept of trackNN   *)
(* tracks, or of all when there are fewer, none of which has a worse average*)
(* than a track left out; and the array it allocated is exactly filled.     *)
BestTracks ==
  (params.accumulation = "per_track" /\ results # NoResults) =>
    LET keys == {k \in DOMAIN queues : queues[k] \subseteq results}
        n    == Cardinality(DOMAIN queues)
        (* Over all pairs of their points: the sign tells the averages apart. *)
        Lead(k, l)  == MapThenSumSet(LAMBDA ij : offered[ij[1]].dist - offered[ij[2]].dist,
                                     queues[k] \X queues[l])
    IN  /\ results = UNION {queues[k] : k \in keys}
        /\ Cardinality(keys) = IF n < params.ntracks THEN n ELSE params.ntracks
        /\ \A k \in keys, l \in DOMAIN queues \ keys :
             IF params.distance = "dot_product" THEN Lead(k, l) >= 0 ELSE Lead(k, l) <= 0

ArrayFilled == results # NoResults => size = Cardinality(results)

(* The threshold of a group only gets harder to meet, so that a point once  *)
(* beyond it is of no use later either (the query loops do not offer those).*)
ThresholdTightens ==
  [][\A g \in DOMAIN thresholds :
       /\ g \in DOMAIN thresholds'
       /\ ~ Better([dist |-> thresholds[g]], [dist |-> thresholds'[g]])]_accVars
=============================================================================
