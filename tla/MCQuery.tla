------------------------------ MODULE MCQuery ------------------------------
(***************************************************************************)
(* Instances of Query for TLC.  The databases have a track shorter than    *)
(* the query, zero vectors, vectors that differ from others by sign only,  *)
(* and silence.  Vectors are two-dimensional, so that doubles, vectors and *)
(* tracks are counted differently.  The times of the first database are    *)
(* such that each track has the duration that the first times of the       *)
(* database have, and a mean of its own; in the second they are not.       *)
(***************************************************************************)
EXTENDS Query

Database(tracks, features) ==
  [keys    |-> [t \in DOMAIN tracks |-> tracks[t].key],
   lengths |-> [t \in DOMAIN tracks |-> Len(tracks[t].vectors)],
   dim     |-> 2,
   offsets |-> LET start == Starts(Len(tracks), [i \in 0 .. Len(tracks) - 1 |-> Len(tracks[i + 1].vectors)])
               IN  [t \in DOMAIN tracks |-> 2 * start[t - 1]],
   data    |-> FlattenSeq([t \in DOMAIN tracks |-> FlattenSeq(tracks[t].vectors)]),
   power   |-> FlattenSeq([t \in DOMAIN tracks |-> tracks[t].power]),
   times   |-> FlattenSeq([t \in DOMAIN tracks |-> tracks[t].times]),
   hasPower |-> "power" \in features, hasTimes |-> "times" \in features,
   references |-> "references" \in features]

Track(key, vectors, power, times) ==
  [key |-> key, vectors |-> vectors, power |-> power, times |-> times]

A == Track("a", << <<3, 0>>, <<0, 4>>, <<3, 0>> >>, <<0, -1, NegInf>>, <<1, 3, 8>>)
B == Track("b", << <<0, 4>> >>, <<0>>, <<1>>)
C == Track("c", << <<0, 0>>, <<0, 0>>, <<-4, 0>>, <<3, 0>> >>, <<NegInf, -3, -2, 0>>, <<5, 5, 2, 1>>)
D == Track("d", << <<3, 0>>, <<4, 1>> >>, <<-1, -1>>, <<2, 2>>)

SmallDatabases == {Database(<<A, B, C, D>>, {"power", "times"}),
                   Database(<<[B EXCEPT !.times = <<9>>], D>>, {"times"})}

Datum(vectors, power, times) ==
  [given |-> TRUE, key |-> "", doubles |-> FlattenSeq(vectors), n |-> Len(vectors), dim |-> Len(vectors[1]),
   power |-> power, times |-> times, hasPower |-> TRUE, hasTimes |-> TRUE]

Mine     == Datum(<< <<3, 0>>, <<0, 4>>, <<4, 0>> >>, <<0, 0, -4>>, <<2, 2, 2>>)
Narrow   == Datum(<< <<3>>, <<4>> >>, <<0, 0>>, <<2, 2>>)
Named(key) == [Mine EXCEPT !.given = FALSE, !.key = key]

Plain ==
  [datum |-> Mine, seqlen |-> 2, start |-> 0, idflags |-> {"exhaustive"},
   accumulation |-> "db", distance |-> "euclidean_normed", npoints |-> 2, ntracks |-> 1,
   flags |-> {}, include |-> {}, exclude |-> {}, radius |-> 0, absolute |-> 0, relative |-> 0,
   ratio |-> 1, qhop |-> 0, ihop |-> 0, sofar |-> <<>>]

Asking(q) ==
  {q, [q EXCEPT !.seqlen = 1], [q EXCEPT !.idflags = {}, !.start = 1],
   [q EXCEPT !.datum = Named("c")], [q EXCEPT !.datum = Named("d"), !.idflags = {}, !.seqlen = 1]}

Refining(q) ==
  {q,
   [q EXCEPT !.flags = {"include"}, !.include = {"c", "d", "e"}],
   [q EXCEPT !.flags = {"include", "exclude"}, !.include = {"a", "c"}, !.exclude = {"a"}],
   [q EXCEPT !.flags = {"exclude"}, !.exclude = {"b", "c"}],
   [q EXCEPT !.flags = {"radius"}, !.radius = 100],
   [q EXCEPT !.flags = {"absolute"}, !.absolute = -2],
   [q EXCEPT !.flags = {"relative", "radius"}, !.relative = -1, !.radius = 300],
   [q EXCEPT !.flags = {"duration"}],
   [q EXCEPT !.flags = {"hop"}, !.ihop = 2], [q EXCEPT !.flags = {"hop", "radius"}, !.radius = -200],
   [q EXCEPT !.flags = {"hop"}, !.qhop = 2, !.npoints = 1],
   [q EXCEPT !.sofar = <<[ikey |-> "e", qpos |-> 0, ipos |-> 1, dist |-> 60],
                         [ikey |-> "a", qpos |-> 0, ipos |-> 7, dist |-> NaN],
                         [ikey |-> "a", qpos |-> 1, ipos |-> 5, dist |-> 150]>>]}

Accumulating(q) ==
  {q, [q EXCEPT !.npoints = 1], [q EXCEPT !.accumulation = "per_track"],
   [q EXCEPT !.accumulation = "per_track", !.npoints = 1, !.ntracks = 2],
   [q EXCEPT !.accumulation = "one_to_one"]}

Measuring(q) == {[q EXCEPT !.distance = d] : d \in Distances \ {"kullback_leibler"}}

SmallQueries ==
  UNION {UNION {UNION {Measuring(q3) : q3 \in Accumulating(q2)} : q2 \in Refining(q1)} :
           q1 \in Asking(Plain)}
  \cup {[Plain EXCEPT !.distance = "kullback_leibler", !.npoints = 1],
        [Plain EXCEPT !.sofar = <<[ikey |-> "a", qpos |-> 0, ipos |-> 0, dist |-> 0]>>]}
  \cup {[Plain EXCEPT !.datum = Narrow], [Plain EXCEPT !.start = 2],
        [Plain EXCEPT !.datum = Named("e")]}

ParamsOf(queries) ==
  {[accumulation |-> q.accumulation, distance |-> q.distance,
    npoints |-> q.npoints, ntracks |-> q.ntracks] : q \in queries}
SmallParams == ParamsOf(SmallQueries)
=============================================================================
