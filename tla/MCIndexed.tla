------------------------------ MODULE MCIndexed ------------------------------
(***************************************************************************)
(* Instances of IndexedQuery: a handle that knows three tracks, one of     *)
(* them shorter than the longer query, and indexes of two, three and four  *)
(* tracks.                                                                 *)
(***************************************************************************)
EXTENDS IndexedQuery

Database(tracks, power) ==
  [keys    |-> [t \in DOMAIN tracks |-> tracks[t].key],
   lengths |-> [t \in DOMAIN tracks |-> Len(tracks[t].vectors)],
   dim     |-> 2,
   offsets |-> LET start == Starts(Len(tracks), [i \in 0 .. Len(tracks) - 1 |-> Len(tracks[i + 1].vectors)])
               IN  [t \in DOMAIN tracks |-> 2 * start[t - 1]],
   data    |-> FlattenSeq([t \in DOMAIN tracks |-> FlattenSeq(tracks[t].vectors)]),
   power   |-> IF power THEN FlattenSeq([t \in DOMAIN tracks |-> tracks[t].power]) ELSE <<>>,
   times   |-> <<>>, hasPower |-> power, hasTimes |-> FALSE, references |-> FALSE]

Track(key, vectors, power) == [key |-> key, vectors |-> vectors, power |-> power]

A == Track("a", << <<3, 0>>, <<0, 4>> >>, <<0, -1>>)
B == Track("b", << <<0, 4>> >>, <<0>>)
C == Track("c", << <<3, 0>>, <<0, 4>>, <<0, 4>> >>, <<-3, -2, 0>>)

TwoDatabases == {Database(<<A, B, C>>, TRUE), Database(<<C, A>>, FALSE), Database(<<A, B>>, TRUE)}

ThreeCoverages == {<<2, 1>>, <<2, 1, 3>>, <<2, 1, 3, 2>>, <<3, 2>>}

Mine == [given |-> TRUE, key |-> "", doubles |-> <<3, 0, 0, 4, 4, 0>>, n |-> 3, dim |-> 2,
         power |-> <<0, 0, -4>>, times |-> <<>>, hasPower |-> TRUE, hasTimes |-> FALSE]

Plain ==
  [datum |-> Mine, seqlen |-> 2, start |-> 0, idflags |-> {"exhaustive"},
   accumulation |-> "db", distance |-> "euclidean", npoints |-> 2, ntracks |-> 1,
   flags |-> {"radius"}, include |-> {}, exclude |-> {"a"}, radius |-> 32, absolute |-> -2, relative |-> 1,
   ratio |-> 1, qhop |-> 0, ihop |-> 0, sofar |-> <<>>]

SmallQueries ==
  {Plain,
   [Plain EXCEPT !.idflags = {"exhaustive", "approximate"}, !.accumulation = "per_track"],
   [Plain EXCEPT !.idflags = {}, !.start = 1, !.flags = {"radius", "relative"}],
   [Plain EXCEPT !.seqlen = 1, !.idflags = {}, !.datum.given = FALSE, !.datum.key = "a"],
   [Plain EXCEPT !.flags = {"radius", "exclude", "absolute"}],
   [Plain EXCEPT !.distance = "dot_product"],
   [Plain EXCEPT !.distance = "kullback_leibler"]}

SmallParams ==
  {[accumulation |-> q.accumulation, distance |-> q.distance,
    npoints |-> q.npoints, ntracks |-> q.ntracks] : q \in SmallQueries}
=============================================================================
