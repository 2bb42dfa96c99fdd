------------------------------ MODULE MCSample ------------------------------
(***************************************************************************)
(* Instances of Sample for TLC: three tracks, one too short for the longer *)
(* windows, one with a number that is not finite; and one track alone.     *)
(***************************************************************************)
EXTENDS Sample

Database(tracks, references) ==
  [keys    |-> [t \in DOMAIN tracks |-> tracks[t].key],
   lengths |-> [t \in DOMAIN tracks |-> Len(tracks[t].vectors)],
   dim     |-> 1,
   offsets |-> LET start == Starts(Len(tracks), [i \in 0 .. Len(tracks) - 1 |-> Len(tracks[i + 1].vectors)])
               IN  [t \in DOMAIN tracks |-> start[t - 1]],
   data    |-> FlattenSeq([t \in DOMAIN tracks |-> tracks[t].vectors]),
   power |-> <<>>, times |-> <<>>, hasPower |-> FALSE, hasTimes |-> FALSE,
   references |-> references]

Track(key, vectors) == [key |-> key, vectors |-> vectors]

A == Track("a", <<3, 0, 0, 2>>)
B == Track("b", <<1>>)
C == Track("c", <<NaN, 1, 4>>)

SampledDatabases ==
  {Database(<<A, B, C>>, FALSE), Database(<<A, B>>, FALSE), Database(<<B>>, FALSE), Database(<<A>>, TRUE)}

Mine == [given |-> TRUE, key |-> "", doubles |-> <<3, 1, 2>>, n |-> 3, dim |-> 1,
         power |-> <<>>, times |-> <<>>, hasPower |-> FALSE, hasTimes |-> FALSE]

Plain ==
  [datum |-> Mine, pairs |-> FALSE, seqlen |-> 2, start |-> 1, idflags |-> {"exhaustive"},
   accumulation |-> "db", distance |-> "euclidean_normed", npoints |-> 2, ntracks |-> 1,
   flags |-> {}, include |-> {}, exclude |-> {"a"}, radius |-> 0, absolute |-> 0, relative |-> 0,
   ratio |-> 1, qhop |-> 0, ihop |-> 2, sofar |-> <<>>]

Pairs(q) == [q EXCEPT !.pairs = TRUE]

SampledQueries ==
  {Plain, [Plain EXCEPT !.seqlen = 3], [Plain EXCEPT !.idflags = {}, !.distance = "euclidean"],
   [Plain EXCEPT !.start = 2], [Plain EXCEPT !.flags = {"hop"}, !.qhop = 2],
   [Plain EXCEPT !.datum = [Mine EXCEPT !.given = FALSE, !.key = "a"], !.start = 0, !.npoints = 3],
   Pairs(Plain), Pairs([Plain EXCEPT !.seqlen = 1, !.distance = "dot_product"]),
   Pairs([Plain EXCEPT !.flags = {"exclude"}]), Pairs([Plain EXCEPT !.flags = {"hop"}, !.seqlen = 1]),
   [Plain EXCEPT !.flags = {"radius"}], [Plain EXCEPT !.accumulation = "per_track"]}

SampledParams ==
  {[accumulation |-> q.accumulation, distance |-> q.distance,
    npoints |-> q.npoints, ntracks |-> q.ntracks] : q \in SampledQueries}
=============================================================================
