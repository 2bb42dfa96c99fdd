------------------------------- MODULE Sample -------------------------------
(***************************************************************************)
(* Random sampling: audiodb_sample_spec.  Distances between windows drawn  *)
(* at random, of two tracks of the database when the query has no datum    *)
(* (pairs), else of the query and of a track.  A draw may be any the       *)
(* generator can give; one that cannot be measured is drawn again.         *)
(***************************************************************************)
EXTENDS Query

VARIABLES
  track1,       \* the track of the first window; `track' is that of the second
  nsamples

sampleVars == <<vars, track1, nsamples>>

HopQuery == Hop(query.qhop)
HopTrack == Hop(query.ihop)

-----------------------------------------------------------------------------
(* Mutant: the windows of a track, one too many. *)
PropsMore(t) ==
  LET add == TrackLength(t) - query.seqlen + 2
  IN  IF Key(t) \in allowed /\ add > 0 THEN add ELSE 0

(* props: how many windows of a track can be drawn. *)
Props(t) ==
  LET add == TrackLength(t) - query.seqlen + 1
  IN  IF Key(t) \in allowed /\ add > 0 THEN add ELSE 0

(* audiodb_random_track: in proportion to props.  Without any window the   *)
(* sum divided by the total is NaN, and the answer -1.                     *)
NoTrack == -1
RandomTracks ==
  LET drawn == {t \in 0 .. NumFiles - 1 : Props(t) > 0} IN IF drawn = {} THEN {NoTrack} ELSE drawn

(* Mutant: rounded down. *)
OnHopsDown(n, hop) == {hop * m : m \in 0 .. n \div hop - 1}

(* What hop * gsl_rng_uniform_int(n rounded up to hops) can be; n = 0 is an *)
(* error, on which the GSL aborts the process.                             *)
OnHops(n, hop) == {hop * m : m \in 0 .. (n + hop - 1) \div hop - 1}

(* In the exhaustive case the last window of the query is not counted.     *)
QueryWindows == IF Exhaustive THEN OnHops(QueryCount - query.seqlen, HopQuery) ELSE {query.start}

-----------------------------------------------------------------------------
SampleInit == Init /\ track1 = 0 /\ nsamples = 0

SampleRefused ==
  \/ query.distance = "kullback_leibler"
  \/ db.references
  \/ ~ query.pairs /\ (QueryUnknown \/ QueryTooLong)
  \/ query.flags \cap {"radius", "duration"} # {}
  \/ params.accumulation # "db"

RefuseSample ==
  /\ pc = "sofar" /\ SampleRefused
  /\ pc' = "refused"
  /\ UNCHANGED <<db, query, sofar, allowed, pointers, loops, accVars, track1, nsamples>>

StartSample ==
  /\ pc = "sofar" /\ ~ SampleRefused
  /\ pc' = "draw"
  /\ UNCHANGED <<db, query, sofar, allowed, pointers, loops, accVars, track1, nsamples>>

(* Two tracks; equal ones are drawn again.  Equal they are, too, when there *)
(* is none to draw.                                                        *)
DrawPair ==
  /\ pc = "draw" /\ query.pairs /\ nsamples < query.npoints
  /\ track1' \in RandomTracks /\ track' \in RandomTracks
  /\ IF track1' = track' THEN UNCHANGED <<pc, j, k>>
     ELSE /\ j' \in OnHops(Props(track1'), HopTrack) /\ k' \in OnHops(Props(track'), HopTrack)
          /\ pc' = "measure"
  /\ UNCHANGED <<db, query, sofar, allowed, pointers, filepos, buffer, dd, thresh, accVars, nsamples>>

NothingToDraw == QueryWindows = {} \/ RandomTracks = {NoTrack}

Draw ==
  /\ pc = "draw" /\ ~ query.pairs /\ nsamples < query.npoints /\ ~ NothingToDraw
  /\ track' \in RandomTracks
  /\ j' \in QueryWindows /\ k' \in OnHops(Props(track'), HopTrack)
  /\ pc' = "measure"
  /\ UNCHANGED <<db, query, sofar, allowed, pointers, filepos, buffer, dd, thresh, accVars,
                 track1, nsamples>>

(* The GSL aborts, or props[-1] is read.                                   *)
DrawNothing ==
  /\ pc = "draw" /\ ~ query.pairs /\ nsamples < query.npoints /\ NothingToDraw
  /\ pc' = "dead"
  /\ UNCHANGED <<db, query, sofar, allowed, pointers, loops, accVars, track1, nsamples>>

DataWindow(t, i) ==
  LET from == (FirstVector(t) + i) * db.dim
  IN  SubSeq(db.data, from + 1, from + query.seqlen * db.dim)

QueryWindow(i) == SubSeq(QueryDatum.doubles, i * db.dim + 1, (i + query.seqlen) * db.dim)

(* Between two windows, NaN if one has a number that is not finite or, for *)
(* a normed distance, is zero.                                             *)
Measured(v, w) ==
  IF Range(v) \cup Range(w) \subseteq Int
  THEN Distance(DotProduct(v, w), DotProduct(v, v), DotProduct(w, w))
  ELSE NaN

SampleDistance ==
  Measured(IF query.pairs THEN DataWindow(track1, j) ELSE QueryWindow(j), DataWindow(track, k))

SamplePoint ==
  [qkey |-> IF query.pairs THEN Key(track1) ELSE "", ikey |-> Key(track),
   qpos |-> j, ipos |-> k, dist |-> SampleDistance]

(* Mutant: a window that cannot be measured counts. *)
AlwaysSampled(d) == TRUE

Sampled(d) == d # NaN

Measure ==
  /\ pc = "measure"
  /\ IF Sampled(SampleDistance) THEN AddPoint(SamplePoint) /\ nsamples' = nsamples + 1
     ELSE UNCHANGED <<accVars, nsamples>>
  /\ pc' = "draw"
  /\ UNCHANGED <<db, query, sofar, allowed, pointers, loops, track1>>

EnoughSamples ==
  /\ pc = "draw" /\ nsamples = query.npoints
  /\ pc' = "points"
  /\ UNCHANGED <<db, query, sofar, allowed, pointers, loops, accVars, track1, nsamples>>

SampleNext ==
  \/ (AllowKeys \/ Collect) /\ UNCHANGED <<track1, nsamples>>
  \/ RefuseSample \/ StartSample \/ DrawPair \/ Draw \/ DrawNothing \/ Measure \/ EnoughSamples

SampleSpec == SampleInit /\ [][SampleNext]_sampleVars

(* The call goes on, and the generator gives any result again and again:   *)
(* as long as some draw can be measured, one is drawn.                     *)
SampleFairness ==
  /\ WF_sampleVars(SampleNext)
  /\ SF_sampleVars((Draw \/ DrawPair) /\ (pc' = "measure" /\ SampleDistance' # NaN))

FairSampleSpec == SampleSpec /\ SampleFairness
-----------------------------------------------------------------------------

(* Every window that is read lies inside its track, a track that is allowed *)
(* and, of a pair, another one than its partner's; that of the query lies   *)
(* inside the query (sample.cpp:213-243).                                   *)
SampledInside ==
  pc = "measure" =>
    /\ Key(track) \in allowed /\ k + query.seqlen <= TrackLength(track) /\ OnHop(k, query.ihop)
    /\ IF query.pairs
       THEN track1 # track /\ Key(track1) \in allowed /\ j + query.seqlen <= TrackLength(track1)
       ELSE j + query.seqlen <= QueryDatum.n

(* The answer is as many points as were asked for, each with the distance   *)
(* of its windows: none that could not be measured is counted, and the      *)
(* accumulator drops none (sample.cpp:209, 260-286).                        *)
SampledInFull ==
  pc = "done" =>
    /\ Cardinality(results) = query.npoints
    /\ \A i \in results :
         LET p == offered[i]
             at(key) == CHOOSE t \in 0 .. NumFiles - 1 : Key(t) = key
         IN  p.dist = Measured(IF query.pairs THEN DataWindow(at(p.qkey), p.qpos) ELSE QueryWindow(p.qpos),
                               DataWindow(at(p.ikey), p.ipos))

(* Some draw can be measured.                                               *)
Windows(t) == IF Key(t) \in allowed THEN Starting(TrackLength(t), query.ihop) ELSE {}

Measurable ==
  \E t \in 0 .. NumFiles - 1 : \E b \in Windows(t) :
    IF query.pairs
    THEN \E u \in (0 .. NumFiles - 1) \ {t} : \E a \in Windows(u) :
           Measured(DataWindow(u, a), DataWindow(t, b)) # NaN
    ELSE \E a \in QueryWindows : Measured(QueryWindow(a), DataWindow(t, b)) # NaN

(* The loop ends unless nothing it may draw can be measured: of pairs, when *)
(* fewer than two tracks have windows, it never does (sample.cpp:228-232).  *)
SampleEnds == pc = "draw" ~> (pc \in {"done", "dead"} \/ ~ Measurable)
=============================================================================
