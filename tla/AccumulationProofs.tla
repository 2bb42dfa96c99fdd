------------------------- MODULE AccumulationProofs -------------------------
(***************************************************************************)
(* The accumulators keep the best of what they are offered, and return the *)
(* best of what they keep, for all parameters, points and orders in which  *)
(* the points come and the tracks are ranked.                              *)
(***************************************************************************)
EXTENDS Accumulator, OffsetsProofs, FiniteSetTheorems, SequenceTheorems, TLAPS

(* Any point may be added that has a distance or none (NaN), before results *)
(* are got.                                                                 *)
Adds ==
  /\ results = NoResults /\ ranked = {}
  /\ \E p : p.dist \in Int \cup {NaN} /\ AddPoint(p)

AccumulatorStep == Adds \/ RankTrack \/ GetPoints \/ UNCHANGED accVars

(* An accumulator on its own, whatever a query loop comes upon.             *)
AccNext == Adds \/ RankTrack \/ GetPoints

AccSpec == AccInit /\ [][AccNext]_accVars

LEMMA AccumulationSteps == [AccNext]_accVars => AccumulatorStep
  BY DEF AccNext, AccumulatorStep

(* A sequence, of whatever it is. *)
IsSequence(s) == s \in Seq({s[i] : i \in DOMAIN s})

LEMMA SequenceAppended ==
  ASSUME NEW s, IsSequence(s), NEW e
  PROVE  /\ IsSequence(Append(s, e)) /\ Len(s) \in Nat /\ DOMAIN s = 1 .. Len(s)
         /\ Len(Append(s, e)) = Len(s) + 1 /\ Append(s, e)[Len(s) + 1] = e
         /\ \A i \in 1 .. Len(s) : Append(s, e)[i] = s[i]
<1>1. PICK S : S = {s[i] : i \in DOMAIN s} \cup {e}
  OBVIOUS
<1>2. s \in Seq(S) /\ e \in S
  <2>1. PICK own : own = {s[i] : i \in DOMAIN s}
    OBVIOUS
  <2>2. s \in Seq(own) /\ own \subseteq S /\ e \in S
    BY <1>1, <2>1 DEF IsSequence
  <2> QED BY ONLY <2>2
<1>3. PICK q \in Seq(S), x \in S : q = s /\ x = e
  BY <1>2
<1>4. PICK r \in Seq(S) : r = Append(q, x)
  BY AppendProperties
<1>5. /\ Len(s) \in Nat /\ DOMAIN s = 1 .. Len(s)
      /\ Len(r) = Len(s) + 1 /\ r[Len(s) + 1] = e /\ \A i \in 1 .. Len(s) : r[i] = s[i]
  BY <1>3, <1>4
<1>6. r \in [1 .. Len(r) -> {r[i] : i \in DOMAIN r}] /\ Len(r) \in Nat
  OBVIOUS
<1>7. r \in Seq({r[i] : i \in DOMAIN r})
  <2>1. PICK own : own = {r[i] : i \in DOMAIN r}
    OBVIOUS
  <2>2. r \in [1 .. Len(r) -> own] /\ Len(r) \in Nat
    BY <1>6, <2>1
  <2>3. r \in Seq(own)
    BY ONLY <2>2
  <2> QED BY <2>1, <2>3
<1> QED BY <1>3, <1>4, <1>5, <1>7 DEF IsSequence

(* The inductive invariant: points that were added have a distance, and the *)
(* groups are those of the points; of each group the best are kept.         *)
Typed ==
  /\ params \in Params
  /\ IsSequence(offered)
  /\ \A i \in Added : offered[i].dist \in Int
  /\ DOMAIN queues = {Group(offered[i]) : i \in Added}

IInv == Typed /\ KeepsBest

(* What is kept of the points `all' of a group. *)
BestOf(points, kept, all) ==
  /\ kept \subseteq all
  /\ Cardinality(kept) = IF Cardinality(all) < Capacity THEN Cardinality(all) ELSE Capacity
  /\ \A i \in kept, j \in all \ kept : ~ Better(points[j], points[i])

(* Not being better is transitive: distances that are numbers are ordered. *)
LEMMA NotBetterTransitive ==
  ASSUME NEW p, NEW q, NEW r, p.dist \in Int, q.dist \in Int, r.dist \in Int,
         ~ Better(p, q), ~ Better(q, r)
  PROVE  ~ Better(p, r)
  BY DEF Better

(* A queue that held the best of a group, and is given one more point and   *)
(* popped when it is too long, holds the best of the group with that point. *)
LEMMA PopKeepsBest ==
  ASSUME NEW points, NEW all, IsFiniteSet(all), NEW n, n \notin all,
         \A i \in all \cup {n} : points[i].dist \in Int,
         Capacity = params.npoints, params.npoints \in Nat \ {0},
         NEW kept, BestOf(points, kept, all),
         NEW queue \in Popped(points, kept \cup {n})
  PROVE  BestOf(points, queue, all \cup {n})
<1>1. /\ kept \subseteq all /\ n \notin kept
      /\ IsFiniteSet(kept) /\ IsFiniteSet(kept \cup {n}) /\ IsFiniteSet(all \cup {n})
      /\ Cardinality(kept) \in Nat /\ Cardinality(all) \in Nat
      /\ Cardinality(kept \cup {n}) = Cardinality(kept) + 1
      /\ Cardinality(all \cup {n}) = Cardinality(all) + 1
  BY FS_Subset, FS_AddElement, FS_CardinalityType DEF BestOf
<1>2. CASE Cardinality(kept \cup {n}) > params.npoints
  <2>1. PICK w \in Tops(points, kept \cup {n}) : queue = (kept \cup {n}) \ {w}
    BY <1>2 DEF Popped
  <2>2. w \in kept \cup {n} /\ \A i \in kept \cup {n} : ~ Better(points[w], points[i])
    BY <2>1 DEF Tops
  <2>3. Cardinality(queue) = Cardinality(kept)
    <3>1. Cardinality((kept \cup {n}) \ {w}) = Cardinality(kept \cup {n}) - 1
      BY <1>1, <2>2, FS_RemoveElement
    <3> QED BY <1>1, <2>1, <3>1
  <2>4. Cardinality(kept) = Capacity /\ ~ Cardinality(all \cup {n}) < Capacity
    BY <1>1, <1>2 DEF BestOf
  <2>5. ASSUME NEW i \in queue, NEW l \in (all \cup {n}) \ queue
        PROVE  ~ Better(points[l], points[i])
    <3>1. CASE l = w
      BY <2>1, <2>2, <3>1
    <3>2. CASE l # w
      <4>1. l \in all \ kept
        BY <2>1, <2>5, <3>2
      <4>2. CASE i \in kept
        BY <4>1, <4>2 DEF BestOf
      <4>3. CASE i \notin kept
        <5>1. i = n /\ w \in kept
          BY <2>1, <2>2, <4>3
        <5>2. ~ Better(points[l], points[w]) /\ ~ Better(points[w], points[i])
          BY <2>2, <4>1, <5>1 DEF BestOf
        <5>3. points[l].dist \in Int /\ points[w].dist \in Int /\ points[i].dist \in Int
          BY <1>1, <4>1, <5>1
        <5> QED BY <5>2, <5>3, NotBetterTransitive
      <4> QED BY <4>2, <4>3
    <3> QED BY <3>1, <3>2
  <2> QED BY <1>1, <2>1, <2>3, <2>4, <2>5 DEF BestOf
<1>3. CASE ~ Cardinality(kept \cup {n}) > params.npoints
  <2>1. queue = kept \cup {n}
    BY <1>3 DEF Popped
  <2>2. Cardinality(kept) = Cardinality(all)
    BY <1>1, <1>3 DEF BestOf
  <2>3. kept = all
    BY <1>1, <2>2, FS_Subset
  <2> QED BY <1>1, <1>3, <2>1, <2>3 DEF BestOf
<1> QED BY <1>2, <1>3

-----------------------------------------------------------------------------
(* What a step that adds p makes of the history.                            *)
LEMMA Appended ==
  ASSUME Typed, NEW p, p.dist \in Int
  PROVE  LET points == Append(offered, p)  n == Len(offered) + 1
         IN  /\ IsSequence(points) /\ Len(points) = n /\ n \notin Added
             /\ 1 .. n = Added \cup {n}
             /\ points[n] = p /\ \A i \in Added : points[i] = offered[i]
             /\ \A i \in 1 .. n : points[i].dist \in Int
<1> DEFINE points == Append(offered, p)
           n == Len(offered) + 1
<1>1. IsSequence(offered) /\ Len(offered) \in Nat
  BY SequenceAppended DEF Typed
<1>2. IsSequence(points) /\ Len(points) = n /\ points[n] = p
      /\ \A i \in Added : points[i] = offered[i]
  BY <1>1, SequenceAppended DEF Added
<1>3. n \notin Added /\ 1 .. n = Added \cup {n}
  BY <1>1 DEF Added
<1> HIDE DEF points, n
<1>4. \A i \in 1 .. n : points[i].dist \in Int
  BY <1>2, <1>3 DEF Typed
<1> QED BY <1>2, <1>3, <1>4 DEF points, n

(* The invariant, with the group of a point written out as BestOf.          *)
LEMMA KeepsBestOf ==
  ASSUME Typed
  PROVE  KeepsBest <=> \A g \in DOMAIN queues : BestOf(offered, Held(g), Offers(g))
  BY DEF Typed, KeepsBest, BestOf

LEMMA OffersFinite == ASSUME Typed, NEW g PROVE IsFiniteSet(Offers(g)) /\ IsFiniteSet(Added)
<1>1. Len(offered) \in Nat
  BY DEF Typed
<1>2. IsFiniteSet(Added)
  BY <1>1, FS_Interval DEF Added
<1> QED BY <1>2, FS_Subset DEF Offers

(* Of a group that no point was in, the best are none. *)
LEMMA HeldAreBest ==
  ASSUME IInv, NEW g
  PROVE  BestOf(offered, Held(g), Offers(g))
<1>1. CASE g \in DOMAIN queues
  BY <1>1, KeepsBestOf DEF IInv
<1>2. CASE g \notin DOMAIN queues
  <2>1. Held(g) = {} /\ Offers(g) = {}
    BY <1>2 DEF Held, Offers, IInv, Typed
  <2>2. Capacity \in Nat \ {0}
    BY ParamsAssumption DEF Capacity, IInv, Typed
  <2> QED BY <2>1, <2>2, FS_EmptySet DEF BestOf
<1> QED BY <1>1, <1>2

(* A step that adds p, and leaves the best of p's group and all else alone, *)
(* preserves the invariant.                                                 *)
LEMMA OneGroupChanges ==
  ASSUME IInv, NEW p, p.dist \in Int, NEW queue,
         params' = params, offered' = Append(offered, p),
         DOMAIN queues' = DOMAIN queues \cup {Group(p)}, queues'[Group(p)] = queue,
         \A h \in DOMAIN queues \ {Group(p)} : queues'[h] = queues[h],
         BestOf(offered', queue, Offers(Group(p)) \cup {Len(offered) + 1})
  PROVE  IInv'
<1> DEFINE g == Group(p)
           n == Len(offered) + 1
           Kind(q) == GroupOf(params.accumulation, q)
<1>1. /\ IsSequence(offered') /\ Added' = Added \cup {n} /\ n \notin Added
      /\ offered'[n] = p /\ \A i \in Added : offered'[i] = offered[i]
      /\ \A i \in Added' : offered'[i].dist \in Int
  BY Appended DEF IInv, Added
<1>3. Capacity' = Capacity
  BY DEF Capacity
<1>4. DOMAIN queues' = DOMAIN queues \cup {g}
      /\ queues'[g] = queue /\ \A h \in DOMAIN queues \ {g} : queues'[h] = queues[h]
  OBVIOUS
<1> HIDE DEF n
<1>5. \A i \in Added : Kind(offered'[i]) = Kind(offered[i])
  BY <1>1
<1>6. Kind(offered'[n]) = g
  BY <1>1 DEF Group
<1> HIDE DEF g
<1>7. DOMAIN queues' = {Kind(offered'[i]) : i \in Added'}
  <2>1. DOMAIN queues = {Kind(offered[i]) : i \in Added}
    BY DEF IInv, Typed, Group
  <2> HIDE DEF Kind
  <2>2. Added' = Added \cup {n}
    BY <1>1
  <2>3. {Kind(offered'[i]) : i \in Added \cup {n}} = {Kind(offered[i]) : i \in Added} \cup {g}
    BY <1>5, <1>6
  <2> QED BY <1>4, <2>1, <2>2, <2>3
<1>8. ASSUME NEW h \in DOMAIN queues' PROVE BestOf(offered', Held(h)', Offers(h)')
  <2>1. CASE h = g
    <3>1. Offers(h)' = Offers(g) \cup {n}
      <4>1. Offers(h)' = {i \in Added' : Kind(offered'[i]) = h} /\ Offers(g) = {i \in Added : Kind(offered[i]) = g}
        BY DEF Offers, Group
      <4> HIDE DEF Kind
      <4> QED BY <1>1, <1>5, <1>6, <2>1, <4>1
    <3>2. Held(h)' = queue
      BY <1>4, <2>1 DEF Held
    <3> QED BY <3>1, <3>2 DEF g, n
  <2>2. CASE h # g
    <3>1. Offers(h)' = Offers(h)
      <4>1. Offers(h)' = {i \in Added' : Kind(offered'[i]) = h} /\ Offers(h) = {i \in Added : Kind(offered[i]) = h}
        BY DEF Offers, Group
      <4> HIDE DEF Kind
      <4> QED BY <1>1, <1>5, <1>6, <2>2, <4>1
    <3>2. Held(h)' = Held(h)
      BY <1>4, <2>2 DEF Held
    <3>3. BestOf(offered, Held(h), Offers(h))
      BY HeldAreBest
    <3> QED BY <1>1, <3>1, <3>2, <3>3 DEF BestOf, Offers
  <2> QED BY <2>1, <2>2
<1>9. Typed'
  BY <1>1, <1>7 DEF IInv, Typed, Group
<1>10. KeepsBest'
  <2> SUFFICES ASSUME NEW h \in DOMAIN queues'
               PROVE  /\ Held(h)' \subseteq Offers(h)'
                      /\ Cardinality(Held(h)') = IF Cardinality(Offers(h)') < Capacity'
                                               THEN Cardinality(Offers(h)') ELSE Capacity'
                      /\ \A i \in Held(h)', l \in Offers(h)' \ Held(h)' :
                           ~ Better(offered[l], offered[i])'
    BY <1>7 DEF KeepsBest, Group
  <2>1. \A i, l : Better(offered[l], offered[i])' <=> Better(offered'[l], offered'[i])
    BY DEF Better
  <2> QED BY <1>3, <1>8, <2>1 DEF BestOf
<1> QED BY <1>9, <1>10 DEF IInv

LEMMA AddToQueueStep ==
  ASSUME IInv, NEW p, p.dist \in Int, params.accumulation # "one_to_one",
         AddToQueue(p), params' = params
  PROVE  IInv'
<1> DEFINE g == Group(p)
           n == Len(offered) + 1
<1>1. Capacity = params.npoints /\ params.npoints \in Nat \ {0}
  BY ParamsAssumption DEF Capacity, IInv, Typed
<1>2. /\ Len(offered') = n /\ n \notin Added /\ offered' = Append(offered, p)
      /\ \A i \in Added : offered'[i] = offered[i]
      /\ \A i \in Added \cup {n} : offered'[i].dist \in Int
  BY Appended DEF IInv, AddToQueue
<1>3. PICK queue \in Popped(offered', Held(g) \cup {n}) : queues' = Put(queues, g, queue)
  BY <1>2 DEF AddToQueue
<1> HIDE DEF n
<1>4. Offers(g) \subseteq Added /\ IsFiniteSet(Offers(g))
  BY OffersFinite DEF IInv, Offers
<1>5. BestOf(offered', Held(g), Offers(g))
  <2>1. BestOf(offered, Held(g), Offers(g))
    BY HeldAreBest
  <2> QED BY <1>2, <1>4, <2>1 DEF BestOf
<1>6. BestOf(offered', queue, Offers(g) \cup {n})
  <2>1. n \notin Offers(g) /\ \A i \in Offers(g) \cup {n} : offered'[i].dist \in Int
    BY <1>2, <1>4
  <2> QED BY <1>1, <1>3, <1>4, <1>5, <2>1, PopKeepsBest
<1>7. DOMAIN queues' = DOMAIN queues \cup {g} /\ queues'[g] = queue
      /\ \A h \in DOMAIN queues \ {g} : queues'[h] = queues[h]
  BY <1>3 DEF Put
<1> QED BY <1>2, <1>6, <1>7, OneGroupChanges DEF n

(* A point comes in the place of a worse one, or of none; or nothing changes *)
(* and the point is one more that is no better than the one kept.            *)
LEMMA AddNearestStep ==
  ASSUME IInv, NEW p, p.dist \in Int, params.accumulation = "one_to_one",
         AddNearest(p), params' = params
  PROVE  IInv'
<1> DEFINE g == Group(p)
           n == Len(offered) + 1
<1>1. Capacity = 1 /\ g = p.qpos
  BY DEF Capacity, Group, GroupOf
<1>2. /\ Len(offered') = n /\ n \notin Added /\ offered' = Append(offered, p)
      /\ offered'[n] = p /\ \A i \in Added : offered'[i] = offered[i]
      /\ \A i \in Added \cup {n} : offered'[i].dist \in Int
  BY Appended DEF IInv, AddNearest
<1>3. BestOf(offered, Held(g), Offers(g)) /\ IsFiniteSet(Offers(g)) /\ Offers(g) \subseteq Added
  BY HeldAreBest, OffersFinite DEF IInv, Offers
<1>4. Cardinality(Offers(g)) \in Nat /\ IsFiniteSet(Offers(g) \cup {n})
      /\ Cardinality(Offers(g) \cup {n}) = Cardinality(Offers(g)) + 1
  BY <1>2, <1>3, FS_AddElement, FS_CardinalityType
<1>5. queues' = IF \A i \in Held(g) : Better(p, offered[i])
                THEN Put(queues, g, {n}) ELSE queues
  BY <1>1, <1>2 DEF AddNearest
<1>6. Held(g) = {} => Offers(g) = {}
  BY <1>1, <1>3, <1>4, FS_EmptySet DEF BestOf
<1>7. Held(g) # {} => \E m \in Offers(g) : Held(g) = {m}
  <2>1. ASSUME Held(g) # {} PROVE \E m \in Offers(g) : Held(g) = {m}
    <3>1. IsFiniteSet(Held(g)) /\ Cardinality(Held(g)) \in Nat /\ Cardinality(Held(g)) <= 1
      BY <1>1, <1>3, <1>4, FS_Subset, FS_CardinalityType DEF BestOf
    <3>2. Cardinality(Held(g)) # 0
      BY <2>1, <3>1, FS_EmptySet
    <3>3. Cardinality(Held(g)) = 1
      BY <3>1, <3>2
    <3>4. PICK m : Held(g) = {m}
      BY <3>1, <3>3, FS_Singleton
    <3> QED BY <1>3, <3>4 DEF BestOf
  <2> QED BY <2>1
<1> HIDE DEF n
<1>8. CASE \A i \in Held(g) : Better(p, offered[i])
  <2>1. Cardinality({n}) = 1
    BY FS_Singleton
  <2>2. ASSUME NEW l \in Offers(g) PROVE ~ Better(offered'[l], p)
    <3>1. PICK m \in Offers(g) : Held(g) = {m}
      BY <1>6, <1>7
    <3>2. ~ Better(offered[l], offered[m]) \/ l = m
      BY <1>3, <3>1 DEF BestOf
    <3>3. Better(p, offered[m]) /\ offered'[l] = offered[l]
      BY <1>2, <1>3, <1>8, <3>1
    <3>4. offered[l].dist \in Int /\ offered[m].dist \in Int
      BY <1>3 DEF IInv, Typed
    <3> QED BY <3>2, <3>3, <3>4 DEF Better
  <2>3. BestOf(offered', {n}, Offers(g) \cup {n})
    <3>1. Cardinality({n}) = IF Cardinality(Offers(g) \cup {n}) < Capacity
                             THEN Cardinality(Offers(g) \cup {n}) ELSE Capacity
      BY <1>1, <1>4, <2>1
    <3> QED BY <1>2, <2>2, <3>1 DEF BestOf
  <2>4. DOMAIN queues' = DOMAIN queues \cup {g} /\ queues'[g] = {n}
        /\ \A h \in DOMAIN queues \ {g} : queues'[h] = queues[h]
    BY <1>5, <1>8 DEF Put
  <2> QED BY <1>2, <2>3, <2>4, OneGroupChanges DEF n
<1>9. CASE ~ \A i \in Held(g) : Better(p, offered[i])
  <2>1. PICK m \in Offers(g) : Held(g) = {m} /\ ~ Better(p, offered[m])
    BY <1>7, <1>9
  <2>2. g \in DOMAIN queues /\ queues[g] = {m} /\ queues' = queues
    BY <1>5, <1>9, <2>1 DEF Held
  <2>3. BestOf(offered', {m}, Offers(g) \cup {n})
    <3>1. Cardinality({m}) = 1
      BY FS_Singleton
    <3>2. Cardinality({m}) = IF Cardinality(Offers(g) \cup {n}) < Capacity
                             THEN Cardinality(Offers(g) \cup {n}) ELSE Capacity
      BY <1>1, <1>4, <3>1
    <3>3. \A l \in (Offers(g) \cup {n}) \ {m} : ~ Better(offered'[l], offered'[m])
      BY <1>2, <1>3, <2>1 DEF BestOf
    <3> QED BY <2>1, <3>2, <3>3 DEF BestOf
  <2> QED BY <1>2, <2>2, <2>3, OneGroupChanges DEF n
<1> QED BY <1>8, <1>9

-----------------------------------------------------------------------------
(* Only add_point changes what is kept.                                     *)
LEMMA Unchanged == IInv /\ UNCHANGED <<params, filling>> => IInv'
<1> SUFFICES ASSUME IInv, params' = params, offered' = offered, queues' = queues PROVE IInv'
  BY DEF filling
<1>1. Typed'
  BY DEF IInv, Typed, Added, Group
<1>2. Added' = Added /\ Capacity' = Capacity
  BY DEF Added, Capacity
<1>3. \A i : Group(offered[i])' = Group(offered[i])
  BY DEF Group
<1>4. \A g : Held(g)' = Held(g) /\ Offers(g)' = Offers(g)
  BY <1>2 DEF Held, Offers, Group
<1>5. \A i, l : Better(offered[l], offered[i])' <=> Better(offered[l], offered[i])
  BY DEF Better
<1>6. KeepsBest'
  BY <1>2, <1>3, <1>4, <1>5 DEF IInv, KeepsBest
<1> QED BY <1>1, <1>6 DEF IInv

LEMMA Initially == AccInit => IInv
<1> SUFFICES ASSUME AccInit PROVE IInv
  OBVIOUS
<1>1. offered = <<>> /\ Added = {} /\ IsSequence(<<>>)
  BY DEF AccInit, Added, IsSequence
<1> QED BY <1>1 DEF AccInit, IInv, Typed, KeepsBest

LEMMA StepKeepsInvariant == IInv /\ AccumulatorStep => IInv'
<1> SUFFICES ASSUME IInv, AccumulatorStep PROVE IInv'
  OBVIOUS
<1>1. ASSUME NEW p, p.dist \in Int \cup {NaN}, AddPoint(p) PROVE IInv'
  <2>1. CASE p.dist = NaN
    BY <1>1, <2>1, Unchanged DEF AddPoint
  <2>2. CASE p.dist # NaN
    <3>1. p.dist \in Int /\ params' = params
      BY <1>1, <2>2 DEF AddPoint
    <3>2. CASE params.accumulation = "one_to_one"
      BY <1>1, <2>2, <3>1, <3>2, AddNearestStep DEF AddPoint
    <3>3. CASE params.accumulation # "one_to_one"
      BY <1>1, <2>2, <3>1, <3>3, AddToQueueStep DEF AddPoint
    <3> QED BY <3>2, <3>3
  <2> QED BY <2>1, <2>2
<1>2. CASE RankTrack
  BY <1>2, Unchanged DEF RankTrack
<1>3. CASE GetPoints
  BY <1>3, Unchanged DEF GetPoints
<1>4. CASE UNCHANGED accVars
  BY <1>4, Unchanged DEF accVars, filling
<1> QED BY <1>1, <1>2, <1>3, <1>4 DEF AccumulatorStep, Adds

(* Whatever points a query offers, in whatever order and however often, an  *)
(* accumulator keeps of each group exactly the best: DBAccumulator the      *)
(* pointNN best of all, PerTrackAccumulator the pointNN best of each track, *)
(* NearestAccumulator the nearest of each query position.                   *)
THEOREM BestKept == AccSpec => []KeepsBest
<1>1. IInv => KeepsBest
  BY DEF IInv
<1> QED BY Initially, AccumulationSteps, StepKeepsInvariant, <1>1, PTL DEF AccSpec

-----------------------------------------------------------------------------
(* Every queue that is not empty has a worst point: by induction over its    *)
(* size.                                                                     *)
LEMMA WorstExists ==
  ASSUME NEW points, NEW queue, IsFiniteSet(queue), queue # {},
         \A i \in queue : points[i].dist \in Int
  PROVE  Tops(points, queue) # {}
<1> DEFINE S == {m \in Nat : \A T \in SUBSET queue : Cardinality(T) = m + 1 => Tops(points, T) # {}}
<1>1. 0 \in S
  <2> SUFFICES ASSUME NEW T \in SUBSET queue, Cardinality(T) = 1 PROVE Tops(points, T) # {}
    OBVIOUS
  <2>1. IsFiniteSet(T)
    BY FS_Subset
  <2>2. PICK x : T = {x}
    BY <2>1, FS_Singleton
  <2>3. points[x].dist \in Int
    BY <2>2
  <2>4. x \in Tops(points, T)
    BY <2>2, <2>3 DEF Tops, Better
  <2> QED BY <2>4
<1>2. ASSUME NEW m \in S PROVE m + 1 \in S
  <2> SUFFICES ASSUME NEW T \in SUBSET queue, Cardinality(T) = m + 2 PROVE Tops(points, T) # {}
    OBVIOUS
  <2>1. IsFiniteSet(T) /\ T # {}
    <3>1. m \in Nat /\ m + 2 # 0
      OBVIOUS
    <3>2. IsFiniteSet(T)
      BY FS_Subset
    <3> HIDE DEF S
    <3>3. T = {} => Cardinality(T) = 0
      BY FS_EmptySet
    <3> QED BY <3>1, <3>2, <3>3
  <2>2. PICK x \in T : TRUE
    BY <2>1
  <2>3. Cardinality(T \ {x}) = m + 1 /\ T \ {x} \in SUBSET queue
    <3>1. Cardinality(T \ {x}) = Cardinality(T) - 1
      BY <2>1, <2>2, FS_RemoveElement
    <3>2. m \in Nat
      OBVIOUS
    <3> HIDE DEF S
    <3> QED BY <3>1, <3>2
  <2>4. PICK t : t \in Tops(points, T \ {x})
    BY <2>3
  <2>5. t \in T /\ \A l \in T \ {x} : ~ Better(points[t], points[l])
    BY <2>4 DEF Tops
  <2>6. \A l \in T : points[l].dist \in Int
    OBVIOUS
  <2> HIDE DEF S
  <2>7. CASE Better(points[t], points[x])
    <3>1. \A l \in T : ~ Better(points[x], points[l])
      BY <2>2, <2>5, <2>6, <2>7 DEF Better
    <3> QED BY <2>2, <3>1 DEF Tops
  <2>8. CASE ~ Better(points[t], points[x])
    BY <2>5, <2>8 DEF Tops
  <2> QED BY <2>7, <2>8
<1> HIDE DEF S
<1>3. S = Nat
  BY <1>1, <1>2, NatSetInduction, Zenon DEF S
<1>4. Cardinality(queue) \in Nat \ {0}
  BY FS_CardinalityType, FS_EmptySet
<1>5. Cardinality(queue) - 1 \in S
  BY <1>3, <1>4
<1> QED BY <1>4, <1>5 DEF S

(* The worst point of a full queue is no better than that of the queue after *)
(* one more point.                                                           *)
LEMMA NewTop ==
  ASSUME NEW points, NEW kept, IsFiniteSet(kept), NEW n, n \notin kept,
         \A i \in kept \cup {n} : points[i].dist \in Int,
         params.npoints \in Nat, Cardinality(kept) = params.npoints,
         NEW queue \in Popped(points, kept \cup {n}),
         NEW old \in Tops(points, kept), NEW new \in Tops(points, queue)
  PROVE  ~ Better(points[old], points[new])
<1>1. Cardinality(kept \cup {n}) > params.npoints
  <2>1. Cardinality(kept \cup {n}) = params.npoints + 1
    BY FS_AddElement
  <2> QED BY <2>1
<1>2. PICK w \in Tops(points, kept \cup {n}) : queue = (kept \cup {n}) \ {w}
  BY <1>1 DEF Popped
<1>3. old \in kept /\ new \in queue /\ w \in kept \cup {n}
      /\ (\A i \in kept : ~ Better(points[old], points[i]))
      /\ (\A i \in kept \cup {n} : ~ Better(points[w], points[i]))
  BY <1>2 DEF Tops
<1>4. CASE new \in kept
  BY <1>3, <1>4
<1>5. CASE new \notin kept
  <2>1. new = n /\ w \in kept
    BY <1>2, <1>3, <1>5
  <2>2. ~ Better(points[old], points[w]) /\ ~ Better(points[w], points[new])
    BY <1>3, <2>1
  <2> QED BY <1>3, <2>1, <2>2, NotBetterTransitive
<1> QED BY <1>4, <1>5

-----------------------------------------------------------------------------
(* Thresholds.  TInv adds to IInv that only queues have thresholds, and the  *)
(* right ones; the queues of NearestAccumulator have none.                   *)
QueuesOnly ==
  /\ DOMAIN thresholds \subseteq DOMAIN queues
  /\ params.accumulation = "one_to_one" => DOMAIN thresholds = {}

TInv == IInv /\ QueuesOnly /\ ThresholdIsWorstKept

(* In a full queue with a right threshold, the threshold is some top's.      *)
LEMMA ThresholdOfTop ==
  ASSUME TInv, NEW g \in DOMAIN thresholds
  PROVE  /\ g \in DOMAIN queues /\ Cardinality(queues[g]) = params.npoints
         /\ params.accumulation # "one_to_one"
         /\ \E t \in Tops(offered, queues[g]) : offered[t].dist = thresholds[g]
<1>1. g \in DOMAIN queues /\ params.accumulation # "one_to_one"
  BY DEF TInv, QueuesOnly
<1>2. params.npoints \in Nat /\ Capacity = params.npoints
  BY <1>1, ParamsAssumption DEF TInv, IInv, Typed, Capacity
<1>3. Held(g) = queues[g] /\ BestOf(offered, Held(g), Offers(g)) /\ IsFiniteSet(Offers(g))
  BY <1>1, HeldAreBest, OffersFinite DEF TInv, IInv, Held
<1>4. Cardinality(queues[g]) <= params.npoints /\ Cardinality(queues[g]) \in Nat
  BY <1>2, <1>3, FS_Subset, FS_CardinalityType DEF BestOf
<1>5. ~ Cardinality(queues[g]) < params.npoints
  BY <1>1 DEF TInv, ThresholdIsWorstKept
<1>6. PICK t \in queues[g] : offered[t].dist = thresholds[g]
  BY <1>1, <1>5 DEF TInv, ThresholdIsWorstKept
<1>7. \A i \in queues[g] : ~ Better([dist |-> thresholds[g]], offered[i])
  BY <1>1, <1>5 DEF TInv, ThresholdIsWorstKept
<1>8. t \in Tops(offered, queues[g])
  BY <1>6, <1>7 DEF Tops, Better
<1> QED BY <1>1, <1>2, <1>4, <1>5, <1>6, <1>8

(* Adding to a queue leaves its threshold right, if it has one, and no       *)
(* easier to meet.                                                           *)
LEMMA AddToQueueThreshold ==
  ASSUME TInv, NEW p, p.dist \in Int, params.accumulation # "one_to_one",
         AddToQueue(p), params' = params
  PROVE  /\ QueuesOnly' /\ ThresholdIsWorstKept'
         /\ \A g \in DOMAIN thresholds :
              /\ g \in DOMAIN thresholds'
              /\ ~ Better([dist |-> thresholds[g]], [dist |-> thresholds'[g]])
<1> DEFINE g == Group(p)
           n == Len(offered) + 1
<1>1. /\ n \notin Added /\ offered' = Append(offered, p) /\ Len(offered') = n
      /\ \A i \in Added : offered'[i] = offered[i] /\ offered[i].dist \in Int
      /\ \A i \in Added \cup {n} : offered'[i].dist \in Int
  BY Appended DEF TInv, IInv, Typed, AddToQueue
<1>2. PICK queue \in Popped(offered', Held(g) \cup {n}) :
        /\ queues' = Put(queues, g, queue)
        /\ thresholds' = IF Cardinality(queue) = params.npoints
                         THEN Put(thresholds, g, TopDistance(offered', queue)) ELSE thresholds
  BY <1>1 DEF AddToQueue
<1>3. DOMAIN queues' = DOMAIN queues \cup {g} /\ queues'[g] = queue
      /\ \A h \in DOMAIN queues \ {g} : queues'[h] = queues[h]
  BY <1>2 DEF Put
<1>4. IInv'
  BY AddToQueueStep DEF TInv
<1>5. params.npoints \in Nat \ {0} /\ Capacity = params.npoints
  BY ParamsAssumption DEF TInv, IInv, Typed, Capacity
<1> HIDE DEF n, g
<1>6. /\ BestOf(offered, Held(g), Offers(g)) /\ IsFiniteSet(Offers(g))
      /\ Offers(g) \subseteq Added /\ Held(g) \subseteq Added /\ IsFiniteSet(Held(g))
  <2>1. BestOf(offered, Held(g), Offers(g)) /\ IsFiniteSet(Offers(g)) /\ Offers(g) \subseteq Added
    BY HeldAreBest, OffersFinite DEF TInv, IInv, Offers
  <2> QED BY <2>1, FS_Subset DEF BestOf
<1>7. Cardinality(Held(g)) \in Nat /\ Cardinality(Held(g)) <= params.npoints
      /\ Cardinality(Held(g) \cup {n}) = Cardinality(Held(g)) + 1
      /\ IsFiniteSet(Held(g) \cup {n})
  <2>1. Cardinality(Held(g)) \in Nat /\ Cardinality(Offers(g)) \in Nat
    BY <1>6, FS_CardinalityType
  <2>2. Cardinality(Held(g)) <= params.npoints
    BY <1>5, <1>6, <2>1 DEF BestOf
  <2>3. n \notin Held(g)
    BY <1>1, <1>6
  <2> QED BY <1>6, <2>1, <2>2, <2>3, FS_AddElement
<1>8. queue \subseteq Held(g) \cup {n} /\ IsFiniteSet(queue)
  <2>1. queue \subseteq Held(g) \cup {n}
    BY <1>2 DEF Popped
  <2> QED BY <1>7, <2>1, FS_Subset
<1>9. \A i \in Held(g) \cup {n} : offered'[i].dist \in Int
  BY <1>1, <1>6
<1>10. Cardinality(Held(g)) = params.npoints => Cardinality(queue) = params.npoints
  <2>1. ASSUME Cardinality(Held(g)) = params.npoints PROVE Cardinality(queue) = params.npoints
    <3>1. PICK w \in Held(g) \cup {n} : queue = (Held(g) \cup {n}) \ {w}
      BY <1>2, <1>5, <1>7, <2>1 DEF Popped, Tops
    <3>2. Cardinality(queue) = Cardinality(Held(g) \cup {n}) - 1
      BY <1>7, <3>1, FS_RemoveElement
    <3> QED BY <1>5, <1>7, <2>1, <3>2
  <2> QED BY <2>1
<1>11. Cardinality(queue) \in Nat /\ Cardinality(queue) <= params.npoints
  <2>1. Cardinality(queue) \in Nat
    BY <1>8, FS_CardinalityType
  <2>2. CASE Cardinality(Held(g)) = params.npoints
    BY <1>5, <1>10, <2>1, <2>2
  <2>3. CASE Cardinality(Held(g)) # params.npoints
    <3>1. Cardinality(queue) <= Cardinality(Held(g) \cup {n})
      BY <1>7, <1>8, FS_Subset
    <3> QED BY <1>5, <1>7, <2>1, <2>3, <3>1
  <2> QED BY <2>2, <2>3
<1>12. Cardinality(queue) = params.npoints =>
         \E t \in Tops(offered', queue) : TopDistance(offered', queue) = offered'[t].dist
  <2>1. ASSUME Cardinality(queue) = params.npoints PROVE Tops(offered', queue) # {}
    <3>1. queue # {} /\ \A i \in queue : offered'[i].dist \in Int
      BY <1>5, <1>8, <1>9, <2>1, FS_EmptySet
    <3> QED BY <1>8, <3>1, WorstExists
  <2> QED BY <2>1 DEF TopDistance
<1>13. /\ DOMAIN thresholds' \subseteq DOMAIN thresholds \cup {g}
       /\ DOMAIN thresholds \subseteq DOMAIN thresholds'
       /\ \A h \in DOMAIN thresholds \ {g} : thresholds'[h] = thresholds[h]
       /\ Cardinality(queue) = params.npoints =>
            g \in DOMAIN thresholds' /\ thresholds'[g] = TopDistance(offered', queue)
       /\ Cardinality(queue) # params.npoints => thresholds' = thresholds
  BY <1>2 DEF Put
<1>14. g \in DOMAIN thresholds => Cardinality(Held(g)) = params.npoints
  BY ThresholdOfTop DEF Held, TInv
<1>15. QueuesOnly'
  BY <1>3, <1>13 DEF QueuesOnly, TInv
<1>16. ThresholdIsWorstKept'
  <2> SUFFICES ASSUME NEW h \in DOMAIN queues'
               PROVE  IF Cardinality(queues'[h]) < params.npoints THEN h \notin DOMAIN thresholds'
                      ELSE /\ h \in DOMAIN thresholds'
                           /\ \E i \in queues'[h] : offered'[i].dist = thresholds'[h]
                           /\ \A i \in queues'[h] : ~ Better([dist |-> thresholds'[h]], offered'[i])
    BY DEF ThresholdIsWorstKept, Better
  <2>1. CASE h = g
    <3>1. CASE Cardinality(queue) < params.npoints
      <4>1. g \notin DOMAIN thresholds
        BY <1>5, <1>10, <1>11, <1>14, <3>1
      <4> QED BY <1>3, <1>5, <1>11, <1>13, <2>1, <3>1, <4>1
    <3>2. CASE ~ Cardinality(queue) < params.npoints
      <4>1. Cardinality(queue) = params.npoints
        BY <1>5, <1>11, <3>2
      <4>2. PICK t \in Tops(offered', queue) : thresholds'[g] = offered'[t].dist
        BY <1>12, <1>13, <4>1
      <4>3. t \in queue /\ \A i \in queue : ~ Better(offered'[t], offered'[i])
        BY <4>2 DEF Tops
      <4>4. \A i \in queue : ~ Better([dist |-> thresholds'[g]], offered'[i])
        BY <4>2, <4>3 DEF Better
      <4> QED BY <1>3, <1>13, <2>1, <3>2, <4>1, <4>2, <4>3, <4>4
    <3> QED BY <3>1, <3>2
  <2>2. CASE h # g
    <3>1. h \in DOMAIN queues /\ queues'[h] = queues[h] /\ queues[h] \subseteq Added
      BY <1>3, <2>2, HeldAreBest DEF TInv, Held, BestOf, Offers
    <3>2. IF Cardinality(queues[h]) < params.npoints THEN h \notin DOMAIN thresholds
          ELSE /\ h \in DOMAIN thresholds
               /\ \E i \in queues[h] : offered[i].dist = thresholds[h]
               /\ \A i \in queues[h] : ~ Better([dist |-> thresholds[h]], offered[i])
      BY <3>1 DEF TInv, ThresholdIsWorstKept
    <3>3. h \in DOMAIN thresholds <=> h \in DOMAIN thresholds'
      BY <1>13, <2>2
    <3>4. h \in DOMAIN thresholds => thresholds'[h] = thresholds[h]
      BY <1>13, <2>2
    <3>5. \A i \in queues[h] : offered'[i] = offered[i]
      BY <1>1, <3>1
    <3>6. h \in DOMAIN thresholds =>
            \A i \in queues[h] : Better([dist |-> thresholds'[h]], offered'[i])
                                <=> Better([dist |-> thresholds[h]], offered[i])
      BY <3>4, <3>5 DEF Better
    <3> QED BY <3>1, <3>2, <3>3, <3>4, <3>5, <3>6
  <2> QED BY <2>1, <2>2
<1>17. ASSUME NEW h \in DOMAIN thresholds
       PROVE  ~ Better([dist |-> thresholds[h]], [dist |-> thresholds'[h]])
  <2>1. PICK old \in Tops(offered, queues[h]) : offered[old].dist = thresholds[h]
    BY ThresholdOfTop
  <2>2. CASE h # g
    <3>1. offered[old].dist \in Int
      <4>1. h \in DOMAIN queues
        BY ThresholdOfTop
      <4> QED BY <1>1, <2>1, <4>1, HeldAreBest DEF TInv, Held, BestOf, Offers, Tops
    <3> QED BY <1>13, <2>1, <2>2, <3>1 DEF Better
  <2>3. CASE h = g
    <3>1. Held(g) = queues[g] /\ Cardinality(Held(g)) = params.npoints
      BY <2>3, ThresholdOfTop DEF Held
    <3>2. PICK new \in Tops(offered', queue) : thresholds'[g] = offered'[new].dist
      BY <1>10, <1>12, <1>13, <3>1
    <3>3. old \in Tops(offered', Held(g)) /\ offered'[old] = offered[old]
      BY <1>1, <1>6, <2>1, <2>3, <3>1 DEF Tops
    <3>4. ~ Better(offered'[old], offered'[new])
      BY <1>1, <1>2, <1>5, <1>6, <1>9, <3>1, <3>2, <3>3, NewTop
    <3> QED BY <2>1, <2>3, <3>2, <3>3, <3>4 DEF Better
  <2> QED BY <2>2, <2>3
<1> QED BY <1>13, <1>15, <1>16, <1>17

-----------------------------------------------------------------------------
Tightened == \A g \in DOMAIN thresholds :
               /\ g \in DOMAIN thresholds'
               /\ ~ Better([dist |-> thresholds[g]], [dist |-> thresholds'[g]])

(* A threshold that stays is no easier to meet: it is a distance.            *)
LEMMA SameThresholds ==
  ASSUME TInv, UNCHANGED thresholds
  PROVE  Tightened
<1> SUFFICES ASSUME NEW g \in DOMAIN thresholds
             PROVE  ~ Better([dist |-> thresholds[g]], [dist |-> thresholds[g]])
  BY DEF Tightened
<1>1. g \in DOMAIN queues
  BY ThresholdOfTop
<1>2. PICK t \in Tops(offered, queues[g]) : offered[t].dist = thresholds[g]
  BY ThresholdOfTop
<1>3. offered[t].dist \in Int
  BY <1>1, <1>2, HeldAreBest DEF TInv, IInv, Typed, Held, BestOf, Offers, Tops
<1> QED BY <1>2, <1>3 DEF Better

(* A step that leaves the accumulator's queues alone.                        *)
LEMMA UnchangedThresholds ==
  ASSUME TInv, UNCHANGED <<params, filling>>
  PROVE  TInv' /\ Tightened
<1>1. params' = params /\ offered' = offered /\ queues' = queues /\ thresholds' = thresholds
  BY DEF filling
<1>2. IInv'
  BY Unchanged DEF TInv
<1>3. QueuesOnly'
  BY <1>1 DEF TInv, QueuesOnly
<1>4. ThresholdIsWorstKept'
  BY <1>1 DEF TInv, ThresholdIsWorstKept, Better
<1> QED BY <1>1, <1>2, <1>3, <1>4, SameThresholds DEF TInv

LEMMA ThresholdStep == TInv /\ AccumulatorStep => TInv' /\ Tightened
<1> SUFFICES ASSUME TInv, AccumulatorStep PROVE TInv' /\ Tightened
  OBVIOUS
<1>1. ASSUME NEW p, p.dist \in Int \cup {NaN}, AddPoint(p) PROVE TInv' /\ Tightened
  <2>1. CASE p.dist = NaN
    BY <1>1, <2>1, UnchangedThresholds DEF AddPoint
  <2>2. CASE p.dist # NaN
    <3>1. p.dist \in Int /\ params' = params
      BY <1>1, <2>2 DEF AddPoint
    <3>2. CASE params.accumulation = "one_to_one"
      <4>1. AddNearest(p) /\ thresholds' = thresholds
        BY <1>1, <2>2, <3>2 DEF AddPoint, AddNearest
      <4>2. IInv'
        BY <3>1, <3>2, <4>1, AddNearestStep DEF TInv
      <4>3. QueuesOnly' /\ ThresholdIsWorstKept'
        BY <3>1, <3>2, <4>1 DEF TInv, QueuesOnly, ThresholdIsWorstKept
      <4> QED BY <4>1, <4>2, <4>3, SameThresholds DEF TInv
    <3>3. CASE params.accumulation # "one_to_one"
      <4>1. AddToQueue(p)
        BY <1>1, <2>2, <3>3 DEF AddPoint
      <4> QED BY <3>1, <3>3, <4>1, AddToQueueStep, AddToQueueThreshold DEF TInv, Tightened
    <3> QED BY <3>2, <3>3
  <2> QED BY <2>1, <2>2
<1>2. CASE RankTrack
  BY <1>2, UnchangedThresholds DEF RankTrack
<1>3. CASE GetPoints
  BY <1>3, UnchangedThresholds DEF GetPoints
<1>4. CASE UNCHANGED accVars
  BY <1>4, UnchangedThresholds DEF accVars, filling
<1> QED BY <1>1, <1>2, <1>3, <1>4 DEF AccumulatorStep, Adds

LEMMA ThresholdsInitially == AccInit => TInv
  BY Initially DEF AccInit, TInv, QueuesOnly, ThresholdIsWorstKept

(* What add_point leaves in _threshold is the worst distance kept, and there *)
(* is a threshold exactly when the queue is full: points are turned away     *)
(* only when as many as were asked for are at least as good.                 *)
THEOREM ThresholdsRight == AccSpec => []ThresholdIsWorstKept
<1>1. TInv /\ AccumulatorStep => TInv'
  BY ThresholdStep
<1>2. TInv => ThresholdIsWorstKept
  BY DEF TInv
<1> QED BY ThresholdsInitially, AccumulationSteps, <1>1, <1>2, PTL DEF AccSpec

(* No threshold is ever relaxed: a query that passes over a point beyond the *)
(* threshold of the moment would not have kept it later either.              *)
THEOREM ThresholdsTighten == AccSpec => ThresholdTightens
<1>1. TInv /\ AccumulatorStep => TInv'
  BY ThresholdStep
<1>2. TInv /\ AccumulatorStep => [Tightened]_accVars
  BY ThresholdStep
<1>3. AccSpec => [][Tightened]_accVars
  BY ThresholdsInitially, AccumulationSteps, <1>1, <1>2, PTL DEF AccSpec
<1> QED BY <1>3 DEF ThresholdTightens, Tightened

-----------------------------------------------------------------------------
(* The sums of distances by which get_points ranks tracks.                  *)
Dist == [i \in Added |-> offered[i].dist]

(* The fold over a queue is the sum of its distances.                       *)
LEMMA TotalIsSum ==
  ASSUME NEW queue \in SUBSET Added, IsFiniteSet(queue), \A i \in Added : offered[i].dist \in Int
  PROVE  Total(queue) = AddUp(Dist, queue)
<1> DEFINE Body(g) == [s \in SUBSET queue |-> IF s = {} THEN 0
                         ELSE offered[CHOOSE x \in s : TRUE].dist + g[s \ {CHOOSE x \in s : TRUE}]]
           iter == CHOOSE g : g = Body(g)
<1>1. \A i \in queue : Dist[i] = offered[i].dist /\ Dist[i] \in Int
  BY DEF Dist
<1>2. PICK g : SumsUp(g, Dist, queue)
  BY <1>1, SumsExist
<1>3. \A s \in SUBSET queue : s # {} =>
        Chosen(s) \in queue /\ Dist[Chosen(s)] = offered[CHOOSE x \in s : TRUE].dist
  BY <1>1 DEF Chosen
<1>4. g = Body(g)
  <2>1. g = [s \in SUBSET queue |-> g[s]]
    BY <1>2 DEF SumsUp
  <2>2. \A s \in SUBSET queue : g[s] = IF s = {} THEN 0
          ELSE offered[CHOOSE x \in s : TRUE].dist + g[s \ {CHOOSE x \in s : TRUE}]
    BY <1>2, <1>3 DEF SumsUp, Chosen
  <2> QED BY <2>1, <2>2
<1>5. iter = Body(iter)
  BY <1>4
<1>6. Total(queue) = iter[queue]
  BY DEF Total, MapThenSumSet, MapThenFoldSet
<1>7. PICK h : h = iter /\ h = Body(h)
  BY <1>5
<1> HIDE DEF iter
<1>8. h[{}] = 0
  BY <1>7
<1>9. \A s \in SUBSET queue : s # {} => h[s] = Dist[Chosen(s)] + h[s \ {Chosen(s)}]
  <2> SUFFICES ASSUME NEW s \in SUBSET queue, s # {} PROVE h[s] = Dist[Chosen(s)] + h[s \ {Chosen(s)}]
    OBVIOUS
  <2>1. h[s] = offered[CHOOSE x \in s : TRUE].dist + h[s \ {CHOOSE x \in s : TRUE}]
    BY <1>7
  <2>2. Dist[Chosen(s)] = offered[CHOOSE x \in s : TRUE].dist
    BY <1>3
  <2>3. Chosen(s) = CHOOSE x \in s : TRUE
    BY DEF Chosen
  <2> HIDE DEF Body
  <2> QED BY <2>1, <2>2, <2>3
<1>10. PICK dist : dist = Dist
  OBVIOUS
<1>11. /\ IsFiniteSet(queue) /\ \A i \in queue : dist[i] \in Int
       /\ h[{}] = 0 /\ \A s \in SUBSET queue : s # {} => h[s] = dist[Chosen(s)] + h[s \ {Chosen(s)}]
  BY <1>1, <1>8, <1>9, <1>10
<1>12. h[queue] = AddUp(dist, queue)
  BY ONLY <1>11, FoldAddsUp
<1> QED BY <1>6, <1>7, <1>10, <1>12

(* So is the fold over the pairs of two queues, of the differences.         *)
LEMMA LeadIsSum ==
  ASSUME NEW A \in SUBSET Added, IsFiniteSet(A), NEW B \in SUBSET Added, IsFiniteSet(B),
         \A i \in Added : offered[i].dist \in Int
  PROVE  MapThenSumSet(LAMBDA ij : offered[ij[1]].dist - offered[ij[2]].dist, A \X B)
           = AddUp(Dist, A) * Cardinality(B) - AddUp(Dist, B) * Cardinality(A)
<1> DEFINE Ahead == [ij \in A \X B |-> offered[ij[1]].dist - offered[ij[2]].dist]
           Body(g) == [s \in SUBSET (A \X B) |-> IF s = {} THEN 0
                         ELSE (offered[(CHOOSE x \in s : TRUE)[1]].dist
                                 - offered[(CHOOSE x \in s : TRUE)[2]].dist)
                              + g[s \ {CHOOSE x \in s : TRUE}]]
           iter == CHOOSE g : g = Body(g)
           lead == MapThenSumSet(LAMBDA ij : offered[ij[1]].dist - offered[ij[2]].dist, A \X B)
<1>1. lead = iter[A \X B]
  BY DEF MapThenSumSet, MapThenFoldSet
<1>2. IsFiniteSet(A \X B)
  BY FS_Product
<1>3. \A ij \in A \X B : Ahead[ij] = offered[ij[1]].dist - offered[ij[2]].dist /\ Ahead[ij] \in Int
  OBVIOUS
<1>4. \A x \in A : \A y \in B : Ahead[<<x, y>>] = Dist[x] - Dist[y]
  BY DEF Dist
<1>5. \A x \in A \cup B : Dist[x] \in Int
  BY DEF Dist
<1> HIDE DEF Ahead, lead
<1>6. AddUp(Ahead, A \X B) = AddUp(Dist, A) * Cardinality(B) - AddUp(Dist, B) * Cardinality(A)
  BY <1>4, <1>5, AddUpPairs
<1>7. PICK g : SumsUp(g, Ahead, A \X B)
  BY <1>2, <1>3, SumsExist
<1>8. \A s \in SUBSET (A \X B) : s # {} =>
        Ahead[Chosen(s)] = offered[(CHOOSE x \in s : TRUE)[1]].dist
                             - offered[(CHOOSE x \in s : TRUE)[2]].dist
  <2> SUFFICES ASSUME NEW s \in SUBSET (A \X B), s # {}
               PROVE  Ahead[Chosen(s)] = offered[(CHOOSE x \in s : TRUE)[1]].dist
                                           - offered[(CHOOSE x \in s : TRUE)[2]].dist
    OBVIOUS
  <2>1. PICK c \in A \X B : c = CHOOSE x \in s : TRUE
    OBVIOUS
  <2>2. Chosen(s) = c
    BY <2>1 DEF Chosen
  <2> QED BY <1>3, <2>1, <2>2
<1>9. g = Body(g)
  <2>1. g = [s \in SUBSET (A \X B) |-> g[s]]
    BY <1>7 DEF SumsUp
  <2>2. ASSUME NEW s \in SUBSET (A \X B), s # {}
        PROVE  g[s] = (offered[(CHOOSE x \in s : TRUE)[1]].dist
                         - offered[(CHOOSE x \in s : TRUE)[2]].dist)
                      + g[s \ {CHOOSE x \in s : TRUE}]
    <3>1. g[s] = Ahead[Chosen(s)] + g[s \ {Chosen(s)}]
      BY <1>7, <2>2 DEF SumsUp
    <3>2. Chosen(s) = CHOOSE x \in s : TRUE
      BY DEF Chosen
    <3> QED BY <1>8, <2>2, <3>1, <3>2
  <2>3. g[{}] = 0
    BY <1>7 DEF SumsUp
  <2>4. \A s \in SUBSET (A \X B) : g[s] = Body(g)[s]
    BY <2>2, <2>3
  <2>5. Body(g) = [s \in SUBSET (A \X B) |-> Body(g)[s]]
    OBVIOUS
  <2>6. PICK b : b = Body(g)
    OBVIOUS
  <2>7. PICK D : D = SUBSET (A \X B)
    OBVIOUS
  <2> HIDE DEF Body
  <2>8. g = [s \in D |-> g[s]] /\ b = [s \in D |-> b[s]] /\ \A s \in D : g[s] = b[s]
    BY <2>1, <2>4, <2>5, <2>6, <2>7
  <2>9. g = b
    BY ONLY <2>8
  <2> QED BY <2>6, <2>9
<1>10. iter = Body(iter)
  <2> HIDE DEF Body
  <2> QED BY <1>9
<1>11. PICK h : h = iter /\ h = Body(h)
  BY <1>10
<1> HIDE DEF iter
<1>12. h[{}] = 0
  BY <1>11
<1>13. \A s \in SUBSET (A \X B) : s # {} => h[s] = Ahead[Chosen(s)] + h[s \ {Chosen(s)}]
  <2> SUFFICES ASSUME NEW s \in SUBSET (A \X B), s # {}
               PROVE  h[s] = Ahead[Chosen(s)] + h[s \ {Chosen(s)}]
    OBVIOUS
  <2>1. h[s] = (offered[(CHOOSE x \in s : TRUE)[1]].dist - offered[(CHOOSE x \in s : TRUE)[2]].dist)
               + h[s \ {CHOOSE x \in s : TRUE}]
    BY <1>11
  <2>2. Chosen(s) = CHOOSE x \in s : TRUE
    BY DEF Chosen
  <2> HIDE DEF Body
  <2> QED BY <1>8, <2>1, <2>2
<1> HIDE DEF Body
<1>14. h[A \X B] = AddUp(Ahead, A \X B)
  BY <1>2, <1>3, <1>12, <1>13, FoldAddsUp
<1> QED BY <1>1, <1>6, <1>11, <1>14 DEF lead

-----------------------------------------------------------------------------
(* What the invariant says of the queues of different groups.               *)
Kept(keys) == UNION {queues[k] : k \in keys}

LEMMA QueueFacts ==
  ASSUME IInv, NEW g \in DOMAIN queues
  PROVE  /\ queues[g] \in SUBSET Added /\ IsFiniteSet(queues[g]) /\ queues[g] # {}
         /\ Cardinality(queues[g]) \in Nat \ {0}
         /\ Total(queues[g]) \in Int
         /\ \A h \in DOMAIN queues \ {g} : queues[g] \cap queues[h] = {}
<1>1. \A h \in DOMAIN queues : queues[h] \subseteq Offers(h) /\ BestOf(offered, queues[h], Offers(h))
  BY HeldAreBest DEF Held, BestOf
<1>2. IsFiniteSet(Offers(g)) /\ IsFiniteSet(queues[g])
  BY <1>1, OffersFinite, FS_Subset DEF IInv
<1>3. Offers(g) # {}
  BY DEF IInv, Typed, Offers
<1>4. Capacity \in Nat \ {0}
  BY ParamsAssumption DEF Capacity, IInv, Typed
<1>5. Cardinality(Offers(g)) \in Nat \ {0} /\ Cardinality(queues[g]) \in Nat
  BY <1>2, <1>3, FS_CardinalityType, FS_EmptySet
<1>6. Cardinality(queues[g]) # 0
  BY <1>1, <1>4, <1>5 DEF BestOf
<1>7. queues[g] # {}
  BY <1>6, FS_EmptySet
<1>8. queues[g] \in SUBSET Added
  BY <1>1 DEF Offers
<1>9. Total(queues[g]) \in Int
  <2>1. Total(queues[g]) = AddUp(Dist, queues[g])
    BY <1>2, <1>8, TotalIsSum DEF IInv, Typed
  <2>2. \A i \in queues[g] : Dist[i] \in Int
    BY <1>8 DEF Dist, IInv, Typed
  <2> QED BY <1>2, <2>1, <2>2, AddUpRest
<1>10. \A h \in DOMAIN queues \ {g} : queues[g] \cap queues[h] = {}
  BY <1>1 DEF Offers
<1> QED BY <1>2, <1>5, <1>6, <1>7, <1>8, <1>9, <1>10

LEMMA GroupsFinite ==
  ASSUME IInv
  PROVE  IsFiniteSet(DOMAIN queues) /\ IsFiniteSet(Added)
<1>1. IsFiniteSet(Added)
  BY OffersFinite DEF IInv
<1>2. IsFiniteSet({Group(offered[i]) : i \in Added})
  <2> DEFINE f == [i \in Added |-> Group(offered[i])]
  <2>1. f \in Surjection(Added, {Group(offered[i]) : i \in Added})
    BY Zenon DEF Surjection
  <2> QED BY <1>1, <2>1, FS_Surjection
<1> QED BY <1>1, <1>2 DEF IInv, Typed

(* The points of a track more are so many more points.                      *)
LEMMA KeptOneMore ==
  ASSUME IInv, NEW keys \in SUBSET DOMAIN queues, NEW k \in DOMAIN queues \ keys
  PROVE  /\ Cardinality(Kept(keys \cup {k})) = Cardinality(Kept(keys)) + Cardinality(queues[k])
         /\ Cardinality(Kept(keys)) \in Nat /\ Cardinality(queues[k]) \in Nat
<1>1. Kept(keys) \in SUBSET Added
  BY QueueFacts DEF Kept
<1>2. IsFiniteSet(Kept(keys)) /\ IsFiniteSet(queues[k])
  BY <1>1, GroupsFinite, QueueFacts, FS_Subset
<1>3. Kept(keys \cup {k}) = Kept(keys) \cup queues[k]
  BY DEF Kept
<1>4. Kept(keys) \cap queues[k] = {}
  BY QueueFacts DEF Kept
<1>5. Cardinality(Kept(keys) \cup queues[k]) = Cardinality(Kept(keys)) + Cardinality(queues[k])
  <2>1. Cardinality(Kept(keys) \cup queues[k])
          = Cardinality(Kept(keys)) + Cardinality(queues[k]) - Cardinality(Kept(keys) \cap queues[k])
    BY <1>2, FS_Union
  <2>2. Cardinality(Kept(keys) \cap queues[k]) = 0
    BY <1>4, FS_EmptySet
  <2>3. Cardinality(Kept(keys)) \in Nat /\ Cardinality(queues[k]) \in Nat
    BY <1>2, FS_CardinalityType
  <2> QED BY <2>1, <2>2, <2>3
<1> QED BY <1>2, <1>3, <1>5, FS_CardinalityType

-----------------------------------------------------------------------------
(* Averages are compared by multiplying out.                                *)
LEMMA MultipliedOut ==
  ASSUME NEW a \in Int, NEW b \in Int, NEW n \in Nat \ {0}
  PROVE  a <= b <=> a * n <= b * n
<1>1. CASE a <= b
  <2>1. PICK d \in Nat : b = a + d
    BY <1>1
  <2>2. b * n = a * n + d * n /\ d * n \in Nat /\ a * n \in Int
    BY <2>1
  <2> QED BY <1>1, <2>2
<1>2. CASE ~ a <= b
  <2>1. PICK d \in Nat : a = b + 1 + d
    BY <1>2
  <2>2. a * n = b * n + n + d * n /\ d * n \in Nat /\ b * n \in Int
    BY <2>1
  <2> QED BY <1>2, <2>2
<1> QED BY <1>1, <1>2

LEMMA AveragesOrdered ==
  ASSUME NEW a \in Int, NEW b \in Int, NEW c \in Int,
         NEW k \in Nat \ {0}, NEW l \in Nat \ {0}, NEW m \in Nat \ {0},
         a * l <= b * k, b * m <= c * l
  PROVE  a * m <= c * k
<1>1. a * l * m <= b * k * m /\ b * m * k <= c * l * k
  <2>1. a * l \in Int /\ b * k \in Int /\ b * m \in Int /\ c * l \in Int
    OBVIOUS
  <2> QED BY <2>1, MultipliedOut
<1>2. b * k * m = b * m * k /\ a * l * m = a * m * l /\ c * l * k = c * k * l
  OBVIOUS
<1>3. a * m \in Int /\ c * k \in Int /\ a * m * l \in Int /\ c * k * l \in Int /\ b * m * k \in Int
  OBVIOUS
<1>4. a * m * l <= c * k * l
  BY <1>1, <1>2, <1>3
<1> QED BY <1>3, <1>4, MultipliedOut

LEMMA NotBetterTrackTransitive ==
  ASSUME IInv, NEW x \in DOMAIN queues, NEW y \in DOMAIN queues, NEW z \in DOMAIN queues,
         ~ BetterTrack(x, y), ~ BetterTrack(y, z)
  PROVE  ~ BetterTrack(x, z)
<1>1. PICK k \in Nat \ {0} : k = Cardinality(queues[x])
  BY QueueFacts
<1>2. PICK l \in Nat \ {0} : l = Cardinality(queues[y])
  BY QueueFacts
<1>3. PICK m \in Nat \ {0} : m = Cardinality(queues[z])
  BY QueueFacts
<1>4. PICK a \in Int : a = Total(queues[x])
  BY QueueFacts
<1>5. PICK b \in Int : b = Total(queues[y])
  BY QueueFacts
<1>6. PICK c \in Int : c = Total(queues[z])
  BY QueueFacts
<1>7. /\ a * l \in Int /\ b * k \in Int /\ b * m \in Int
      /\ c * l \in Int /\ a * m \in Int /\ c * k \in Int
  OBVIOUS
<1>8. CASE params.distance = "dot_product"
  <2>1. a * l <= b * k /\ b * m <= c * l
    BY <1>1, <1>2, <1>3, <1>4, <1>5, <1>6, <1>7, <1>8 DEF BetterTrack
  <2>2. a * m <= c * k
    BY <2>1, AveragesOrdered
  <2> QED BY <1>1, <1>3, <1>4, <1>6, <1>7, <1>8, <2>2 DEF BetterTrack
<1>9. CASE params.distance # "dot_product"
  <2>1. c * l <= b * m /\ b * k <= a * l
    BY <1>1, <1>2, <1>3, <1>4, <1>5, <1>6, <1>7, <1>9 DEF BetterTrack
  <2>2. c * k <= a * m
    BY <2>1, AveragesOrdered
  <2> QED BY <1>1, <1>3, <1>4, <1>6, <1>7, <1>9, <2>2 DEF BetterTrack
<1> QED BY <1>8, <1>9

-----------------------------------------------------------------------------
(* get_points.  RInv adds to IInv that of the tracks taken out of the map   *)
(* the best are in the queue of tracks, and that the points of the tracks   *)
(* in that queue are counted.                                               *)
BestRanked ==
  /\ ranking \subseteq ranked /\ ranked \subseteq DOMAIN queues
  /\ params.accumulation # "per_track" => ranked = {}
  /\ Cardinality(ranking) = IF Cardinality(ranked) < params.ntracks
                            THEN Cardinality(ranked) ELSE params.ntracks
  /\ \A k \in ranking, l \in ranked \ ranking : ~ BetterTrack(l, k)

Counted ==
  /\ params.accumulation = "per_track" =>
       IF results = NoResults THEN size = Cardinality(Kept(ranking))
       ELSE ranked = DOMAIN queues /\ results = Kept(ranking)
  /\ ArrayFilled

RInv == IInv /\ BestRanked /\ Counted

LEMMA RankTrackStep ==
  ASSUME RInv, RankTrack
  PROVE  BestRanked' /\ Counted'
<1>1. /\ params' = params /\ offered' = offered /\ queues' = queues /\ results' = results
      /\ params.accumulation = "per_track" /\ results = NoResults
  BY DEF RankTrack, filling
<1>2. PICK k \in DOMAIN queues \ ranked :
        LET keys == ranking \cup {k}
            more == size + Cardinality(queues[k])
        IN  /\ ranked' = ranked \cup {k}
            /\ IF Cardinality(keys) > params.ntracks
               THEN \E w \in WorstTracks(keys) :
                      ranking' = keys \ {w} /\ size' = more - DroppedPoints(w)
               ELSE ranking' = keys /\ size' = more
  BY DEF RankTrack
<1> DEFINE keys == ranking \cup {k}
<1>3. /\ ranking \subseteq ranked /\ ranked \subseteq DOMAIN queues
      /\ IsFiniteSet(ranking) /\ IsFiniteSet(ranked) /\ k \notin ranked /\ k \notin ranking
      /\ keys \subseteq ranked \cup {k} /\ keys \subseteq DOMAIN queues /\ IsFiniteSet(keys)
      /\ ranked \cup {k} \subseteq DOMAIN queues
      /\ Cardinality(keys) = Cardinality(ranking) + 1
      /\ Cardinality(ranked \cup {k}) = Cardinality(ranked) + 1
      /\ Cardinality(ranking) \in Nat /\ Cardinality(ranked) \in Nat
  BY GroupsFinite, FS_Subset, FS_AddElement, FS_CardinalityType DEF RInv, BestRanked
<1>4. params.ntracks \in Nat
  BY ParamsAssumption DEF RInv, IInv, Typed
<1>5. /\ Cardinality(Kept(keys)) = Cardinality(Kept(ranking)) + Cardinality(queues[k])
      /\ Cardinality(Kept(ranking)) \in Nat /\ Cardinality(queues[k]) \in Nat
      /\ size = Cardinality(Kept(ranking))
  BY <1>1, <1>3, KeptOneMore DEF RInv, Counted
<1>6. /\ \A x, y : BetterTrack(x, y)' <=> BetterTrack(x, y)
      /\ \A S : Kept(S)' = Kept(S)
  BY <1>1 DEF BetterTrack, Total, MapThenSumSet, MapThenFoldSet, Kept
<1> HIDE DEF keys
<1>7. CASE Cardinality(keys) > params.ntracks
  <2>1. PICK w \in WorstTracks(keys) :
          ranking' = keys \ {w} /\ size' = (size + Cardinality(queues[k])) - DroppedPoints(w)
    <3>1. \E w \in WorstTracks(ranking \cup {k}) :
            /\ ranking' = (ranking \cup {k}) \ {w}
            /\ size' = (size + Cardinality(queues[k])) - DroppedPoints(w)
      BY <1>2, <1>7 DEF keys
    <3> QED BY <3>1 DEF keys
  <2>2. w \in keys /\ \A x \in keys : ~ BetterTrack(w, x)
    BY <2>1 DEF WorstTracks
  <2>3. Cardinality(ranking') = Cardinality(ranking)
    <3>1. Cardinality(keys \ {w}) = Cardinality(keys) - 1
      BY <1>3, <2>2, FS_RemoveElement
    <3> QED BY <1>3, <2>1, <3>1
  <2>4. Cardinality(ranking') = IF Cardinality(ranked') < params.ntracks
                                THEN Cardinality(ranked') ELSE params.ntracks
    <3>1. Cardinality(ranking) = params.ntracks /\ params.ntracks <= Cardinality(ranked)
      BY <1>3, <1>4, <1>7 DEF RInv, BestRanked
    <3>2. Cardinality(ranked') = Cardinality(ranked) + 1
      BY <1>2, <1>3
    <3> QED BY <1>3, <1>4, <2>3, <3>1, <3>2
  <2>5. ASSUME NEW x \in ranking', NEW l \in ranked' \ ranking'
        PROVE  ~ BetterTrack(l, x)
    <3>1. x \in keys /\ x # w /\ ~ BetterTrack(w, x)
      BY <2>1, <2>2
    <3>2. CASE l = w
      BY <3>1, <3>2
    <3>3. CASE l # w
      <4>1. l \in ranked \ ranking
        BY <1>2, <2>1, <3>3 DEF keys
      <4>2. CASE x \in ranking
        BY <4>1, <4>2 DEF RInv, BestRanked
      <4>3. CASE x \notin ranking
        <5>1. x = k /\ w \in ranking
          BY <2>2, <3>1, <4>3 DEF keys
        <5>2. ~ BetterTrack(l, w)
          BY <4>1, <5>1 DEF RInv, BestRanked
        <5>3. l \in DOMAIN queues /\ w \in DOMAIN queues /\ x \in DOMAIN queues
          BY <1>3, <3>1, <4>1, <5>1
        <5> QED BY <3>1, <5>2, <5>3, NotBetterTrackTransitive DEF RInv
      <4> QED BY <4>2, <4>3
    <3> QED BY <3>2, <3>3
  <2>6. ranking' \subseteq ranked' /\ ranked' \subseteq DOMAIN queues'
    BY <1>1, <1>2, <1>3, <2>1
  <2>7. BestRanked'
    BY <1>1, <1>6, <2>4, <2>5, <2>6 DEF BestRanked
  <2>8. size' = Cardinality(Kept(ranking'))
    <3>1. keys = (keys \ {w}) \cup {w} /\ keys \ {w} \in SUBSET DOMAIN queues
          /\ w \in DOMAIN queues \ (keys \ {w})
      BY <1>3, <2>2
    <3>2. /\ Cardinality(Kept(keys)) = Cardinality(Kept(keys \ {w})) + Cardinality(queues[w])
          /\ Cardinality(Kept(keys \ {w})) \in Nat /\ Cardinality(queues[w]) \in Nat
      BY <3>1, KeptOneMore DEF RInv
    <3>3. size' = Cardinality(Kept(keys)) - Cardinality(queues[w])
      <4>1. DroppedPoints(w) = Cardinality(queues[w])
        BY DEF DroppedPoints
      <4>2. size + Cardinality(queues[k]) = Cardinality(Kept(keys))
        BY <1>5
      <4> QED BY <2>1, <4>1, <4>2
    <3> QED BY <1>5, <2>1, <3>2, <3>3
  <2> QED BY <1>1, <1>6, <2>7, <2>8 DEF Counted, ArrayFilled
<1>8. CASE ~ Cardinality(keys) > params.ntracks
  <2>1. ranking' = keys /\ size' = size + Cardinality(queues[k]) /\ ranked' = ranked \cup {k}
    BY <1>2, <1>8 DEF keys
  <2>2. Cardinality(ranking) = Cardinality(ranked)
    BY <1>3, <1>4, <1>8 DEF RInv, BestRanked
  <2>3. ranking = ranked
    BY <1>3, <2>2, FS_Subset
  <2>4. ranking' = ranked'
    BY <2>1, <2>3 DEF keys
  <2>5. Cardinality(ranking') = IF Cardinality(ranked') < params.ntracks
                                THEN Cardinality(ranked') ELSE params.ntracks
    BY <1>3, <1>4, <1>8, <2>1, <2>4
  <2>6. BestRanked'
    BY <1>1, <1>3, <2>1, <2>4, <2>5 DEF BestRanked
  <2>7. size' = Cardinality(Kept(ranking'))
    BY <1>5, <2>1
  <2> QED BY <1>1, <1>6, <2>6, <2>7 DEF Counted, ArrayFilled
<1> QED BY <1>7, <1>8

(* Points are only added before get_points takes out the first track.       *)
LEMMA OfferRanks ==
  ASSUME RInv, Adds
  PROVE  BestRanked' /\ Counted'
<1>1. /\ results = NoResults /\ ranked = {}
      /\ params' = params /\ ranked' = ranked /\ ranking' = ranking
      /\ size' = size /\ results' = results
  BY DEF Adds, AddPoint, emptying
<1>2. ranking = {} /\ params.ntracks \in Nat /\ Cardinality({}) = 0
  BY <1>1, ParamsAssumption, FS_EmptySet DEF RInv, BestRanked, IInv, Typed
<1>3. BestRanked'
  BY <1>1, <1>2 DEF RInv, BestRanked
<1>4. Kept({})' = Kept({})
  BY DEF Kept
<1>5. Counted'
  BY <1>1, <1>2, <1>4 DEF RInv, Counted, ArrayFilled
<1> QED BY <1>3, <1>5

LEMMA SameRanks ==
  ASSUME RInv, UNCHANGED <<params, offered, queues, ranked, ranking>>
  PROVE  BestRanked' /\ \A S : Kept(S)' = Kept(S)
<1>1. /\ params' = params /\ offered' = offered /\ queues' = queues
      /\ ranked' = ranked /\ ranking' = ranking
  OBVIOUS
<1>2. \A x, y : BetterTrack(x, y)' <=> BetterTrack(x, y)
  BY <1>1 DEF BetterTrack, Total, MapThenSumSet, MapThenFoldSet
<1>3. BestRanked'
  BY <1>1, <1>2 DEF RInv, BestRanked
<1> QED BY <1>1, <1>3 DEF Kept

LEMMA GetPointsRanks ==
  ASSUME RInv, GetPoints
  PROVE  BestRanked' /\ Counted'
<1>1. UNCHANGED <<params, offered, queues, ranked, ranking>> /\ results = NoResults
  BY DEF GetPoints, filling
<1>2. BestRanked' /\ Kept(ranking)' = Kept(ranking)
  BY <1>1, SameRanks
<1>3. CASE params.accumulation = "per_track"
  <2>1. /\ ranked = DOMAIN queues /\ results' = Kept(ranking)
        /\ size' = size /\ size = Cardinality(Kept(ranking))
    BY <1>1, <1>3 DEF GetPoints, Kept, RInv, Counted
  <2> QED BY <1>1, <1>2, <1>3, <2>1 DEF Counted, ArrayFilled
<1>4. CASE params.accumulation # "per_track"
  <2>1. size' = Cardinality(results')
    BY <1>4 DEF GetPoints
  <2> QED BY <1>1, <1>2, <1>4, <2>1 DEF Counted, ArrayFilled
<1> QED BY <1>3, <1>4

LEMMA RankingStep == RInv /\ AccumulatorStep => RInv'
<1> SUFFICES ASSUME RInv, AccumulatorStep PROVE BestRanked' /\ Counted'
  BY StepKeepsInvariant DEF RInv
<1>1. CASE Adds
  BY <1>1, OfferRanks
<1>2. CASE RankTrack
  BY <1>2, RankTrackStep
<1>3. CASE GetPoints
  BY <1>3, GetPointsRanks
<1>4. CASE UNCHANGED accVars
  <2>1. UNCHANGED <<params, offered, queues, ranked, ranking>> /\ size' = size /\ results' = results
    BY <1>4 DEF accVars
  <2> QED BY <2>1, SameRanks DEF RInv, Counted, ArrayFilled
<1> QED BY <1>1, <1>2, <1>3, <1>4 DEF AccumulatorStep

LEMMA RankingInitially == AccInit => RInv
<1> SUFFICES ASSUME AccInit PROVE RInv
  OBVIOUS
<1>1. IInv
  BY Initially
<1>2. params \in Params /\ params.ntracks \in Nat /\ ranked = {} /\ ranking = {}
      /\ size = 0 /\ results = NoResults
  BY ParamsAssumption DEF AccInit
<1>3. Cardinality({}) = 0 /\ Kept({}) = {}
  BY FS_EmptySet DEF Kept
<1>4. BestRanked
  BY <1>2, <1>3 DEF BestRanked
<1>5. Counted
  BY <1>2, <1>3 DEF Counted, ArrayFilled
<1> QED BY <1>1, <1>4, <1>5 DEF RInv

(* The array get_points allocates for its results is as long as what it     *)
(* puts into it: the count taken while tracks are ranked, less the points   *)
(* of every track dropped again, is that of the points of those that stay.  *)
THEOREM ArrayIsFilled == AccSpec => []ArrayFilled
<1>1. RInv => ArrayFilled
  BY DEF RInv, Counted
<1> QED BY RankingInitially, AccumulationSteps, RankingStep, <1>1, PTL DEF AccSpec

LEMMA RankedAreBest == RInv => BestTracks
<1> SUFFICES ASSUME RInv, params.accumulation = "per_track", results # NoResults PROVE BestTracks
  BY DEF BestTracks
<1> DEFINE keys == {k \in DOMAIN queues : queues[k] \subseteq results}
           Lead(k, l) == MapThenSumSet(LAMBDA ij : offered[ij[1]].dist - offered[ij[2]].dist,
                                       queues[k] \X queues[l])
<1>1. ranked = DOMAIN queues /\ results = Kept(ranking) /\ ranking \subseteq DOMAIN queues
  BY DEF RInv, Counted, BestRanked
<1>2. keys = ranking
  <2>1. \A k \in ranking : queues[k] \subseteq results
    BY <1>1 DEF Kept
  <2>2. ASSUME NEW k \in keys PROVE k \in ranking
    <3>1. PICK i \in queues[k] : TRUE
      BY QueueFacts DEF RInv
    <3>2. PICK h \in ranking : i \in queues[h]
      BY <1>1, <3>1 DEF Kept
    <3>3. h = k
      BY <1>1, <3>1, <3>2, QueueFacts DEF RInv
    <3> QED BY <3>2, <3>3
  <2> QED BY <1>1, <2>1, <2>2
<1> HIDE DEF keys
<1>3. results = UNION {queues[k] : k \in keys}
  BY <1>1, <1>2 DEF Kept
<1>4. Cardinality(keys) = IF Cardinality(DOMAIN queues) < params.ntracks
                          THEN Cardinality(DOMAIN queues) ELSE params.ntracks
  BY <1>1, <1>2 DEF RInv, BestRanked
<1>5. ASSUME NEW k \in keys, NEW l \in DOMAIN queues \ keys
      PROVE  IF params.distance = "dot_product" THEN Lead(k, l) >= 0 ELSE Lead(k, l) <= 0
  <2>1. ~ BetterTrack(l, k) /\ k \in DOMAIN queues
    BY <1>1, <1>2 DEF RInv, BestRanked
  <2>2. PICK m \in Nat : m = Cardinality(queues[k])
    BY <2>1, QueueFacts DEF RInv
  <2>3. PICK n \in Nat : n = Cardinality(queues[l])
    BY QueueFacts DEF RInv
  <2>4. PICK a \in Int : a = Total(queues[k])
    BY <2>1, QueueFacts DEF RInv
  <2>5. PICK b \in Int : b = Total(queues[l])
    BY QueueFacts DEF RInv
  <2>6. a * n \in Int /\ b * m \in Int
    OBVIOUS
  <2>7. /\ queues[k] \in SUBSET Added /\ IsFiniteSet(queues[k])
        /\ queues[l] \in SUBSET Added /\ IsFiniteSet(queues[l])
    BY <2>1, QueueFacts DEF RInv
  <2>8. \A i \in Added : offered[i].dist \in Int
    BY DEF RInv, IInv, Typed
  <2>9. a = AddUp(Dist, queues[k]) /\ b = AddUp(Dist, queues[l])
    BY <2>4, <2>5, <2>7, <2>8, TotalIsSum
  <2>10. Lead(k, l) = a * n - b * m
    <3>1. PICK A \in SUBSET Added : A = queues[k]
      BY <2>7
    <3>2. PICK B \in SUBSET Added : B = queues[l]
      BY <2>7
    <3>3. MapThenSumSet(LAMBDA ij : offered[ij[1]].dist - offered[ij[2]].dist, A \X B)
            = AddUp(Dist, A) * Cardinality(B) - AddUp(Dist, B) * Cardinality(A)
      BY <2>7, <2>8, <3>1, <3>2, LeadIsSum
    <3> QED BY <2>2, <2>3, <2>9, <3>1, <3>2, <3>3
  <2> HIDE DEF Lead
  <2>11. CASE params.distance = "dot_product"
    <3>1. b * m <= a * n
      BY <2>1, <2>2, <2>3, <2>4, <2>5, <2>6, <2>11 DEF BetterTrack
    <3> QED BY <2>6, <2>10, <2>11, <3>1
  <2>12. CASE params.distance # "dot_product"
    <3>1. a * n <= b * m
      BY <2>1, <2>2, <2>3, <2>4, <2>5, <2>6, <2>12 DEF BetterTrack
    <3> QED BY <2>6, <2>10, <2>12, <3>1
  <2> QED BY <2>11, <2>12
<1> QED BY <1>3, <1>4, <1>5 DEF BestTracks, keys

(* Whatever order the map of queues hands its tracks out in, and however    *)
(* many tie, get_points of PerTrackAccumulator returns all that was kept of *)
(* trackNN tracks, none of which has a worse average than one left out.     *)
THEOREM BestTracksReturned == AccSpec => []BestTracks
BY RankingInitially, AccumulationSteps, RankingStep, RankedAreBest, PTL DEF AccSpec
=============================================================================
