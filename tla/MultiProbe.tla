----------------------------- MODULE MultiProbe -----------------------------
(***************************************************************************)
(* The perturbation sets of a query (class MultiProbe) and the loop of     *)
(* G::retrieve_point that turns them into hash keys to look up.            *)
(*                                                                         *)
(* z_j of the paper is distFuns[j + 1]: the distances of the query to its  *)
(* 2k bucket boundaries in ascending order.  A perturbation set is a set   *)
(* of positions j, counted from 0.  score() and getIndex() read distFuns   *)
(* without a check, so a position past its end contributes whatever the    *)
(* heap holds there: any value of Garbage.  Heap elements are numbered in  *)
(* the order they are pushed, which tells equal sets apart.                *)
(***************************************************************************)
EXTENDS Integers, Sequences, FiniteSetsExt

CONSTANTS
  Queries,              \* [x : boundary distances, T : sets asked for, g : hashes]
  Garbage,              \* what lies in memory behind distFuns, squared
  Word                  \* 2^32: hash values are unsigned

(* x holds a left and a right distance for each of the k hash functions.   *)
ASSUME QueriesAssumption ==
  \A q \in Queries : /\ q.x \in Seq(Nat) /\ q.T \in Nat
                     /\ q.g \in Seq(0 .. Word - 1) /\ Len(q.g) > 0
                     /\ Len(q.x) = 2 * Len(q.g)
ASSUME GarbageAssumption == Garbage \subseteq Nat
ASSUME WordAssumption == Word \in Nat \ {0}

VARIABLES
  pc,          \* "idle", "search" in algorithm1, "probe" in retrieve_point
  query,       \* the query of this table
  distFuns,    \* sequence of [dist, index, boundary]
  goal,        \* T, at most the number of distances
  minHeap,     \* elements [perturbs, score, nr]
  outSets,     \* the valid elements found, a priority queue too
  taken,       \* history: every element extracted from minHeap
  probeIdx,    \* multiProbeIdx
  probes       \* the keys looked up: [key, wild]

vars == <<pc, query, distFuns, goal, minHeap, outSets, taken, probeIdx, probes>>

-----------------------------------------------------------------------------
(* Sets of positions.                                                      *)

Element(a, s, n) == [perturbs |-> a, score |-> s, nr |-> n]

NumHashBoundaries == Len(distFuns)

LastOf(a) == CHOOSE m \in a : \A j \in a : m >= j

Shift(a) == (a \ {LastOf(a)}) \cup {LastOf(a) + 1}

Expand(a) == a \cup {LastOf(a) + 1}

(* Position 2k passes: the comparison is > where positions start at 0. *)
Valid(a) ==
  \A j \in a : j <= NumHashBoundaries /\ NumHashBoundaries - j - 1 \notin a

Known(a) == {j \in a : j < NumHashBoundaries}

KnownScore(a) ==
  MapThenSumSet(LAMBDA j : distFuns[j + 1].dist * distFuns[j + 1].dist, Known(a))

(* Mutant: the plain sum of the distances. *)
ScoresUnsquared(a) ==
  IF Known(a) = a THEN {MapThenSumSet(LAMBDA j : distFuns[j + 1].dist, a)} ELSE Garbage

Scores(a) ==
  IF Known(a) = a THEN {KnownScore(a)} ELSE {KnownScore(a) + w : w \in Garbage}

(* Mutant: the two directions swapped. *)
DistFunDownUp(x, i) == [dist |-> x[i + 1], index |-> i, boundary |-> IF i % 2 = 0 THEN 1 ELSE -1]

(* The distance to boundary i, which of the hash functions, less or more.  *)
DistFun(x, i) == [dist |-> x[i + 1], index |-> i, boundary |-> IF i % 2 = 1 THEN 1 ELSE -1]

(* How pairs compare: by distance, then by index, so that no two are equal. *)
Before(a, b) == a.dist < b.dist \/ (a.dist = b.dist /\ a.index < b.index)

(* std::sort: as many distances are before an entry as positions are.      *)
SortedDistFuns(x) ==
  LET all == {DistFun(x, i) : i \in 0 .. Len(x) - 1}
  IN  [i \in 1 .. Len(x) |-> CHOOSE d \in all : Cardinality({c \in all : Before(c, d)}) = i - 1]

(* Which of several equal scores a priority_queue has on top is its own    *)
(* business.                                                               *)
Tops(heap) == {e \in heap : \A f \in heap : e.score <= f.score}

(* Elements still in the heap are numbered after those taken out. *)
NextNr == Cardinality(minHeap) + Cardinality(taken) + 1

-----------------------------------------------------------------------------
(* The steps.                                                              *)

Init ==
  /\ pc = "idle"
  /\ query = CHOOSE q \in Queries : TRUE
  /\ distFuns = <<>> /\ goal = 0
  /\ minHeap = {} /\ outSets = {} /\ taken = {}
  /\ probeIdx = 0 /\ probes = <<>>

(* Mutant: minHeap and outSets are those of the query before. *)
GenerateUncleaned ==
  /\ pc = "idle"
  /\ query' \in Queries
  /\ distFuns' = SortedDistFuns(query'.x)
  /\ goal' = Min({query'.T, Len(query'.x)})
  /\ minHeap' = minHeap \cup {Element({0}, distFuns'[1].dist * distFuns'[1].dist, 1)}
  /\ outSets' = {} /\ taken' = {}
  /\ probeIdx' = 0 /\ probes' = <<>>
  /\ pc' = IF goal' = 0 THEN "probe" ELSE "search"

(* generatePerturbationSets: cleanup, initialize, makeSortedDistFuns, and   *)
(* algorithm1 up to its loop.  Re-entrant: one object serves every table.  *)
Generate ==
  /\ pc = "idle"
  /\ query' \in Queries
  /\ distFuns' = SortedDistFuns(query'.x)
  /\ goal' = Min({query'.T, Len(query'.x)})
  /\ minHeap' = {Element({0}, distFuns'[1].dist * distFuns'[1].dist, 1)}
  /\ outSets' = {} /\ taken' = {}
  /\ probeIdx' = 0 /\ probes' = <<>>
  /\ pc' = IF goal' = 0 THEN "probe" ELSE "search"

(* One turn of the do-while: both successors are pushed, valid or not. *)
Extract ==
  /\ pc = "search"
  /\ \E e \in Tops(minHeap) :
       /\ \E s \in Scores(Shift(e.perturbs)), t \in Scores(Expand(e.perturbs)) :
            minHeap' = (minHeap \ {e})
                         \cup {Element(Shift(e.perturbs), s, NextNr),
                               Element(Expand(e.perturbs), t, NextNr + 1)}
       /\ taken' = taken \cup {e}
       /\ outSets' = IF Valid(e.perturbs) THEN outSets \cup {e} ELSE outSets
       /\ pc' = IF Cardinality(outSets') = goal THEN "probe" ELSE "search"
  /\ UNCHANGED <<query, distFuns, goal, probeIdx, probes>>

-----------------------------------------------------------------------------
(* G::retrieve_point, for one table.                                       *)

(* g has one entry per hash function, but getIndex() counts boundaries: an *)
(* index of k or more is written behind the array mpg, and mpg is hashed   *)
(* without the change.                                                     *)
Perturbed(a) ==
  LET at(i) == {j \in Known(a) : distFuns[j + 1].index = i}
      delta(i) == MapThenSumSet(LAMBDA j : distFuns[j + 1].boundary, at(i))
      k == Len(query.g)
  IN  [key  |-> [i \in 1 .. k |-> (query.g[i] + delta(i - 1)) % Word],
       wild |-> Known(a) # a \/ \E j \in Known(a) : distFuns[j + 1].index >= k]

(* Mutant: multiProbeIdx is not advanced. *)
ProbeHomeStays ==
  /\ pc = "probe" /\ probeIdx = 0
  /\ probes' = <<[key |-> query.g, wild |-> FALSE]>>
  /\ UNCHANGED <<pc, query, distFuns, goal, minHeap, outSets, taken, probeIdx>>

(* generate_hash_keys: the bucket of the query itself. *)
ProbeHome ==
  /\ pc = "probe" /\ probeIdx = 0
  /\ probes' = <<[key |-> query.g, wild |-> FALSE]>>
  /\ probeIdx' = 1
  /\ UNCHANGED <<pc, query, distFuns, goal, minHeap, outSets, taken>>

(* The bound size() + 1 is read again before every turn, and shrinks as    *)
(* generate_multiprobe_keys takes the sets out.                            *)
MoreProbes == probeIdx < Cardinality(outSets) + 1

ProbeNext ==
  /\ pc = "probe" /\ probeIdx > 0 /\ MoreProbes
  /\ \E e \in Tops(outSets) :
       /\ probes' = Append(probes, Perturbed(e.perturbs))
       /\ outSets' = outSets \ {e}
  /\ probeIdx' = probeIdx + 1
  /\ UNCHANGED <<pc, query, distFuns, goal, minHeap, taken>>

ProbesDone ==
  /\ pc = "probe" /\ probeIdx > 0 /\ ~MoreProbes
  /\ pc' = "idle"
  /\ UNCHANGED <<query, distFuns, goal, minHeap, outSets, taken, probeIdx, probes>>

Next == Generate \/ Extract \/ ProbeHome \/ ProbeNext \/ ProbesDone

Spec == Init /\ [][Next]_vars

(* A call runs to its end. *)
FairSpec == Spec /\ WF_vars(Extract) /\ WF_vars(ProbeHome \/ ProbeNext \/ ProbesDone)

-----------------------------------------------------------------------------
(* What should hold.                                                       *)

(* shift and expand (multiprobe.cpp:149-163) reach every set along one path *)
(* only: no perturbation set is ever in the heap twice, nor comes back     *)
(* after it was taken out, so no bucket is probed twice for it.            *)
EachSetOnce ==
  \A e, f \in minHeap \cup taken : e.perturbs = f.perturbs => e = f

(* The sets the paper allows: not both of two positions that mirror each   *)
(* other.  They are the two boundaries of one hash function unless other   *)
(* distances are equal to theirs (multiprobe.cpp:202-217).                 *)
ValidSets ==
  {a \in SUBSET (0 .. NumHashBoundaries - 1) :
     a # {} /\ \A j \in a : NumHashBoundaries - 1 - j \notin a}

Found == {e \in taken : Valid(e.perturbs)}

(* algorithm1 (multiprobe.cpp:111-136) finds the best valid sets first: no *)
(* valid set of a lower score is passed over, and what lies behind         *)
(* distFuns never gets among the results.                                  *)
BestFirst ==
  /\ \A e \in Found : e.perturbs \in ValidSets /\ e.score = KnownScore(e.perturbs)
  /\ \A e \in Found, a \in ValidSets :
       KnownScore(a) < e.score => \E f \in Found : f.perturbs = a

Finished == pc = "idle" /\ probes # <<>>

(* What compute_hash_functions gives: left 0 and right 1, for every query  *)
(* (lshlib.cpp:332-337 rounds the projection before it takes the distance).*)
LshDistances(x) == \A i \in DOMAIN x : x[i] = (i + 1) % 2

(* With the default T = 1 and the distances LSH gives, the one bucket that *)
(* is looked up besides the query's own is always the one below it in the  *)
(* first hash function, inside its array: what LshIndex takes a query to   *)
(* probe (lshlib.cpp:352-369, 579-583).                                    *)
DefaultBelow ==
  Finished /\ goal = 1 /\ LshDistances(query.x) =>
    /\ Len(probes) = 2
    /\ probes[2] = [key |-> [query.g EXCEPT ![1] = (@ + Word - 1) % Word], wild |-> FALSE]

(* Violated: LSH_MULTI_PROBE_COUNT is how many adjacent buckets are probed *)
(* (lshlib.h:114).  Of two sets or more that were found the loop of        *)
(* G::retrieve_point (lshlib.cpp:579) looks up the first half, rounded up: *)
(* its bound shrinks as the sets are taken.                                *)
ProbesAsMany == Finished => Len(probes) = 1 + goal

(* Every search for perturbation sets, and the probing after it, ends.     *)
SearchEnds == pc = "search" ~> pc = "idle"
=============================================================================
