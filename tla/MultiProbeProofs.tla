-------------------------- MODULE MultiProbeProofs --------------------------
(***************************************************************************)
(* Proofs about MultiProbe: the search reaches every perturbation set      *)
(* along one path only and finds the best sets first, and the default      *)
(* probe is the bucket below.                                              *)
(***************************************************************************)
EXTENDS MultiProbe, OffsetsProofs, TLAPS

(* The sets of positions that occur: not empty, with a last position.      *)
Positions == {a \in SUBSET Nat : \E m \in a : \A j \in a : m >= j}

(* What LastOf gives of such a set.                                        *)
LEMMA LastIsGreatest ==
  ASSUME NEW a \in Positions
  PROVE  /\ LastOf(a) \in a /\ LastOf(a) \in Nat
         /\ \A j \in a : j \in Nat /\ j <= LastOf(a)
BY DEF Positions, LastOf

(* A position of the set with nothing above it is the last one.            *)
LEMMA GreatestIsLast ==
  ASSUME NEW a \in SUBSET Nat, NEW m \in a, \A j \in a : j <= m
  PROVE  a \in Positions /\ LastOf(a) = m
<1>1. a \in Positions
  BY DEF Positions
<1>2. LastOf(a) \in a /\ LastOf(a) \in Nat /\ m <= LastOf(a)
  BY <1>1, LastIsGreatest
<1>3. LastOf(a) <= m /\ m \in Nat
  BY <1>2
<1> QED
  BY <1>1, <1>2, <1>3

(* shift moves the last position up by one.                                *)
LEMMA ShiftLast ==
  ASSUME NEW a \in Positions
  PROVE  /\ Shift(a) \in Positions
         /\ LastOf(Shift(a)) = LastOf(a) + 1
         /\ LastOf(a) \notin Shift(a)
<1> DEFINE m == LastOf(a)
<1>1. m \in Nat /\ \A j \in a : j \in Nat /\ j <= m
  BY LastIsGreatest
<1>2. Shift(a) = (a \ {m}) \cup {m + 1}
  BY DEF Shift
<1> HIDE DEF m
<1>3. Shift(a) \in SUBSET Nat /\ m + 1 \in Shift(a) /\ \A j \in Shift(a) : j <= m + 1
  BY <1>1, <1>2
<1>4. m \notin Shift(a)
  BY <1>1, <1>2
<1>5. Shift(a) \in Positions /\ LastOf(Shift(a)) = m + 1
  BY <1>3, GreatestIsLast
<1> QED
  BY <1>4, <1>5 DEF m

(* expand adds the position behind the last one.                           *)
LEMMA ExpandLast ==
  ASSUME NEW a \in Positions
  PROVE  /\ Expand(a) \in Positions
         /\ LastOf(Expand(a)) = LastOf(a) + 1
         /\ LastOf(a) \in Expand(a)
<1> DEFINE m == LastOf(a)
<1>1. m \in a /\ m \in Nat /\ (\A j \in a : j \in Nat /\ j <= m)
  BY LastIsGreatest
<1>2. Expand(a) = a \cup {m + 1}
  BY DEF Expand
<1> HIDE DEF m
<1>3. m + 1 \in Nat /\ (\A j \in Expand(a) : j \in Nat /\ j <= m + 1)
  <2> SUFFICES ASSUME NEW j \in Expand(a) PROVE m + 1 \in Nat /\ j \in Nat /\ j <= m + 1
    BY <1>2
  <2>1. CASE j \in a
    BY <2>1, <1>1
  <2>2. CASE j = m + 1
    BY <2>2, <1>1
  <2> QED
    BY <1>2, <2>1, <2>2
<1>4. m \in Expand(a)
  BY <1>1, <1>2
<1>5. Expand(a) \in Positions /\ LastOf(Expand(a)) = m + 1
  BY <1>2, <1>3, GreatestIsLast
<1> QED
  BY <1>4, <1>5 DEF m

(* No set is reached from two sets, nor from one in both ways: shift       *)
(* leaves a gap below the last position, expand does not, and each can be  *)
(* undone.                                                                 *)
LEMMA OnePath ==
  ASSUME NEW a \in Positions, NEW b \in Positions
  PROVE  /\ Shift(a) = Shift(b) => a = b
         /\ Expand(a) = Expand(b) => a = b
         /\ Shift(a) # Expand(b)
<1>1. Shift(a) # Expand(b)
  <2> SUFFICES ASSUME Shift(a) = Expand(b) PROVE FALSE
    OBVIOUS
  <2>1. LastOf(a) + 1 = LastOf(b) + 1
    BY ShiftLast, ExpandLast
  <2>2. LastOf(a) = LastOf(b)
    BY <2>1, LastIsGreatest
  <2> QED
    BY <2>2, ShiftLast, ExpandLast
<1>2. ASSUME Shift(a) = Shift(b) PROVE a = b
  <2>1. LastOf(a) + 1 = LastOf(b) + 1
    BY <1>2, ShiftLast
  <2>2. LastOf(a) = LastOf(b)
    BY <2>1, LastIsGreatest
  <2>3. ASSUME NEW c \in Positions PROVE c = (Shift(c) \ {LastOf(c) + 1}) \cup {LastOf(c)}
    <3> DEFINE m == LastOf(c)
    <3>1. m \in c /\ m \in Nat /\ \A j \in c : j \in Nat /\ j <= m
      BY LastIsGreatest
    <3>2. Shift(c) = (c \ {m}) \cup {m + 1}
      BY DEF Shift
    <3> HIDE DEF m
    <3>3. m + 1 \notin c
      BY <3>1
    <3>4. c = (Shift(c) \ {m + 1}) \cup {m}
      BY <3>1, <3>2, <3>3
    <3> QED
      BY <3>4 DEF m
  <2> QED
    BY <1>2, <2>2, <2>3
<1>3. ASSUME Expand(a) = Expand(b) PROVE a = b
  <2>1. LastOf(a) + 1 = LastOf(b) + 1
    BY <1>3, ExpandLast
  <2>2. LastOf(a) = LastOf(b)
    BY <2>1, LastIsGreatest
  <2>3. ASSUME NEW c \in Positions PROVE c = Expand(c) \ {LastOf(c) + 1}
    <3> DEFINE m == LastOf(c)
    <3>1. m \in Nat /\ \A j \in c : j \in Nat /\ j <= m
      BY LastIsGreatest
    <3>2. Expand(c) = c \cup {m + 1}
      BY DEF Expand
    <3> HIDE DEF m
    <3>3. m + 1 \notin c
      BY <3>1
    <3>4. c = Expand(c) \ {m + 1}
      BY <3>2, <3>3
    <3> QED
      BY <3>4 DEF m
  <2> QED
    BY <1>3, <2>2, <2>3
<1> QED
  BY <1>1, <1>2, <1>3

-----------------------------------------------------------------------------
(* Why a set never comes up twice: every set but the first was made from   *)
(* one that was taken out, and what was taken out is not in the heap.      *)

Seen == minHeap \cup taken

Traced ==
  \A e \in Seen : \/ e.perturbs = {0}
                  \/ \E f \in taken : e.perturbs \in {Shift(f.perturbs), Expand(f.perturbs)}

IInv ==
  /\ \A e \in Seen : e.perturbs \in Positions
  /\ minHeap \cap taken = {}
  /\ Traced
  /\ EachSetOnce

LEMMA First == {0} \in Positions /\ LastOf({0}) = 0
BY GreatestIsLast

(* The successors of an element of the heap are new.                       *)
LEMMA SuccessorsNew ==
  ASSUME IInv, NEW e \in minHeap, NEW g \in Seen
  PROVE  g.perturbs \notin {Shift(e.perturbs), Expand(e.perturbs)}
<1> SUFFICES ASSUME g.perturbs \in {Shift(e.perturbs), Expand(e.perturbs)} PROVE FALSE
  OBVIOUS
<1> DEFINE p == e.perturbs
<1>1. p \in Positions /\ e \in Seen
  BY DEF IInv, Seen
<1>2. LastOf(g.perturbs) = LastOf(p) + 1 /\ LastOf(p) \in Nat
  BY <1>1, ShiftLast, ExpandLast, LastIsGreatest
<1>3. g.perturbs # {0}
  BY <1>2, First
<1>4. PICK f \in taken : g.perturbs \in {Shift(f.perturbs), Expand(f.perturbs)}
  BY <1>3 DEF IInv, Traced
<1>5. f.perturbs \in Positions
  BY DEF IInv, Seen
<1>6. f.perturbs = p
  BY <1>1, <1>4, <1>5, OnePath
<1>7. f = e
  BY <1>6 DEF IInv, EachSetOnce
<1> QED
  BY <1>7 DEF IInv

(* One turn of the loop keeps the invariant.                               *)
LEMMA ExtractKeeps ==
  ASSUME IInv, Extract
  PROVE  IInv'
<1>0. PICK e \in minHeap :
        \E s, t :
          /\ minHeap' = (minHeap \ {e}) \cup {Element(Shift(e.perturbs), s, NextNr),
                                             Element(Expand(e.perturbs), t, NextNr + 1)}
          /\ taken' = taken \cup {e}
  BY DEF Extract, Tops
<1>1. PICK s, t :
        /\ minHeap' = (minHeap \ {e}) \cup {Element(Shift(e.perturbs), s, NextNr),
                                           Element(Expand(e.perturbs), t, NextNr + 1)}
        /\ taken' = taken \cup {e}
  BY <1>0
<1> DEFINE p == e.perturbs
           up == Element(Shift(p), s, NextNr)
           more == Element(Expand(p), t, NextNr + 1)
<1>2. up.perturbs = Shift(p) /\ more.perturbs = Expand(p)
  BY DEF Element
<1>3. e \in Seen /\ p \in Positions
  BY DEF IInv, Seen
<1>4. Shift(p) \in Positions /\ Expand(p) \in Positions /\ Shift(p) # Expand(p)
  BY <1>3, ShiftLast, ExpandLast, OnePath
<1>5. \A g \in Seen : g.perturbs # Shift(p) /\ g.perturbs # Expand(p)
  BY SuccessorsNew
<1> HIDE DEF p, up, more
<1>6. minHeap' = (minHeap \ {e}) \cup {up, more} /\ Seen' = Seen \cup {up, more}
  BY <1>1 DEF p, up, more, Seen
<1>7. \A g \in Seen' : g.perturbs \in Positions
  BY <1>2, <1>4, <1>6 DEF IInv
<1>8. minHeap' \cap taken' = {}
  BY <1>1, <1>2, <1>3, <1>5, <1>6 DEF IInv, Seen
<1>9. Traced'
  <2> SUFFICES ASSUME NEW g \in Seen'
               PROVE  g.perturbs = {0}
                        \/ \E f \in taken' : g.perturbs \in {Shift(f.perturbs), Expand(f.perturbs)}
    BY DEF Traced
  <2>1. CASE g \in Seen
    BY <2>1, <1>1 DEF IInv, Traced
  <2>2. CASE g \in {up, more}
    BY <2>2, <1>1, <1>2 DEF p
  <2> QED
    BY <1>6, <2>1, <2>2
<1>10. EachSetOnce'
  <2> SUFFICES ASSUME NEW g \in Seen', NEW h \in Seen', g.perturbs = h.perturbs
               PROVE  g = h
    BY DEF EachSetOnce, Seen
  <2>1. CASE g \in Seen /\ h \in Seen
    BY <2>1 DEF IInv, EachSetOnce, Seen
  <2>2. CASE g \in {up, more} \/ h \in {up, more}
    BY <2>2, <1>2, <1>4, <1>5, <1>6
  <2> QED
    BY <1>6, <2>1, <2>2
<1> QED
  BY <1>7, <1>8, <1>9, <1>10 DEF IInv

(* Every step keeps the invariant.                                         *)
LEMMA TraceKept ==
  ASSUME IInv, [Next]_vars
  PROVE  IInv'
<1>1. CASE Generate
  <2>1. PICK s : minHeap' = {Element({0}, s, 1)} /\ taken' = {}
    BY <1>1 DEF Generate
  <2>2. Seen' = {Element({0}, s, 1)} /\ Element({0}, s, 1).perturbs = {0}
    BY <2>1 DEF Seen, Element
  <2> QED
    BY <2>1, <2>2, First DEF IInv, Traced, EachSetOnce, Seen
<1>2. CASE Extract
  BY <1>2, ExtractKeeps
<1>3. CASE UNCHANGED <<minHeap, taken>>
  BY <1>3 DEF IInv, Seen, Traced, EachSetOnce
<1>4. CASE ProbeHome \/ ProbeNext \/ ProbesDone \/ UNCHANGED vars
  BY <1>3, <1>4 DEF ProbeHome, ProbeNext, ProbesDone, vars
<1> QED
  BY <1>1, <1>2, <1>4 DEF Next

(* No perturbation set is ever in the heap of algorithm1 twice, nor comes  *)
(* back after it was taken out (multiprobe.cpp:111-163), whatever the      *)
(* distances, the number of hash functions and the number of sets asked    *)
(* for.                                                                    *)
THEOREM SetsOnce == Spec => []EachSetOnce
<1>1. Init => IInv
  BY DEF Init, IInv, Seen, Traced, EachSetOnce
<1>2. IInv /\ [Next]_vars => IInv'
  BY TraceKept
<1>3. IInv => EachSetOnce
  BY DEF IInv
<1> QED
  BY <1>1, <1>2, <1>3, PTL DEF Spec

-----------------------------------------------------------------------------
(* The distances in order.                                                  *)

Entries(x) == {DistFun(x, i) : i \in 0 .. Len(x) - 1}

Rank(x, d) == Cardinality({c \in Entries(x) : Before(c, d)})

LEMMA CountFromZero ==
  ASSUME NEW n \in Nat
  PROVE  IsFiniteSet(0 .. n - 1) /\ Cardinality(0 .. n - 1) = n
<1>1. 0 \in Int /\ n - 1 \in Int
  OBVIOUS
<1>2. IsFiniteSet(0 .. n - 1) /\ Cardinality(0 .. n - 1) = IF 0 > n - 1 THEN 0 ELSE (n - 1) - 0 + 1
  BY ONLY <1>1, FS_Interval
<1> QED
  BY <1>2

(* Every position has one entry with as many before it.                     *)
LEMMA SortedIs ==
  ASSUME NEW x \in Seq(Nat)
  PROVE  LET s == SortedDistFuns(x)
         IN  /\ s \in [1 .. Len(x) -> Entries(x)]
             /\ \A i, j \in 1 .. Len(x) : i < j => Before(s[i], s[j])
             /\ \A d \in Entries(x) : \E i \in 1 .. Len(x) : s[i] = d
<1> DEFINE n == Len(x)
           all == Entries(x)
           R == [d \in all |-> Rank(x, d)]
<1>0. n \in Nat /\ \A i \in 1 .. n : x[i] \in Nat
  OBVIOUS
<1> DEFINE dist(i) == x[i + 1]
<1>1. ASSUME NEW d \in all
      PROVE  /\ d.dist \in Nat /\ d.index \in 0 .. n - 1 /\ d = DistFun(x, d.index)
             /\ d.index + 1 \in 1 .. n
  <2>1. PICK i \in 0 .. n - 1 : d = DistFun(x, i)
    BY DEF Entries
  <2>2. i + 1 \in 1 .. n /\ d.index = i /\ d.dist = x[i + 1]
    BY <1>0, <2>1 DEF DistFun
  <2> QED
    BY <1>0, <2>1, <2>2
<1>2. IsFiniteSet(all) /\ Cardinality(all) = n
  <2> DEFINE f == [i \in 0 .. n - 1 |-> DistFun(x, i)]
  <2>1. \A i, j \in 0 .. n - 1 : f[i] = f[j] => i = j
    BY DEF DistFun
  <2>2. f \in [0 .. n - 1 -> all] /\ \A d \in all : \E i \in 0 .. n - 1 : f[i] = d
    BY DEF Entries
  <2>3. f \in Bijection(0 .. n - 1, all)
    BY <2>1, <2>2 DEF Bijection, Injection, Surjection, IsInjective
  <2>4. IsFiniteSet(0 .. n - 1) /\ Cardinality(0 .. n - 1) = n
    BY <1>0, CountFromZero
  <2> QED
    BY <2>3, <2>4, FS_Bijection DEF ExistsBijection
<1>3. \A a, b, c \in all : /\ ~ Before(a, a)
                           /\ Before(a, b) /\ Before(b, c) => Before(a, c)
                           /\ a # b => Before(a, b) \/ Before(b, a)
  <2> SUFFICES ASSUME NEW a \in all, NEW b \in all, NEW c \in all
               PROVE  /\ ~ Before(a, a)
                      /\ Before(a, b) /\ Before(b, c) => Before(a, c)
                      /\ a # b => Before(a, b) \/ Before(b, a)
    OBVIOUS
  <2>1. a.dist \in Nat /\ b.dist \in Nat /\ c.dist \in Nat /\ a.index \in Int /\ b.index \in Int /\ c.index \in Int
    BY <1>1
  <2>2. a # b => a.index # b.index
    BY <1>1
  <2> QED
    BY ONLY <2>1, <2>2 DEF Before
<1>4. \A d \in all : R[d] \in 0 .. n - 1
  <2> SUFFICES ASSUME NEW d \in all PROVE R[d] \in 0 .. n - 1
    OBVIOUS
  <2> DEFINE before == {c \in all : Before(c, d)}
  <2>1. before \in SUBSET (all \ {d})
    BY <1>3
  <2>2. IsFiniteSet(all \ {d}) /\ Cardinality(all \ {d}) = n - 1
    BY <1>2, FS_RemoveElement
  <2>3. IsFiniteSet(before) /\ Cardinality(before) <= n - 1
    BY <2>1, <2>2, FS_Subset
  <2>4. Cardinality(before) \in Nat
    BY <2>3, FS_CardinalityType
  <2>5. R[d] = Cardinality(before)
    BY DEF Rank
  <2> HIDE DEF before, R
  <2> QED
    BY <1>0, <2>3, <2>4, <2>5
<1>5. ASSUME NEW a \in all, NEW b \in all, Before(a, b)
      PROVE  R[a] < R[b]
  <2> DEFINE A == {c \in all : Before(c, a)}
             B == {c \in all : Before(c, b)}
  <2>1. A \in SUBSET (B \ {a}) /\ a \in B
    BY <1>3, <1>5
  <2>2. IsFiniteSet(B)
    BY <1>2, FS_Subset
  <2>3. IsFiniteSet(B \ {a}) /\ Cardinality(B \ {a}) = Cardinality(B) - 1
    BY <2>1, <2>2, FS_RemoveElement
  <2>4. Cardinality(A) <= Cardinality(B) - 1
    BY <2>1, <2>3, FS_Subset
  <2>5. R[a] = Cardinality(A) /\ R[b] = Cardinality(B) /\ R[a] \in Int /\ R[b] \in Int
    BY <1>0, <1>4 DEF Rank
  <2> HIDE DEF A, B, R
  <2> QED
    BY <2>4, <2>5
<1>6. \A i \in 1 .. n : \E d \in all : R[d] = i - 1
  <2>1. \A a, b \in all : R[a] = R[b] => a = b
    <3> SUFFICES ASSUME NEW a \in all, NEW b \in all, R[a] = R[b], a # b PROVE FALSE
      OBVIOUS
    <3>1. R[a] \in Int /\ R[b] \in Int
      BY <1>0, <1>4
    <3>2. R[a] < R[b] \/ R[b] < R[a]
      BY <1>3, <1>5
    <3> HIDE DEF R
    <3> QED
      BY <3>1, <3>2
  <2>2. R \in Injection(all, 0 .. n - 1)
    <3>1. R \in [all -> 0 .. n - 1]
      BY <1>4
    <3> QED
      BY <2>1, <3>1 DEF Injection, IsInjective
  <2>3. IsFiniteSet(0 .. n - 1) /\ Cardinality(0 .. n - 1) = n
    BY <1>0, CountFromZero
  <2>4. R \in Surjection(all, 0 .. n - 1)
    BY <1>2, <2>2, <2>3, FS_Injection
  <2>5. \A i \in 1 .. n : i - 1 \in 0 .. n - 1
    BY <1>0
  <2> HIDE DEF R
  <2> QED
    BY <2>4, <2>5 DEF Surjection
<1> DEFINE s == SortedDistFuns(x)
<1>7. s = [i \in 1 .. n |-> CHOOSE d \in all : Rank(x, d) = i - 1]
  BY DEF SortedDistFuns, Rank, Entries
<1>8. \A i \in 1 .. n : s[i] \in all /\ R[s[i]] = i - 1
  <2> SUFFICES ASSUME NEW i \in 1 .. n PROVE s[i] \in all /\ R[s[i]] = i - 1
    OBVIOUS
  <2>1. \E d \in all : Rank(x, d) = i - 1
    BY <1>6
  <2>2. s[i] = CHOOSE d \in all : Rank(x, d) = i - 1
    BY <1>7
  <2>3. s[i] \in all /\ Rank(x, s[i]) = i - 1
    BY <2>1, <2>2
  <2> QED
    BY <2>3
<1>9. s \in [1 .. n -> all]
  <2>1. s = [i \in 1 .. n |-> s[i]]
    BY <1>7
  <2> HIDE DEF s
  <2> QED
    BY <1>8, <2>1
<1> HIDE DEF s, R
<1>10. ASSUME NEW i \in 1 .. n, NEW j \in 1 .. n, i < j
       PROVE  Before(s[i], s[j])
  <2>1. R[s[i]] = i - 1 /\ R[s[j]] = j - 1 /\ s[i] \in all /\ s[j] \in all
    BY <1>8
  <2>2. ~ (R[s[j]] < R[s[i]]) /\ s[i] # s[j]
    BY <1>0, <1>10, <2>1
  <2> QED
    BY <1>3, <1>5, <2>1, <2>2
<1>11. ASSUME NEW d \in all PROVE \E i \in 1 .. n : s[i] = d
  <2>1. R[d] + 1 \in 1 .. n /\ R[d] \in Int
    BY <1>0, <1>4
  <2>2. R[s[R[d] + 1]] = R[d] /\ s[R[d] + 1] \in all
    <3>1. R[s[R[d] + 1]] = (R[d] + 1) - 1
      BY <1>8, <2>1
    <3> QED
      BY <1>8, <2>1, <3>1
  <2>3. s[R[d] + 1] = d
    <3> SUFFICES ASSUME s[R[d] + 1] # d PROVE FALSE
      OBVIOUS
    <3>1. R[s[R[d] + 1]] < R[d] \/ R[d] < R[s[R[d] + 1]]
      BY <1>3, <1>5, <2>2
    <3> QED
      BY <2>1, <2>2, <3>1
  <2> QED
    BY <2>1, <2>3
<1> QED
  BY <1>9, <1>10, <1>11 DEF s

-----------------------------------------------------------------------------
(* Scores.                                                                  *)

(* What a search works with.                                                *)
Generated ==
  /\ query \in Queries
  /\ distFuns = SortedDistFuns(query.x)
  /\ goal = Min({query.T, Len(query.x)})

Boundaries == 0 .. NumHashBoundaries - 1

Square == [j \in Boundaries |-> distFuns[j + 1].dist * distFuns[j + 1].dist]

LEMMA DistancesAscend ==
  ASSUME Generated
  PROVE  /\ NumHashBoundaries \in Nat /\ NumHashBoundaries >= 2 /\ NumHashBoundaries = Len(query.x)
         /\ goal \in Nat /\ goal <= NumHashBoundaries /\ (goal = query.T \/ goal = NumHashBoundaries)
         /\ \A i \in 1 .. NumHashBoundaries : distFuns[i] \in Entries(query.x) /\ distFuns[i].dist \in Nat
         /\ \A i, j \in 1 .. NumHashBoundaries : i <= j => distFuns[i].dist <= distFuns[j].dist
<1>1. query.x \in Seq(Nat) /\ query.T \in Nat /\ query.g \in Seq(0 .. Word - 1)
      /\ Len(query.g) > 0 /\ Len(query.x) = 2 * Len(query.g)
  BY QueriesAssumption DEF Generated
<1>2. PICK x \in Seq(Nat), n \in Nat, k \in Nat : x = query.x /\ n = Len(x) /\ k = Len(query.g)
  BY <1>1
<1>3. n >= 2
  BY <1>1, <1>2
<1>4. /\ distFuns \in [1 .. n -> Entries(x)]
      /\ \A i, j \in 1 .. n : i < j => Before(distFuns[i], distFuns[j])
  BY <1>2, SortedIs DEF Generated
<1>5. NumHashBoundaries = n
  <2>1. distFuns \in Seq(Entries(x))
    BY <1>4
  <2> QED
    BY <1>4, <2>1 DEF NumHashBoundaries
<1>6. \A d \in Entries(x) : d.dist \in Nat
  <2> SUFFICES ASSUME NEW i \in 0 .. n - 1 PROVE DistFun(x, i).dist \in Nat
    BY <1>2 DEF Entries
  <2>1. i + 1 \in 1 .. n
    OBVIOUS
  <2>2. x[i + 1] \in Nat
    BY <1>2, <2>1
  <2> QED
    BY <2>2 DEF DistFun
<1>7. \A i \in 1 .. n : distFuns[i] \in Entries(x) /\ distFuns[i].dist \in Nat
  BY <1>4, <1>6
<1>8. \A i, j \in 1 .. n : i <= j => distFuns[i].dist <= distFuns[j].dist
  <2> SUFFICES ASSUME NEW i \in 1 .. n, NEW j \in 1 .. n, i <= j
               PROVE  distFuns[i].dist <= distFuns[j].dist
    OBVIOUS
  <2>1. distFuns[i].dist \in Nat /\ distFuns[j].dist \in Nat
    BY <1>7
  <2>2. i = j \/ Before(distFuns[i], distFuns[j])
    BY <1>4
  <2> QED
    BY <2>1, <2>2 DEF Before
<1>9. goal \in Nat /\ goal <= n /\ (goal = query.T \/ goal = n)
  <2>1. goal = CHOOSE m \in {query.T, n} : \A y \in {query.T, n} : m <= y
    BY <1>2 DEF Generated, Min
  <2>2. \E m \in {query.T, n} : \A y \in {query.T, n} : m <= y
    BY <1>1
  <2>3. goal \in {query.T, n} /\ \A y \in {query.T, n} : goal <= y
    BY <2>1, <2>2
  <2> QED
    BY <1>1, <2>3
<1> QED
  BY <1>2, <1>3, <1>5, <1>7, <1>8, <1>9

LEMMA SquareType ==
  ASSUME Generated
  PROVE  /\ IsFiniteSet(Boundaries) /\ Cardinality(Boundaries) = NumHashBoundaries
         /\ \A j \in Boundaries : Square[j] \in Nat
         /\ \A i, j \in Boundaries : i <= j => Square[i] <= Square[j]
<1>1. PICK n \in Nat : n = NumHashBoundaries
  BY DistancesAscend
<1>2. \A j \in 0 .. n - 1 : j + 1 \in 1 .. n
  OBVIOUS
<1>3. \A j \in 0 .. n - 1 : distFuns[j + 1].dist \in Nat
  BY <1>1, <1>2, DistancesAscend
<1>4. \A i, j \in 0 .. n - 1 : i <= j => distFuns[i + 1].dist <= distFuns[j + 1].dist
  <2> SUFFICES ASSUME NEW i \in 0 .. n - 1, NEW j \in 0 .. n - 1, i <= j
               PROVE  distFuns[i + 1].dist <= distFuns[j + 1].dist
    OBVIOUS
  <2>1. i + 1 \in 1 .. n /\ j + 1 \in 1 .. n /\ i + 1 <= j + 1
    OBVIOUS
  <2> QED
    BY <1>1, <2>1, DistancesAscend
<1>5. \A a \in Nat, b \in Nat : a * a \in Nat /\ (a <= b => a * a <= b * b)
  OBVIOUS
<1>6. \A j \in 0 .. n - 1 : Square[j] = distFuns[j + 1].dist * distFuns[j + 1].dist
  BY <1>1 DEF Square, Boundaries
<1>7. \A j \in 0 .. n - 1 : Square[j] \in Nat
  BY <1>3, <1>5, <1>6
<1>8. \A i, j \in 0 .. n - 1 : i <= j => Square[i] <= Square[j]
  <2> SUFFICES ASSUME NEW i \in 0 .. n - 1, NEW j \in 0 .. n - 1, i <= j
               PROVE  Square[i] <= Square[j]
    OBVIOUS
  <2>1. PICK a \in Nat, b \in Nat : a = distFuns[i + 1].dist /\ b = distFuns[j + 1].dist
    BY <1>3
  <2>2. a <= b
    BY <1>4, <2>1
  <2>3. a * a <= b * b
    BY <1>5, <2>2
  <2> QED
    BY <1>6, <2>1, <2>3
<1> QED
  BY <1>1, <1>7, <1>8, CountFromZero DEF Boundaries

(* The score of a set of boundaries is the sum of their squared distances.  *)
LEMMA ScoreIsSum ==
  ASSUME Generated, NEW a \in SUBSET Boundaries
  PROVE  /\ Known(a) = a /\ IsFiniteSet(a)
         /\ KnownScore(a) = AddUp(Square, a) /\ KnownScore(a) \in Nat
<1> DEFINE Body(g) == [s \in SUBSET a |-> IF s = {} THEN 0
                         ELSE distFuns[(CHOOSE x \in s : TRUE) + 1].dist * distFuns[(CHOOSE x \in s : TRUE) + 1].dist
                                + g[s \ {CHOOSE x \in s : TRUE}]]
           iter == CHOOSE g : g = Body(g)
<1>0. Known(a) = a
  <2>1. PICK n \in Nat : n = NumHashBoundaries
    BY DistancesAscend
  <2>2. \A j \in a : j < n
    BY <2>1 DEF Boundaries
  <2> QED
    BY <2>1, <2>2 DEF Known
<1>1. IsFiniteSet(a) /\ (\A i \in a : Square[i] \in Int /\ Square[i] = distFuns[i + 1].dist * distFuns[i + 1].dist)
  <2>1. IsFiniteSet(a)
    BY SquareType, FS_Subset
  <2>2. \A i \in a : Square[i] \in Nat
    BY SquareType
  <2>3. \A i \in a : Square[i] = distFuns[i + 1].dist * distFuns[i + 1].dist
    BY DEF Square
  <2> QED
    BY <2>1, <2>2, <2>3
<1>2. PICK g : SumsUp(g, Square, a)
  BY <1>1, SumsExist
<1>3. \A s \in SUBSET a : s # {} =>
        Chosen(s) \in a /\ Square[Chosen(s)] = distFuns[(CHOOSE x \in s : TRUE) + 1].dist * distFuns[(CHOOSE x \in s : TRUE) + 1].dist
  BY <1>1 DEF Chosen
<1>4. g = Body(g)
  <2>1. g = [s \in SUBSET a |-> g[s]]
    BY <1>2 DEF SumsUp
  <2>2. \A s \in SUBSET a : g[s] = IF s = {} THEN 0
          ELSE distFuns[(CHOOSE x \in s : TRUE) + 1].dist * distFuns[(CHOOSE x \in s : TRUE) + 1].dist
                 + g[s \ {CHOOSE x \in s : TRUE}]
    BY <1>2, <1>3 DEF SumsUp, Chosen
  <2> QED
    BY <2>1, <2>2
<1>5. iter = Body(iter)
  BY <1>4
<1>6. KnownScore(a) = iter[a]
  BY <1>0 DEF KnownScore, MapThenSumSet, MapThenFoldSet
<1>7. PICK h : h = iter /\ h = Body(h)
  BY <1>5
<1> HIDE DEF iter
<1>8. h[{}] = 0
  BY <1>7
<1>9. \A s \in SUBSET a : s # {} => h[s] = Square[Chosen(s)] + h[s \ {Chosen(s)}]
  <2> SUFFICES ASSUME NEW s \in SUBSET a, s # {} PROVE h[s] = Square[Chosen(s)] + h[s \ {Chosen(s)}]
    OBVIOUS
  <2>1. h[s] = distFuns[(CHOOSE x \in s : TRUE) + 1].dist * distFuns[(CHOOSE x \in s : TRUE) + 1].dist
                 + h[s \ {CHOOSE x \in s : TRUE}]
    BY <1>7
  <2>2. Square[Chosen(s)] = distFuns[(CHOOSE x \in s : TRUE) + 1].dist * distFuns[(CHOOSE x \in s : TRUE) + 1].dist
    BY <1>3
  <2>3. Chosen(s) = CHOOSE x \in s : TRUE
    BY DEF Chosen
  <2> HIDE DEF Body
  <2> QED
    BY <2>1, <2>2, <2>3
<1>10. h[a] = AddUp(Square, a)
  BY <1>1, <1>8, <1>9, FoldAddsUp
<1>11. AddUp(Square, a) \in Nat
  <2>1. \A i \in a : Square[i] \in Nat
    BY SquareType
  <2> QED
    BY <1>1, <2>1, AddUpMonotone
<1> QED
  BY <1>0, <1>1, <1>6, <1>7, <1>10, <1>11

(* More boundaries score no better.                                         *)
LEMMA ScoreMonotone ==
  ASSUME Generated, NEW b \in SUBSET Boundaries, NEW a \in SUBSET b
  PROVE  KnownScore(a) <= KnownScore(b)
<1>1. \A i \in b : Square[i] \in Nat
  BY SquareType
<1>2. IsFiniteSet(b) /\ KnownScore(b) = AddUp(Square, b)
  BY ScoreIsSum
<1>3. KnownScore(a) = AddUp(Square, a)
  BY ScoreIsSum
<1> QED
  BY <1>1, <1>2, <1>3, AddUpMonotone

LEMMA ScoreOneMore ==
  ASSUME Generated, NEW a \in SUBSET Boundaries, NEW m \in Boundaries \ a
  PROVE  KnownScore(a \cup {m}) = Square[m] + KnownScore(a)
<1>1. a \cup {m} \in SUBSET Boundaries
  OBVIOUS
<1>2. \A y \in a \cup {m} : Square[y] \in Int
  BY SquareType
<1>3. AddUp(Square, a \cup {m}) = Square[m] + AddUp(Square, a)
  BY <1>2, ScoreIsSum, AddUpOneMore
<1>4. KnownScore(a \cup {m}) = AddUp(Square, a \cup {m})
  BY <1>1, ScoreIsSum
<1>5. KnownScore(a) = AddUp(Square, a)
  BY ScoreIsSum
<1> QED
  BY <1>3, <1>4, <1>5

(* b below m, and m.                                                        *)
Upto(b, m) == {j \in b : j < m} \cup {m}

(* The sets on the way to a set score no worse than it.                     *)
LEMMA UptoScore ==
  ASSUME Generated, NEW b \in SUBSET Boundaries, b \in Positions, NEW m \in 0 .. LastOf(b)
  PROVE  Upto(b, m) \in SUBSET Boundaries /\ KnownScore(Upto(b, m)) <= KnownScore(b)
<1>1. PICK n \in Nat, l \in Nat : n = NumHashBoundaries /\ l = LastOf(b)
  BY LastIsGreatest, DistancesAscend
<1> DEFINE r == {j \in b : j < m}
<1>2. l \in b /\ l \in Boundaries /\ m \in Boundaries /\ m <= l /\ r \in SUBSET Boundaries
  <2>1. l \in b /\ \A j \in b : j \in 0 .. n - 1
    BY <1>1, LastIsGreatest DEF Boundaries
  <2>2. m \in 0 .. n - 1 /\ m <= l
    BY <1>1, <2>1
  <2> QED
    BY <1>1, <2>1, <2>2 DEF Boundaries
<1>3. m \notin r /\ l \notin r
  <2>1. m \in Int /\ ~ (m < m) /\ ~ (l < m)
    BY <1>1, <1>2
  <2> QED
    BY <2>1
<1>4. r \cup {m} = Upto(b, m) /\ r \cup {l} \in SUBSET b
  BY <1>2 DEF Upto
<1> HIDE DEF r
<1>5. KnownScore(r \cup {m}) = Square[m] + KnownScore(r)
  BY <1>2, <1>3, ScoreOneMore
<1>6. KnownScore(r \cup {l}) = Square[l] + KnownScore(r)
  BY <1>2, <1>3, ScoreOneMore
<1>7. KnownScore(r \cup {l}) <= KnownScore(b)
  BY <1>4, ScoreMonotone
<1>8. Square[m] <= Square[l] /\ Square[m] \in Nat /\ Square[l] \in Nat
  BY <1>2, SquareType
<1>9. KnownScore(r) \in Nat /\ KnownScore(b) \in Nat
  BY <1>2, ScoreIsSum
<1>10. Square[m] + KnownScore(r) <= KnownScore(b)
  BY <1>6, <1>7, <1>8, <1>9
<1>11. Upto(b, m) \in SUBSET Boundaries
  BY <1>2, <1>4
<1> QED
  BY <1>4, <1>5, <1>10, <1>11

(* With distances above 0 a single boundary scores better than any set it   *)
(* is in.                                                                   *)
Positive == \A i \in 1 .. NumHashBoundaries : distFuns[i].dist > 0

LEMMA SingleScoresLess ==
  ASSUME Generated, Positive, NEW b \in SUBSET Boundaries, NEW l \in b, b # {l}
  PROVE  KnownScore({l}) < KnownScore(b)
<1>1. PICK k \in b : k # l
  OBVIOUS
<1>2. k \in Boundaries \ {l} /\ {l} \in SUBSET Boundaries /\ {l} \cup {k} \in SUBSET b
  BY <1>1
<1>3. KnownScore({l} \cup {k}) = Square[k] + KnownScore({l})
  BY <1>2, ScoreOneMore
<1>4. KnownScore({l} \cup {k}) <= KnownScore(b)
  BY <1>2, ScoreMonotone
<1>5. Square[k] > 0 /\ Square[k] \in Nat
  <2>1. PICK n \in Nat : n = NumHashBoundaries
    BY DistancesAscend
  <2>2. k + 1 \in 1 .. n
    BY <1>2, <2>1 DEF Boundaries
  <2>3. PICK d \in Nat : d = distFuns[k + 1].dist /\ d > 0
    BY <2>1, <2>2, DistancesAscend DEF Positive
  <2>4. d * d > 0 /\ d * d \in Nat
    BY <2>3
  <2>5. Square[k] = d * d
    BY <1>2, <2>3 DEF Square
  <2> QED
    BY <2>4, <2>5
<1>6. KnownScore({l}) \in Nat /\ KnownScore(b) \in Nat
  BY <1>2, ScoreIsSum
<1> QED
  BY <1>3, <1>4, <1>5, <1>6

-----------------------------------------------------------------------------
(* The order in which sets are found.                                       *)

Fresh == pc = "idle" /\ probes = <<>> /\ minHeap = {} /\ outSets = {} /\ taken = {}

(* Positions behind distFuns score whatever lies there; all other scores    *)
(* are right.                                                               *)
ScoresRight ==
  \A e \in Seen : e.perturbs \subseteq Boundaries => e.score = KnownScore(e.perturbs)

(* What was not taken out has one in the heap from which it will be reached. *)
Reached(b) ==
  \/ \E f \in taken : f.perturbs = b
  \/ \E f \in minHeap, m \in 0 .. LastOf(b) : f.perturbs = Upto(b, m)

Proper == (SUBSET Boundaries) \cap Positions

(* No set reaches a boundary before all single boundaries up to it are      *)
(* found.                                                                   *)
SinglesFirst ==
  Positive => \A e \in taken, m \in Boundaries :
                m <= LastOf(e.perturbs) => \E f \in taken : f.perturbs = {m}

(* What lies behind distFuns is in no result.                               *)
NoneBehind ==
  \A e \in Found : NumHashBoundaries \notin e.perturbs

InOrder ==
  \A e \in Found, a \in ValidSets : KnownScore(a) < e.score => \E f \in Found : f.perturbs = a

Searching ==
  pc = "search" => /\ outSets = Found /\ Cardinality(outSets) < goal
                   /\ goal <= 1 => taken = {}

SearchInv ==
  /\ IInv
  /\ pc \in {"idle", "search", "probe"}
  /\ \/ Fresh
     \/ /\ Generated /\ IsFiniteSet(taken) /\ outSets \subseteq Found /\ Searching
        /\ goal <= 1 \/ Positive
        /\ ScoresRight /\ SinglesFirst /\ (\A b \in Proper : Reached(b))
        /\ NoneBehind /\ InOrder

(* A valid set without position 2k is one the paper allows, and with one    *)
(* hash function or more a single boundary is.                              *)
LEMMA ValidAllowed ==
  ASSUME Generated, NEW a \in Positions
  PROVE  /\ Valid(a) /\ NumHashBoundaries \notin a => a \in ValidSets
         /\ a \in ValidSets => Valid(a) /\ a \in Proper /\ NumHashBoundaries \notin a
         /\ Valid(a) => LastOf(a) <= NumHashBoundaries
<1>1. PICK n \in Nat : n = NumHashBoundaries /\ n >= 2
  BY DistancesAscend
<1>2. a \in SUBSET Nat /\ a # {}
  BY DEF Positions
<1>3. ASSUME Valid(a), n \notin a PROVE a \in ValidSets
  <2>1. \A j \in a : j \in Nat /\ j <= n /\ n - j - 1 \notin a
    BY <1>1, <1>2, <1>3 DEF Valid
  <2>2. \A j \in a : j \in 0 .. n - 1 /\ n - 1 - j \notin a
    <3> SUFFICES ASSUME NEW j \in a PROVE j \in 0 .. n - 1 /\ n - 1 - j \notin a
      OBVIOUS
    <3>1. j \in Nat /\ j <= n /\ n - j - 1 \notin a /\ j # n
      BY <1>3, <2>1
    <3>2. n - 1 - j = n - j - 1
      BY <3>1
    <3> QED
      BY <3>1, <3>2
  <2> QED
    BY <1>1, <1>2, <2>2 DEF ValidSets
<1>4. ASSUME a \in ValidSets PROVE Valid(a) /\ a \in Proper /\ n \notin a
  <2>1. a \in SUBSET (0 .. n - 1) /\ \A j \in a : n - 1 - j \notin a
    BY <1>1, <1>4 DEF ValidSets
  <2>2. \A j \in a : j <= n /\ n - j - 1 \notin a
    <3> SUFFICES ASSUME NEW j \in a PROVE j <= n /\ n - j - 1 \notin a
      OBVIOUS
    <3>1. j \in 0 .. n - 1 /\ n - 1 - j \notin a
      BY <2>1
    <3>2. n - 1 - j = n - j - 1
      BY <3>1
    <3> QED
      BY <3>1, <3>2
  <2>3. n \notin a
    BY <2>1
  <2>4. Valid(a)
    BY <1>1, <2>2 DEF Valid
  <2>5. a \in Proper
    BY <1>1, <2>1 DEF Proper, Boundaries
  <2> QED
    BY <2>3, <2>4, <2>5
<1>5. ASSUME Valid(a) PROVE LastOf(a) <= n
  BY <1>1, <1>5, LastIsGreatest DEF Valid
<1> QED
  BY <1>1, <1>3, <1>4, <1>5

LEMMA SingleAllowed ==
  ASSUME Generated, NEW m \in Boundaries
  PROVE  {m} \in Positions /\ LastOf({m}) = m /\ {m} \in ValidSets /\ {m} \in Proper /\ Valid({m})
<1>1. PICK n \in Nat, k \in Nat : n = NumHashBoundaries /\ k = Len(query.g) /\ n = 2 * k
  <2>1. Len(query.g) \in Nat /\ Len(query.x) = 2 * Len(query.g)
    BY QueriesAssumption DEF Generated
  <2> QED
    BY <2>1, DistancesAscend
<1>2. m \in 0 .. n - 1
  BY <1>1 DEF Boundaries
<1>3. n - 1 - m # m
  BY <1>1, <1>2
<1>4. {m} \in Positions /\ LastOf({m}) = m
  BY <1>2, GreatestIsLast
<1>5. {m} \in ValidSets
  <2>1. {m} \in SUBSET (0 .. n - 1) /\ {m} # {} /\ \A j \in {m} : n - 1 - j \notin {m}
    BY <1>2, <1>3
  <2> QED
    BY <1>1, <2>1 DEF ValidSets
<1> QED
  BY <1>4, <1>5, ValidAllowed DEF Proper

LEMMA UptoLast ==
  ASSUME NEW b \in SUBSET Nat, NEW m \in Nat
  PROVE  Upto(b, m) \in Positions /\ LastOf(Upto(b, m)) = m
<1>1. \A j \in {j \in b : j < m} \cup {m} : j \in Nat /\ j <= m
  <2> SUFFICES ASSUME NEW j \in {i \in b : i < m} \cup {m} PROVE j \in Nat /\ j <= m
    OBVIOUS
  <2>1. j \in Nat /\ (j < m \/ j = m)
    OBVIOUS
  <2> QED
    BY <2>1
<1>2. Upto(b, m) \in SUBSET Nat /\ m \in Upto(b, m) /\ \A j \in Upto(b, m) : j <= m
  BY <1>1 DEF Upto
<1> QED
  BY <1>2, GreatestIsLast

(* The next set on the way to b.                                            *)
LEMMA UptoNext ==
  ASSUME NEW b \in Positions, NEW m \in Nat, m < LastOf(b)
  PROVE  Upto(b, m + 1) \in {Shift(Upto(b, m)), Expand(Upto(b, m))}
<1>1. b \in SUBSET Nat
  BY DEF Positions
<1>3. LastOf(Upto(b, m)) = m
  BY <1>1, UptoLast
<1>4. {j \in b : j < m + 1} = {j \in b : j < m} \cup (b \cap {m})
  <2>1. \A j \in b : j < m + 1 <=> (j < m \/ j = m)
    BY <1>1
  <2> QED
    BY <2>1
<1>5. m \notin {j \in b : j < m}
  OBVIOUS
<1>6. CASE m \in b
  <2>1. Upto(b, m + 1) = Upto(b, m) \cup {m + 1}
    BY <1>4, <1>6 DEF Upto
  <2> QED
    BY <1>3, <2>1 DEF Expand
<1>7. CASE m \notin b
  <2>1. Upto(b, m + 1) = (Upto(b, m) \ {m}) \cup {m + 1}
    BY <1>4, <1>5, <1>7 DEF Upto
  <2> QED
    BY <1>3, <2>1 DEF Shift
<1> QED
  BY <1>6, <1>7

LEMMA UptoEnds ==
  ASSUME NEW b \in Positions
  PROVE  /\ Upto(b, LastOf(b)) = b
         /\ Upto(b, 0) = {0}
         /\ \A m \in Nat : Upto(b, m) \in Positions /\ LastOf(Upto(b, m)) = m
<1>1. b \in SUBSET Nat /\ LastOf(b) \in b /\ \A j \in b : j <= LastOf(b)
  BY LastIsGreatest DEF Positions
<1>2. Upto(b, LastOf(b)) = b
  <2>1. PICK l \in Nat : l = LastOf(b)
    BY <1>1
  <2>2. \A j \in b : j < l \/ j = l
    BY <1>1, <2>1
  <2> QED
    BY <1>1, <2>1, <2>2 DEF Upto
<1>3. Upto(b, 0) = {0}
  <2>1. \A j \in b : ~ (j < 0)
    BY <1>1
  <2> QED
    BY <2>1 DEF Upto
<1>4. \A m \in Nat : Upto(b, m) \in Positions /\ LastOf(Upto(b, m)) = m
  BY <1>1, UptoLast
<1> QED
  BY <1>2, <1>3, <1>4

(* What is in the heap and scores best is no worse than any set not taken.  *)
LEMMA BestIsNext ==
  ASSUME SearchInv, Generated, ScoresRight, \A b \in Proper : Reached(b), NEW e \in Tops(minHeap),
         e.perturbs \subseteq Boundaries, NEW b \in Proper, \A f \in taken : f.perturbs # b
  PROVE  e.score <= KnownScore(b)
<1>1. PICK f \in minHeap, m \in 0 .. LastOf(b) : f.perturbs = Upto(b, m)
  <2>1. Reached(b)
    OBVIOUS
  <2> QED
    BY ONLY <2>1, \A f \in taken : f.perturbs # b DEF Reached
<1>2. b \in Positions /\ b \in SUBSET Boundaries
  BY DEF Proper
<1>3. Upto(b, m) \in SUBSET Boundaries /\ KnownScore(Upto(b, m)) <= KnownScore(b)
  BY <1>2, UptoScore
<1>4. f.score = KnownScore(Upto(b, m))
  BY <1>1, <1>3 DEF ScoresRight, Seen
<1>5. e.score <= f.score
  BY DEF Tops
<1>6. e.score = KnownScore(e.perturbs)
  BY DEF ScoresRight, Seen, Tops
<1>7. e.score \in Nat /\ f.score \in Nat /\ KnownScore(b) \in Nat
  BY <1>2, <1>3, <1>4, <1>6, ScoreIsSum
<1> QED
  BY <1>3, <1>4, <1>5, <1>7

(* A set of naturals below a bound has a last one.                          *)
LEMMA BoundedPositions ==
  ASSUME NEW n \in Nat, NEW a \in SUBSET (0 .. n - 1), a # {}
  PROVE  a \in Positions
<1> DEFINE T == {k \in Nat : n - 1 - k \in a}
<1>1. T # {} /\ T \in SUBSET Nat
  <2>1. PICK j \in a : j \in 0 .. n - 1
    OBVIOUS
  <2>2. n - 1 - j \in Nat /\ n - 1 - (n - 1 - j) = j
    BY <2>1
  <2>3. n - 1 - j \in T
    BY <2>1, <2>2
  <2> QED
    BY <2>3
<1>2. PICK k \in T : \A i \in T : k <= i
  BY <1>1, LeastNatural
<1>3. n - 1 - k \in a /\ \A j \in a : n - 1 - k >= j
  <2> SUFFICES ASSUME NEW j \in a PROVE n - 1 - k >= j
    BY <1>2
  <2>1. j \in 0 .. n - 1 /\ n - 1 - j \in Nat /\ n - 1 - (n - 1 - j) = j
    OBVIOUS
  <2>2. n - 1 - j \in T
    BY <2>1
  <2>3. k <= n - 1 - j /\ k \in Nat
    BY <1>2, <2>2
  <2> QED
    BY <2>1, <2>3
<1>4. a \in SUBSET Nat
  OBVIOUS
<1> QED
  BY <1>3, <1>4 DEF Positions

(* One turn of the loop.                                                    *)
LEMMA ExtractInOrder ==
  ASSUME SearchInv, Extract
  PROVE  SearchInv'
<1>0. /\ Generated /\ IsFiniteSet(taken) /\ outSets = Found /\ Cardinality(outSets) < goal
      /\ goal <= 1 => taken = {}
      /\ goal <= 1 \/ Positive
      /\ ScoresRight /\ SinglesFirst /\ (\A b \in Proper : Reached(b))
      /\ NoneBehind /\ InOrder /\ IInv
      /\ goal \in Nat /\ goal > 0
  <2>1. Generated
    BY DEF SearchInv, Extract, Fresh
  <2>2. outSets = Found /\ Cardinality(outSets) < goal /\ (goal <= 1 => taken = {}) /\ IsFiniteSet(taken)
    BY DEF SearchInv, Extract, Fresh, Searching
  <2>3. Cardinality(outSets) \in Nat /\ goal \in Nat
    <3>1. outSets \in SUBSET taken
      BY <2>2 DEF Found
    <3> QED
      BY <2>1, <2>2, <3>1, FS_Subset, FS_CardinalityType, DistancesAscend
  <2>4. goal > 0
    BY <2>2, <2>3
  <2> QED
    BY <2>1, <2>2, <2>3, <2>4 DEF SearchInv, Extract, Fresh
<1>1. PICK e \in Tops(minHeap) :
        /\ \E s \in Scores(Shift(e.perturbs)), t \in Scores(Expand(e.perturbs)) :
             minHeap' = (minHeap \ {e}) \cup {Element(Shift(e.perturbs), s, NextNr),
                                             Element(Expand(e.perturbs), t, NextNr + 1)}
        /\ taken' = taken \cup {e}
        /\ outSets' = IF Valid(e.perturbs) THEN outSets \cup {e} ELSE outSets
        /\ pc' = IF Cardinality(outSets') = goal THEN "probe" ELSE "search"
  BY DEF Extract
<1>2. PICK s \in Scores(Shift(e.perturbs)), t \in Scores(Expand(e.perturbs)) :
        minHeap' = (minHeap \ {e}) \cup {Element(Shift(e.perturbs), s, NextNr),
                                        Element(Expand(e.perturbs), t, NextNr + 1)}
  BY <1>1
<1> DEFINE p == e.perturbs
           up == Element(Shift(p), s, NextNr)
           more == Element(Expand(p), t, NextNr + 1)
<1>3. /\ e \in minHeap /\ e \in Seen /\ p \in Positions
      /\ minHeap' = (minHeap \ {e}) \cup {up, more} /\ Seen' = Seen \cup {up, more}
      /\ taken' = taken \cup {e}
  BY <1>0, <1>1, <1>2 DEF Tops, IInv, Seen
<1>4. /\ up.perturbs = Shift(p) /\ up.score = s /\ more.perturbs = Expand(p) /\ more.score = t
      /\ Shift(p) \in Positions /\ Expand(p) \in Positions
  BY <1>3, ShiftLast, ExpandLast DEF Element
<1>5. UNCHANGED <<query, distFuns, goal>>
  BY DEF Extract
<1>6. /\ Generated' /\ Boundaries' = Boundaries /\ Proper' = Proper /\ ValidSets' = ValidSets
      /\ Positive' = Positive /\ NumHashBoundaries' = NumHashBoundaries
  BY <1>0, <1>5 DEF Generated, Boundaries, Proper, ValidSets, Positive, NumHashBoundaries
<1>7. \A a : KnownScore(a)' = KnownScore(a) /\ (Valid(a)' <=> Valid(a))
  <2>1. ASSUME NEW a PROVE KnownScore(a)' = KnownScore(a)
    BY ONLY <1>5 DEF KnownScore, Known, NumHashBoundaries, MapThenSumSet, MapThenFoldSet
  <2>2. ASSUME NEW a PROVE Valid(a)' <=> Valid(a)
    BY <1>5 DEF Valid, NumHashBoundaries
  <2> QED
    BY <2>1, <2>2
<1>8. Found' = IF Valid(p) THEN Found \cup {e} ELSE Found
  <2>1. Found' = {f \in taken \cup {e} : Valid(f.perturbs)}
    BY <1>3, <1>7 DEF Found
  <2> QED
    BY <2>1 DEF Found
<1> HIDE DEF up, more
<1>9. IInv' /\ pc' \in {"search", "probe"} /\ IsFiniteSet(taken') /\ outSets' = Found'
  <2>1. IInv'
    BY <1>0, ExtractKeeps
  <2>2. outSets' = Found'
    BY <1>0, <1>1, <1>8
  <2>3. pc' \in {"search", "probe"} /\ IsFiniteSet(taken')
    BY <1>0, <1>1, <1>3, FS_AddElement
  <2> QED
    BY <2>1, <2>2, <2>3
<1>10. ScoresRight'
  <2> SUFFICES ASSUME NEW f \in Seen', f.perturbs \subseteq Boundaries
               PROVE  f.score = KnownScore(f.perturbs)
    BY <1>6, <1>7 DEF ScoresRight
  <2>1. CASE f \in Seen
    BY <1>0, <2>1 DEF ScoresRight
  <2>2. \A a \in SUBSET Boundaries : Scores(a) = {KnownScore(a)}
    BY <1>0, ScoreIsSum DEF Scores
  <2>3. CASE f \in {up, more}
    BY <1>2, <1>4, <2>2, <2>3
  <2> QED
    BY <1>3, <2>1, <2>3
<1>11. ASSUME NEW b \in Proper PROVE Reached(b)'
  <2>1. b \in Positions
    BY DEF Proper
  <2>2. LastOf(b) \in Nat
    BY <2>1, LastIsGreatest
  <2>3. Reached(b)
    BY <1>0
  <2>4. ASSUME NEW f \in taken, f.perturbs = b PROVE Reached(b)'
    BY <1>3, <2>4 DEF Reached
  <2>5. ASSUME NEW f \in minHeap, NEW m \in 0 .. LastOf(b), f.perturbs = Upto(b, m) PROVE Reached(b)'
    <3>1. CASE f # e
      <4>1. f \in minHeap'
        BY <1>3, <3>1
      <4> QED
        BY <2>5, <4>1 DEF Reached
    <3>2. CASE f = e /\ m = LastOf(b)
      <4>1. e.perturbs = b /\ e \in taken'
        BY <1>3, <2>1, <2>5, <3>2, UptoEnds
      <4> QED
        BY <4>1 DEF Reached
    <3>3. CASE f = e /\ m # LastOf(b)
      <4>1. m \in Nat /\ m < LastOf(b) /\ m + 1 \in 0 .. LastOf(b)
        BY <2>2, <3>3
      <4>2. Upto(b, m + 1) \in {Shift(p), Expand(p)}
        BY <2>1, <2>5, <3>3, <4>1, UptoNext
      <4>3. PICK g \in minHeap' : g.perturbs = Upto(b, m + 1)
        BY <1>3, <1>4, <4>2
      <4> QED
        BY <4>1, <4>3 DEF Reached
    <3> QED
      BY <3>1, <3>2, <3>3
  <2> QED
    BY <2>3, <2>4, <2>5 DEF Reached
<1>12. SinglesFirst'
  <2> SUFFICES ASSUME Positive, NEW f \in taken', NEW m \in Boundaries, m <= LastOf(f.perturbs)
               PROVE  \E h \in taken' : h.perturbs = {m}
    BY <1>6 DEF SinglesFirst
  <2>1. CASE f \in taken
    BY <1>0, <1>3, <2>1 DEF SinglesFirst
  <2>2. CASE f = e
    <3>1. PICK l \in Nat : l = LastOf(p) /\ m <= l /\ l \in p /\ \A j \in p : j \in Nat /\ j <= l
      BY <1>3, <2>2, LastIsGreatest
    <3>2. m \in Nat
      BY <1>0, DistancesAscend DEF Boundaries
    <3>3. CASE p = {0}
      <4>1. l = 0 /\ m = 0
        BY <3>1, <3>2, <3>3
      <4> QED
        BY <1>3, <3>3, <4>1
    <3>4. CASE p # {0} /\ m < l
      <4>1. PICK g \in taken : p \in {Shift(g.perturbs), Expand(g.perturbs)}
        BY <1>0, <1>3, <3>4 DEF IInv, Traced
      <4>2. g.perturbs \in Positions
        BY <1>0 DEF IInv, Seen
      <4>3. l = LastOf(g.perturbs) + 1 /\ LastOf(g.perturbs) \in Nat
        BY <3>1, <4>1, <4>2, ShiftLast, ExpandLast, LastIsGreatest
      <4>4. m <= LastOf(g.perturbs)
        BY <3>2, <3>4, <4>3
      <4> QED
        BY <1>0, <1>3, <4>4 DEF SinglesFirst
    <3>5. CASE m = l
      <4> SUFFICES ASSUME \A h \in taken' : h.perturbs # {m} PROVE FALSE
        OBVIOUS
      <4>1. p # {m} /\ \A h \in taken : h.perturbs # {m}
        BY <1>3
      <4>2. p \in SUBSET Boundaries
        <5>1. PICK n \in Nat : n = NumHashBoundaries /\ m \in 0 .. n - 1
          BY <1>0, DistancesAscend DEF Boundaries
        <5>2. \A j \in p : j \in 0 .. n - 1
          BY <3>1, <3>5, <5>1
        <5> QED
          BY <5>1, <5>2 DEF Boundaries
      <4>3. {m} \in Proper /\ {m} \in SUBSET Boundaries
        BY <1>0, SingleAllowed
      <4>4. e.score <= KnownScore({m})
        BY <1>0, <4>1, <4>2, <4>3, BestIsNext
      <4>5. e.score = KnownScore(p)
        BY <1>0, <1>3, <4>2 DEF ScoresRight
      <4>6. KnownScore({m}) < KnownScore(p)
        BY <1>0, <3>1, <3>5, <4>1, <4>2, SingleScoresLess
      <4>7. KnownScore(p) \in Nat /\ KnownScore({m}) \in Nat
        BY <1>0, <4>2, <4>3, ScoreIsSum
      <4> HIDE DEF p
      <4> QED
        BY <4>4, <4>5, <4>6, <4>7
    <3> QED
      BY <3>1, <3>2, <3>3, <3>4, <3>5
  <2> QED
    BY <1>3, <2>1, <2>2
<1>13. ASSUME Valid(p) PROVE NumHashBoundaries \notin p /\ p \in ValidSets /\ p \in Proper
  <2> SUFFICES ASSUME NumHashBoundaries \in p PROVE FALSE
    BY <1>0, <1>3, <1>13, ValidAllowed
  <2>1. PICK n \in Nat : n = NumHashBoundaries /\ n >= 2 /\ goal <= n
    BY <1>0, DistancesAscend
  <2>2. LastOf(p) = n
    <3>1. LastOf(p) <= n
      BY <1>0, <1>3, <1>13, <2>1, ValidAllowed
    <3>2. n <= LastOf(p) /\ LastOf(p) \in Nat
      BY <1>3, <2>1, LastIsGreatest
    <3> QED
      BY <2>1, <3>1, <3>2
  <2>3. p # {0}
    BY <2>1, <2>2, First
  <2>4. PICK g \in taken : p \in {Shift(g.perturbs), Expand(g.perturbs)}
    BY <1>0, <1>3, <2>3 DEF IInv, Traced
  <2>5. g.perturbs \in Positions
    BY <1>0 DEF IInv, Seen
  <2>6. LastOf(g.perturbs) = n - 1
    <3>1. n = LastOf(g.perturbs) + 1 /\ LastOf(g.perturbs) \in Nat
      BY <2>2, <2>4, <2>5, ShiftLast, ExpandLast, LastIsGreatest
    <3> QED
      BY <3>1
  <2>7. Positive
    BY <1>0, <2>4
  <2>8. \A m \in 0 .. n - 1 : \E f \in Found : f.perturbs = {m}
    <3> SUFFICES ASSUME NEW m \in 0 .. n - 1 PROVE \E f \in Found : f.perturbs = {m}
      OBVIOUS
    <3>1. m \in Boundaries /\ m <= n - 1
      BY <2>1 DEF Boundaries
    <3>2. PICK f \in taken : f.perturbs = {m}
      BY <1>0, <2>6, <2>7, <3>1 DEF SinglesFirst
    <3>3. Valid({m})
      BY <1>0, <3>1, SingleAllowed
    <3> QED
      BY <3>2, <3>3 DEF Found
  <2> DEFINE F == [m \in 0 .. n - 1 |-> CHOOSE f \in Found : f.perturbs = {m}]
  <2>9. \A m \in 0 .. n - 1 : F[m] \in Found /\ F[m].perturbs = {m}
    BY <2>8
  <2>10. F \in [0 .. n - 1 -> Found]
    BY <2>9
  <2> HIDE DEF F
  <2>11. F \in Injection(0 .. n - 1, Found)
    <3>1. \A i, j \in 0 .. n - 1 : F[i] = F[j] => i = j
      <4> SUFFICES ASSUME NEW i \in 0 .. n - 1, NEW j \in 0 .. n - 1, F[i] = F[j] PROVE i = j
        OBVIOUS
      <4>1. {i} = {j}
        BY <2>9
      <4> QED
        BY <4>1
    <3> QED
      BY <2>10, <3>1 DEF Injection, IsInjective
  <2>12. IsFiniteSet(Found) /\ Cardinality(Found) \in Nat
    <3>1. Found \in SUBSET taken
      BY DEF Found
    <3> QED
      BY <1>0, <3>1, FS_Subset, FS_CardinalityType
  <2>13. n <= Cardinality(Found)
    BY <2>11, <2>12, CountFromZero, FS_Injection
  <2> QED
    BY <1>0, <2>1, <2>12, <2>13
<1>14. NoneBehind'
  BY <1>0, <1>6, <1>8, <1>13 DEF NoneBehind
<1>15. InOrder'
  <2> SUFFICES ASSUME NEW f \in Found', NEW a \in ValidSets, KnownScore(a) < f.score
               PROVE  \E h \in Found' : h.perturbs = a
    BY <1>6, <1>7 DEF InOrder
  <2>1. CASE f \in Found
    BY <1>0, <1>8, <2>1 DEF InOrder
  <2>2. CASE f = e /\ Valid(p)
    <3>1. a \in Positions
      <4>1. PICK n \in Nat : n = NumHashBoundaries
        BY <1>0, DistancesAscend
      <4>2. a \in SUBSET (0 .. n - 1) /\ a # {}
        BY <4>1 DEF ValidSets
      <4> QED
        BY <4>1, <4>2, BoundedPositions
    <3>2. Valid(a) /\ a \in Proper
      BY <1>0, <3>1, ValidAllowed
    <3>3. p \in SUBSET Boundaries /\ a \in SUBSET Boundaries
      BY <1>13, <2>2, <3>2 DEF Proper
    <3>4. ASSUME \A g \in taken : g.perturbs # a PROVE FALSE
      <4>1. e.score <= KnownScore(a)
        BY <1>0, <3>2, <3>3, <3>4, BestIsNext
      <4>2. e.score = KnownScore(p)
        BY <1>0, <1>3, <3>3 DEF ScoresRight
      <4>3. KnownScore(p) \in Nat /\ KnownScore(a) \in Nat
        BY <1>0, <3>3, ScoreIsSum
      <4> HIDE DEF p
      <4> QED
        BY <2>2, <4>1, <4>2, <4>3
    <3>5. PICK g \in taken : g.perturbs = a
      BY <3>4
    <3>6. g \in Found
      BY <3>2, <3>5 DEF Found
    <3> QED
      BY <1>8, <3>5, <3>6
  <2> QED
    BY <1>8, <2>1, <2>2
<1>16. Searching'
  <2> SUFFICES ASSUME pc' = "search"
               PROVE  /\ outSets' = Found' /\ Cardinality(outSets') < goal
                      /\ goal <= 1 => taken' = {}
    BY <1>5 DEF Searching
  <2>1. Cardinality(outSets') # goal
    BY <1>1
  <2>2. IsFiniteSet(outSets) /\ Cardinality(outSets) \in Nat
    <3>1. outSets \in SUBSET taken
      BY <1>0 DEF Found
    <3> QED
      BY <1>0, <3>1, FS_Subset, FS_CardinalityType
  <2>3. Cardinality(outSets') <= Cardinality(outSets) + 1 /\ Cardinality(outSets') \in Nat
    <3>1. outSets' = outSets \/ outSets' = outSets \cup {e}
      BY <1>1
    <3>2. Cardinality(outSets \cup {e}) <= Cardinality(outSets) + 1 /\ Cardinality(outSets \cup {e}) \in Nat
      <4>1. PICK n \in Nat : n = Cardinality(outSets)
        BY <2>2
      <4>2. Cardinality(outSets \cup {e}) \in {n, n + 1}
        BY <2>2, <4>1, FS_AddElement
      <4> QED
        BY <4>1, <4>2
    <3>3. PICK o : o = outSets'
      OBVIOUS
    <3>4. o = outSets \/ o = outSets \cup {e}
      BY <3>1, <3>3
    <3>5. Cardinality(o) <= Cardinality(outSets) + 1 /\ Cardinality(o) \in Nat
      BY ONLY <2>2, <3>2, <3>4
    <3> QED
      BY <3>3, <3>5
  <2>4. Cardinality(outSets') < goal
    BY <1>0, <2>1, <2>2, <2>3
  <2>5. ASSUME goal <= 1 PROVE FALSE
    <3>1. p = {0}
      BY <1>0, <1>3, <2>5 DEF IInv, Traced
    <3>2. 0 \in Boundaries
      <4>1. PICK n \in Nat : n = NumHashBoundaries /\ n >= 2
        BY <1>0, DistancesAscend
      <4> QED
        BY <4>1 DEF Boundaries
    <3>3. Valid(p)
      BY <1>0, <3>1, <3>2, SingleAllowed
    <3>4. outSets' = outSets \cup {e}
      BY <1>1, <3>3
    <3>5. outSets' # {} /\ IsFiniteSet(outSets')
      BY <2>2, <3>4, FS_AddElement
    <3>6. Cardinality(outSets') # 0
      BY <3>5, FS_EmptySet
    <3> QED
      BY <1>0, <2>3, <2>4, <2>5, <3>6
  <2> QED
    BY <1>9, <2>4, <2>5
<1>17. outSets' \subseteq Found' /\ (goal' <= 1 \/ Positive') /\ \A b \in Proper' : Reached(b)'
  BY <1>0, <1>5, <1>6, <1>9, <1>11
<1> HIDE DEF p
<1> QED
  BY <1>6, <1>9, <1>10, <1>12, <1>14, <1>15, <1>16, <1>17 DEF SearchInv

(* A sum of one term.                                                       *)
LEMMA SumOfOne ==
  ASSUME NEW d, NEW c, d[c + 1].dist \in Nat
  PROVE  MapThenSumSet(LAMBDA j : d[j + 1].dist * d[j + 1].dist, {c}) = d[c + 1].dist * d[c + 1].dist
<1> DEFINE Body(g) == [s \in SUBSET {c} |-> IF s = {} THEN 0
                         ELSE d[(CHOOSE x \in s : TRUE) + 1].dist * d[(CHOOSE x \in s : TRUE) + 1].dist
                                + g[s \ {CHOOSE x \in s : TRUE}]]
           iter == CHOOSE g : g = Body(g)
           v == d[c + 1].dist * d[c + 1].dist
           g0 == [s \in SUBSET {c} |-> IF s = {} THEN 0 ELSE v]
<1>1. v \in Nat
  <2>1. PICK k \in Nat : k = d[c + 1].dist
    OBVIOUS
  <2> QED
    BY <2>1
<1>2. \A s \in SUBSET {c} : s = {} \/ s = {c}
  OBVIOUS
<1>3. (CHOOSE x \in {c} : TRUE) = c /\ {c} \ {c} = {}
  OBVIOUS
<1>4. \A g : Body(g)[{}] = 0 /\ Body(g)[{c}] = v + g[{}]
  BY <1>3
<1>5. g0 = Body(g0)
  <2>1. Body(g0)[{}] = 0 /\ Body(g0)[{c}] = v + g0[{}]
    BY <1>4
  <2>2. g0[{}] = 0 /\ g0[{c}] = v
    OBVIOUS
  <2> HIDE DEF v
  <2>3. Body(g0)[{c}] = v
    BY <1>1, <2>1, <2>2
  <2>4. \A s \in SUBSET {c} : g0[s] = Body(g0)[s]
    BY <1>2, <2>1, <2>2, <2>3
  <2>5. g0 = [s \in SUBSET {c} |-> g0[s]] /\ Body(g0) = [s \in SUBSET {c} |-> Body(g0)[s]]
    OBVIOUS
  <2> HIDE DEF g0, Body
  <2> QED
    BY <2>4, <2>5
<1>6. iter = Body(iter)
  BY <1>5
<1>7. MapThenSumSet(LAMBDA j : d[j + 1].dist * d[j + 1].dist, {c}) = iter[{c}]
  BY DEF MapThenSumSet, MapThenFoldSet
<1>8. PICK h : h = iter /\ h = Body(h)
  BY <1>6
<1> HIDE DEF iter
<1>9. h[{}] = 0 /\ h[{c}] = v + h[{}]
  <2>1. Body(h)[{}] = 0 /\ Body(h)[{c}] = v + h[{}]
    BY <1>4
  <2> HIDE DEF Body
  <2> QED
    BY <1>8, <2>1
<1> HIDE DEF v, Body
<1>10. h[{c}] = v
  BY <1>1, <1>9
<1> QED
  BY <1>7, <1>8, <1>10 DEF v

(* A search begins.                                                         *)
LEMMA GenerateInOrder ==
  ASSUME IInv', Generate, \A q \in Queries : q.T <= 1 \/ \A i \in DOMAIN q.x : q.x[i] > 0
  PROVE  SearchInv'
<1>1. /\ query' \in Queries /\ distFuns' = SortedDistFuns(query'.x) /\ goal' = Min({query'.T, Len(query'.x)})
      /\ minHeap' = {Element({0}, distFuns'[1].dist * distFuns'[1].dist, 1)}
      /\ outSets' = {} /\ taken' = {}
      /\ pc' = IF goal' = 0 THEN "probe" ELSE "search"
  BY DEF Generate
<1>2. /\ query'.x \in Seq(Nat) /\ query'.T \in Nat /\ Len(query'.g) > 0 /\ Len(query'.g) \in Nat
      /\ Len(query'.x) = 2 * Len(query'.g)
      /\ query'.T <= 1 \/ \A i \in DOMAIN query'.x : query'.x[i] > 0
  BY <1>1, QueriesAssumption
<1>3. PICK x \in Seq(Nat), n \in Nat, T \in Nat, d \in {distFuns'} :
        /\ x = query'.x /\ n = Len(x) /\ n >= 2 /\ T = query'.T
        /\ T <= 1 \/ \A i \in 1 .. n : x[i] > 0
  <2>1. DOMAIN query'.x = 1 .. Len(query'.x) /\ Len(query'.x) \in Nat
    BY <1>2
  <2>2. Len(query'.x) >= 2
    <3>1. PICK k \in Nat, m \in Nat : k = Len(query'.g) /\ m = Len(query'.x)
      BY <1>2, <2>1
    <3> QED
      BY <1>2, <3>1
  <2> QED
    BY <1>2, <2>1, <2>2
<1>4. d = SortedDistFuns(x) /\ d \in [1 .. n -> Entries(x)] /\ Len(d) = n
  <2>1. d = SortedDistFuns(x)
    BY <1>1, <1>3
  <2>2. d \in [1 .. n -> Entries(x)]
    BY <1>3, <2>1, SortedIs
  <2>3. d \in Seq(Entries(x)) /\ DOMAIN d = 1 .. n
    BY <2>2
  <2> QED
    BY <2>1, <2>2, <2>3
<1>5. goal' \in Nat /\ goal' <= T
  <2>1. goal' = CHOOSE m \in {T, n} : \A y \in {T, n} : m <= y
    BY <1>1, <1>3 DEF Min
  <2>2. \E m \in {T, n} : \A y \in {T, n} : m <= y
    BY <1>3
  <2>3. goal' \in {T, n} /\ \A y \in {T, n} : goal' <= y
    BY <2>1, <2>2
  <2> QED
    BY <1>3, <2>3
<1>6. \A i \in 1 .. n : \E j \in 1 .. n : d[i].dist = x[j]
  <2> SUFFICES ASSUME NEW i \in 1 .. n PROVE \E j \in 1 .. n : d[i].dist = x[j]
    OBVIOUS
  <2>1. PICK k \in 0 .. n - 1 : d[i] = DistFun(x, k)
    BY <1>3, <1>4 DEF Entries
  <2>2. k + 1 \in 1 .. n /\ d[i].dist = x[k + 1]
    BY <2>1 DEF DistFun
  <2> QED
    BY <2>2
<1>7. NumHashBoundaries' = n /\ Boundaries' = 0 .. n - 1
  BY <1>3, <1>4 DEF NumHashBoundaries, Boundaries
<1>8. goal' <= 1 \/ Positive'
  <2>1. CASE T <= 1
    BY <1>5, <2>1
  <2>2. CASE \A i \in 1 .. n : x[i] > 0
    <3>1. \A i \in 1 .. n : d[i].dist > 0
      BY <1>6, <2>2
    <3> QED
      BY <1>3, <1>7, <3>1 DEF Positive
  <2> QED
    BY <1>3, <2>1, <2>2
<1>9. Seen' = {Element({0}, distFuns'[1].dist * distFuns'[1].dist, 1)} /\ Found' = {}
  BY <1>1 DEF Seen, Found
<1>10. ScoresRight'
  <2>1. Known({0})' = {0}
    BY <1>3, <1>7 DEF Known
  <2>2. d[0 + 1].dist \in Nat
    <3>1. 1 \in 1 .. n /\ 0 + 1 = 1
      BY <1>3
    <3>2. PICK j \in 1 .. n : d[1].dist = x[j]
      BY <1>6, <3>1
    <3>3. x[j] \in Nat
      BY <1>3
    <3> QED
      BY <3>1, <3>2, <3>3
  <2>3. MapThenSumSet(LAMBDA j : d[j + 1].dist * d[j + 1].dist, {0}) = d[0 + 1].dist * d[0 + 1].dist
    BY <2>2, SumOfOne
  <2>4. KnownScore({0})' = MapThenSumSet(LAMBDA j : distFuns'[j + 1].dist * distFuns'[j + 1].dist, {0})
    BY <2>1 DEF KnownScore, MapThenSumSet, MapThenFoldSet
  <2>5. KnownScore({0})' = MapThenSumSet(LAMBDA j : d[j + 1].dist * d[j + 1].dist, {0})
    BY <1>3, <2>4 DEF MapThenSumSet, MapThenFoldSet
  <2>6. KnownScore({0})' = distFuns'[1].dist * distFuns'[1].dist
    <3>1. 0 + 1 = 1
      OBVIOUS
    <3> QED
      BY <1>3, <2>3, <2>5, <3>1
  <2>7. ASSUME NEW e \in Seen' PROVE e.perturbs = {0} /\ e.score = distFuns'[1].dist * distFuns'[1].dist
    BY <1>9 DEF Element
  <2>8. ASSUME NEW e \in Seen' PROVE e.score = KnownScore(e.perturbs)'
    <3>1. KnownScore(e.perturbs)' = KnownScore({0})'
      BY <2>7
    <3> QED
      BY <2>6, <2>7, <3>1
  <2> QED
    BY <2>8 DEF ScoresRight
<1>11. ASSUME NEW b \in Proper' PROVE Reached(b)'
  <2>1. b \in Positions
    BY DEF Proper
  <2>2. Upto(b, 0) = {0} /\ 0 \in 0 .. LastOf(b)
    BY <2>1, UptoEnds, LastIsGreatest
  <2>3. PICK f \in minHeap' : f.perturbs = {0}
    BY <1>1 DEF Element
  <2> QED
    BY <2>2, <2>3 DEF Reached
<1>12. SinglesFirst' /\ NoneBehind' /\ InOrder'
  BY <1>1, <1>9 DEF SinglesFirst, NoneBehind, InOrder
<1>13. Searching'
  <2>1. Cardinality(outSets') = 0
    BY <1>1, FS_EmptySet
  <2> QED
    BY <1>1, <1>5, <1>9, <2>1 DEF Searching
<1>14. Generated' /\ IsFiniteSet(taken') /\ outSets' \subseteq Found' /\ pc' \in {"search", "probe"}
  BY <1>1, FS_EmptySet DEF Generated
<1> QED
  BY <1>8, <1>10, <1>11, <1>12, <1>13, <1>14 DEF SearchInv

(* The invariant is kept when nothing is searched.                          *)
LEMMA ProbingInOrder ==
  ASSUME SearchInv, IInv', UNCHANGED <<query, distFuns, goal, minHeap, taken>>,
         outSets' \subseteq outSets, pc' \in {"idle", "search", "probe"},
         pc' = "search" => pc = "search" /\ outSets' = outSets,
         Fresh => Fresh'
  PROVE  SearchInv'
<1>1. CASE Fresh
  BY <1>1 DEF SearchInv
<1>2. CASE ~ Fresh
  <2>1. /\ Generated /\ IsFiniteSet(taken) /\ outSets \subseteq Found /\ Searching
        /\ goal <= 1 \/ Positive
        /\ ScoresRight /\ SinglesFirst /\ (\A b \in Proper : Reached(b))
        /\ NoneBehind /\ InOrder
    BY <1>2 DEF SearchInv
  <2>2. /\ Generated' /\ Boundaries' = Boundaries /\ Proper' = Proper /\ ValidSets' = ValidSets
        /\ Positive' = Positive /\ NumHashBoundaries' = NumHashBoundaries /\ Seen' = Seen
    BY <2>1 DEF Generated, Boundaries, Proper, ValidSets, Positive, NumHashBoundaries, Seen
  <2>3. distFuns' = distFuns
    OBVIOUS
  <2>4. ASSUME NEW a PROVE KnownScore(a)' = KnownScore(a)
    BY ONLY <2>3 DEF KnownScore, Known, NumHashBoundaries, MapThenSumSet, MapThenFoldSet
  <2>5. Found' = Found
    <3>1. ASSUME NEW a PROVE Valid(a)' <=> Valid(a)
      BY <2>2 DEF Valid
    <3> QED
      BY <3>1 DEF Found
  <2>6. Searching'
    BY <2>1, <2>5 DEF Searching
  <2>7. ScoresRight' /\ SinglesFirst'
    BY <2>1, <2>2, <2>4 DEF ScoresRight, SinglesFirst
  <2>8. \A b \in Proper : Reached(b)' <=> Reached(b)
    BY DEF Reached
  <2>9. NoneBehind' /\ InOrder'
    BY <2>1, <2>2, <2>4, <2>5 DEF NoneBehind, InOrder
  <2> QED
    BY <2>1, <2>2, <2>5, <2>6, <2>7, <2>8, <2>9 DEF SearchInv
<1> QED
  BY <1>1, <1>2

(* Whatever the query, the best sets are found first (multiprobe.cpp:111-   *)
(* 136), for distances above 0 as in the paper, or when no more than one    *)
(* set is asked for, as with the distances of 0 that the code computes      *)
(* (lshlib.cpp:332-337): with more sets and distances of 0, one with the    *)
(* position behind distFuns can be among them.                              *)
THEOREM FoundInOrder ==
  ASSUME \A q \in Queries : q.T <= 1 \/ \A i \in DOMAIN q.x : q.x[i] > 0
  PROVE  Spec => []BestFirst
<1>1. Init => SearchInv
  BY DEF Init, SearchInv, Fresh, IInv, Seen, Traced, EachSetOnce
<1>2. SearchInv /\ [Next]_vars => SearchInv'
  <2> SUFFICES ASSUME SearchInv, [Next]_vars PROVE SearchInv'
    OBVIOUS
  <2>1. IInv'
    BY TraceKept DEF SearchInv
  <2>2. CASE Generate
    BY <2>1, <2>2, GenerateInOrder
  <2>3. CASE Extract
    BY <2>3, ExtractInOrder
  <2>4. CASE ProbeHome \/ ProbeNext
    BY <2>1, <2>4, ProbingInOrder DEF ProbeHome, ProbeNext, Fresh
  <2>5. CASE ProbesDone
    BY <2>1, <2>5, ProbingInOrder DEF ProbesDone, Fresh
  <2>6. CASE UNCHANGED vars
    BY <2>1, <2>6, ProbingInOrder DEF vars, Fresh, SearchInv
  <2> QED
    BY <2>2, <2>3, <2>4, <2>5, <2>6 DEF Next
<1>3. SearchInv => BestFirst
  <2> SUFFICES ASSUME SearchInv PROVE BestFirst
    OBVIOUS
  <2>1. CASE Fresh
    BY <2>1 DEF BestFirst, Fresh, Found
  <2>2. CASE ~ Fresh
    <3>1. /\ Generated /\ NoneBehind /\ InOrder /\ outSets \subseteq Found /\ IInv /\ IsFiniteSet(taken)
          /\ ScoresRight
      BY <2>2 DEF SearchInv
    <3>2. ASSUME NEW e \in Found
          PROVE  e.perturbs \in ValidSets /\ e.score = KnownScore(e.perturbs)
      <4>1. e.perturbs \in Positions /\ e \in Seen
        BY <3>1 DEF IInv, Seen, Found
      <4>2. e.perturbs \in ValidSets /\ e.perturbs \in Proper
        BY <3>1, <4>1, ValidAllowed DEF Found, NoneBehind
      <4> QED
        BY <3>1, <4>1, <4>2 DEF ScoresRight, Proper
    <3> QED
      BY <3>1, <3>2 DEF BestFirst, InOrder
  <2> QED
    BY <2>1, <2>2
<1> QED
  BY <1>1, <1>2, <1>3, PTL DEF Spec

-----------------------------------------------------------------------------
(* How many of the sets are probed, and what the one extra probe is.        *)

HalfInv ==
  /\ IInv
  /\ pc \in {"idle", "search", "probe"}
  /\ \/ Fresh
     \/ /\ Generated /\ IsFiniteSet(taken) /\ outSets \subseteq taken /\ probeIdx \in Nat
        /\ pc = "search" => /\ Cardinality(outSets) < goal /\ probes = <<>> /\ probeIdx = 0
                            /\ goal <= 1 => taken = {}
        /\ goal <= 1 => \A e \in taken : e.perturbs = {0}
        /\ pc # "search" => IF probeIdx = 0 THEN Cardinality(outSets) = goal
                            ELSE Cardinality(outSets) = goal - (probeIdx - 1)
        /\ probeIdx > 0 => (\E S : probes \in Seq(S)) /\ Len(probes) = probeIdx
        /\ pc = "probe" /\ probeIdx = 0 => probes = <<>>
        /\ pc = "idle" => probeIdx > 0 /\ ~ MoreProbes
        /\ 2 * probeIdx <= goal + 3
        /\ goal = 1 /\ probeIdx > 1 => probes[2] = Perturbed({0})

LEMMA HalfExtract ==
  ASSUME HalfInv, Extract, IInv'
  PROVE  HalfInv'
<1>0. /\ Generated /\ IsFiniteSet(taken) /\ outSets \subseteq taken /\ probes = <<>> /\ probeIdx = 0
      /\ Cardinality(outSets) < goal /\ (goal <= 1 => taken = {}) /\ IInv
  BY DEF HalfInv, Extract, Fresh
<1>1. PICK e \in minHeap :
        /\ taken' = taken \cup {e}
        /\ outSets' = IF Valid(e.perturbs) THEN outSets \cup {e} ELSE outSets
        /\ pc' = IF Cardinality(outSets') = goal THEN "probe" ELSE "search"
  BY DEF Extract, Tops
<1>2. UNCHANGED <<query, distFuns, goal, probeIdx, probes>>
  BY DEF Extract
<1>3. IsFiniteSet(outSets) /\ Cardinality(outSets) \in Nat /\ IsFiniteSet(taken') /\ outSets' \subseteq taken'
  BY <1>0, <1>1, FS_Subset, FS_CardinalityType, FS_AddElement
<1>4. goal \in Nat
  BY <1>0, DistancesAscend
<1>5. goal <= 1 => e.perturbs = {0}
  BY <1>0, <1>1 DEF IInv, Traced, Seen
<1>6. Valid({0})
  <2>1. PICK n \in Nat : n = NumHashBoundaries /\ n >= 2
    BY <1>0, DistancesAscend
  <2>2. 0 \in Boundaries
    BY <2>1 DEF Boundaries
  <2> QED
    BY <1>0, <2>2, SingleAllowed
<1>7. PICK o : o = outSets'
  OBVIOUS
<1>8. o = outSets \/ o = outSets \cup {e}
  BY <1>1, <1>7
<1>9. Cardinality(o) \in Nat /\ Cardinality(o) <= Cardinality(outSets) + 1
  <2>1. PICK c \in Nat : c = Cardinality(outSets)
    BY <1>3
  <2>2. Cardinality(outSets \cup {e}) = IF e \in outSets THEN c ELSE c + 1
    BY <1>3, <2>1, FS_AddElement
  <2>3. Cardinality(o) = c \/ Cardinality(o) = c + 1
    BY ONLY <1>8, <2>1, <2>2
  <2> QED
    BY <2>1, <2>3
<1>10. pc' = "search" => Cardinality(outSets') < goal
  BY <1>0, <1>1, <1>3, <1>4, <1>7, <1>9
<1>11. pc' = "probe" => Cardinality(outSets') = goal
  BY <1>1
<1>12. ASSUME goal <= 1 PROVE pc' = "probe"
  <2>1. o = {e}
    <3>1. outSets = {}
      BY <1>0, <1>12
    <3> QED
      BY <1>1, <1>5, <1>6, <1>7, <1>12, <3>1
  <2>2. Cardinality({e}) = 1
    BY FS_Singleton
  <2>3. Cardinality(outSets') = 1
    BY <1>7, <2>1, <2>2
  <2>4. goal = 1
    BY <1>0, <1>3, <1>4, <1>12
  <2> QED
    BY <1>1, <2>3, <2>4
<1>13. pc' \in {"search", "probe"}
  BY <1>1
<1>14. goal <= 1 => \A f \in taken' : f.perturbs = {0}
  BY <1>0, <1>1, <1>5
<1>15. Generated'
  BY <1>0, <1>2 DEF Generated
<1>16. 2 * 0 <= goal + 3
  BY <1>4
<1> QED
  BY <1>0, <1>2, <1>3, <1>10, <1>11, <1>12, <1>13, <1>14, <1>15, <1>16 DEF HalfInv

LEMMA HalfProbe ==
  ASSUME HalfInv, ProbeNext, IInv'
  PROVE  HalfInv'
<1>0. /\ Generated /\ IsFiniteSet(taken) /\ outSets \subseteq taken /\ probeIdx \in Nat
      /\ goal <= 1 => \A e \in taken : e.perturbs = {0}
      /\ Cardinality(outSets) = goal - (probeIdx - 1)
      /\ Len(probes) = probeIdx
      /\ goal = 1 /\ probeIdx > 1 => probes[2] = Perturbed({0})
      /\ pc = "probe" /\ probeIdx > 0 /\ MoreProbes
  BY DEF HalfInv, ProbeNext, Fresh
<1>1. PICK e \in outSets : probes' = Append(probes, Perturbed(e.perturbs)) /\ outSets' = outSets \ {e}
  BY DEF ProbeNext, Tops
<1>2. probeIdx' = probeIdx + 1 /\ UNCHANGED <<pc, query, distFuns, goal, minHeap, taken>>
  BY DEF ProbeNext
<1>3. PICK S : probes \in Seq(S)
  BY <1>0 DEF HalfInv, Fresh
<1>4. PICK k \in Nat, n \in Nat, w \in {Perturbed(e.perturbs)} : k = probeIdx /\ n = goal
  BY <1>0, DistancesAscend
<1>5. probes \in Seq(S \cup {w}) /\ w \in S \cup {w}
  BY <1>3
<1>6. /\ probes' \in Seq(S \cup {w}) /\ Len(probes') = k + 1
      /\ \A i \in 1 .. k : probes'[i] = probes[i]
      /\ probes'[k + 1] = w
  BY <1>0, <1>1, <1>4, <1>5
<1>7. Cardinality(outSets') = n - k
  <2>1. IsFiniteSet(outSets)
    BY <1>0, FS_Subset
  <2>2. Cardinality(outSets \ {e}) = Cardinality(outSets) - 1
    BY <2>1, FS_RemoveElement
  <2>3. Cardinality(outSets) = n - (k - 1)
    BY <1>0, <1>4
  <2> QED
    BY <1>1, <2>2, <2>3
<1>8. 2 * (k + 1) <= n + 3
  <2>1. k < Cardinality(outSets) + 1
    BY <1>0, <1>4 DEF MoreProbes
  <2>2. k < (n - (k - 1)) + 1
    BY <1>0, <1>4, <2>1
  <2> QED
    BY <2>2
<1>9. ASSUME n = 1 PROVE probes'[2] = Perturbed({0})
  <2>1. e.perturbs = {0}
    BY <1>0, <1>4, <1>9
  <2>2. k = 1
    BY <1>0, <1>4, <1>8, <1>9
  <2> QED
    BY <1>4, <1>6, <2>1, <2>2
<1>10. Perturbed({0})' = Perturbed({0})
  <2>1. distFuns' = distFuns /\ query' = query
    BY <1>2
  <2> QED
    BY ONLY <2>1 DEF Perturbed, Known, NumHashBoundaries, MapThenSumSet, MapThenFoldSet
<1>11. Generated' /\ outSets' \subseteq taken' /\ probeIdx' = k + 1 /\ goal' = n
  BY <1>0, <1>1, <1>2, <1>4 DEF Generated
<1>12. k + 1 \in Nat /\ k + 1 > 0 /\ k + 1 # 0 /\ n - k = n - ((k + 1) - 1)
  OBVIOUS
<1>13. \E R : probes' \in Seq(R)
  BY <1>6
<1> QED
  BY <1>0, <1>2, <1>4, <1>6, <1>7, <1>8, <1>9, <1>10, <1>11, <1>12, <1>13 DEF HalfInv

(* Sums of one number and of none.                                          *)
LEMMA StepOfOne ==
  ASSUME NEW c, distFuns[c + 1].boundary \in Int
  PROVE  /\ MapThenSumSet(LAMBDA j : distFuns[j + 1].boundary, {c}) = distFuns[c + 1].boundary
         /\ MapThenSumSet(LAMBDA j : distFuns[j + 1].boundary, {}) = 0
<1> DEFINE Body(g, D) == [s \in SUBSET D |-> IF s = {} THEN 0
                            ELSE distFuns[(CHOOSE x \in s : TRUE) + 1].boundary + g[s \ {CHOOSE x \in s : TRUE}]]
           iter(D) == CHOOSE g : g = Body(g, D)
           v == distFuns[c + 1].boundary
           g0 == [s \in SUBSET {c} |-> IF s = {} THEN 0 ELSE v]
           e0 == [s \in SUBSET {} |-> 0]
<1>1. v \in Int
  OBVIOUS
<1>2. \A s \in SUBSET {c} : s = {} \/ s = {c}
  OBVIOUS
<1>3. (CHOOSE x \in {c} : TRUE) = c /\ {c} \ {c} = {}
  OBVIOUS
<1>4. \A g : Body(g, {c})[{}] = 0 /\ Body(g, {c})[{c}] = v + g[{}] /\ Body(g, {})[{}] = 0
  BY <1>3
<1>5. g0 = Body(g0, {c})
  <2>1. Body(g0, {c})[{}] = 0 /\ Body(g0, {c})[{c}] = v + g0[{}]
    BY <1>4
  <2>2. g0[{}] = 0 /\ g0[{c}] = v
    OBVIOUS
  <2> HIDE DEF v
  <2>3. Body(g0, {c})[{c}] = v
    BY <1>1, <2>1, <2>2
  <2>4. \A s \in SUBSET {c} : g0[s] = Body(g0, {c})[s]
    BY <1>2, <2>1, <2>2, <2>3
  <2>5. g0 = [s \in SUBSET {c} |-> g0[s]] /\ Body(g0, {c}) = [s \in SUBSET {c} |-> Body(g0, {c})[s]]
    OBVIOUS
  <2> HIDE DEF g0, Body
  <2> QED
    BY <2>4, <2>5
<1>6. e0 = Body(e0, {})
  <2>1. \A s \in SUBSET {} : s = {}
    OBVIOUS
  <2>2. \A s \in SUBSET {} : e0[s] = Body(e0, {})[s]
    BY <1>4, <2>1
  <2>3. e0 = [s \in SUBSET {} |-> e0[s]] /\ Body(e0, {}) = [s \in SUBSET {} |-> Body(e0, {})[s]]
    OBVIOUS
  <2> HIDE DEF e0, Body
  <2> QED
    BY <2>2, <2>3
<1>7. iter({c}) = Body(iter({c}), {c}) /\ iter({}) = Body(iter({}), {})
  BY <1>5, <1>6
<1>8. /\ MapThenSumSet(LAMBDA j : distFuns[j + 1].boundary, {c}) = iter({c})[{c}]
      /\ MapThenSumSet(LAMBDA j : distFuns[j + 1].boundary, {}) = iter({})[{}]
  BY DEF MapThenSumSet, MapThenFoldSet
<1> HIDE DEF iter, Body
<1>9. PICK h, i : h = iter({c}) /\ h = Body(h, {c}) /\ i = iter({}) /\ i = Body(i, {})
  <2> DEFINE hh == iter({c})
             ii == iter({})
  <2>1. hh = iter({c}) /\ hh = Body(hh, {c}) /\ ii = iter({}) /\ ii = Body(ii, {})
    BY <1>7
  <2> HIDE DEF hh, ii
  <2> QED
    BY <2>1
<1> USE DEF Body
<1>10. h[{}] = 0 /\ h[{c}] = v + h[{}] /\ i[{}] = 0
  <2>1. Body(h, {c})[{}] = 0 /\ Body(h, {c})[{c}] = v + h[{}] /\ Body(i, {})[{}] = 0
    BY <1>4
  <2> HIDE DEF Body
  <2> QED
    BY <1>9, <2>1
<1> HIDE DEF v, Body
<1>11. h[{c}] = v
  BY <1>1, <1>10
<1> QED
  BY <1>8, <1>9, <1>10, <1>11 DEF v

LEMMA Below2 ==
  ASSUME NEW w \in Nat \ {0}, NEW a \in 0 .. w - 1
  PROVE  /\ (a + 0) % w = a
         /\ (a + (-1)) % w = (a + w - 1) % w
<1>1. (a + 0) % w = a
  OBVIOUS
<1>2. CASE a = 0
  <2>1. (-1) % w = w - 1
    OBVIOUS
  <2>2. (w - 1) % w = w - 1
    OBVIOUS
  <2>3. a + (-1) = -1 /\ a + w - 1 = w - 1
    BY <1>2
  <2> QED
    BY <1>1, <2>1, <2>2, <2>3
<1>3. CASE a # 0
  <2>1. a - 1 \in 0 .. w - 1
    BY <1>3
  <2>2. (a - 1) % w = a - 1
    BY <2>1
  <2>3. (a - 1 + w) % w = a - 1
    BY <2>1
  <2>4. a + (-1) = a - 1 /\ a + w - 1 = a - 1 + w
    OBVIOUS
  <2> QED
    BY <1>1, <2>2, <2>3, <2>4
<1> QED
  BY <1>1, <1>2, <1>3

(* With the distances the hash functions give, the best set is the step     *)
(* down of the first of them.                                               *)
LEMMA DefaultProbe ==
  ASSUME Generated, LshDistances(query.x)
  PROVE  Perturbed({0}) = [key |-> [query.g EXCEPT ![1] = (@ + Word - 1) % Word], wild |-> FALSE]
<1>1. PICK x \in Seq(Nat), g \in Seq(0 .. Word - 1), n \in Nat, k \in Nat :
        /\ x = query.x /\ g = query.g /\ n = Len(x) /\ k = Len(g) /\ k > 0 /\ n = 2 * k
        /\ DOMAIN x = 1 .. n /\ (\A i \in 1 .. n : x[i] \in Nat)
  <2>1. query.x \in Seq(Nat) /\ query.g \in Seq(0 .. Word - 1)
    BY QueriesAssumption DEF Generated
  <2>2. Len(query.g) > 0 /\ Len(query.x) = 2 * Len(query.g)
    BY QueriesAssumption DEF Generated
  <2>3. Len(query.x) \in Nat /\ Len(query.g) \in Nat
    BY <2>1
  <2>4. DOMAIN query.x = 1 .. Len(query.x) /\ (\A i \in 1 .. Len(query.x) : query.x[i] \in Nat)
    BY <2>1
  <2> QED
    BY <2>1, <2>2, <2>3, <2>4
<1>2. /\ NumHashBoundaries = n /\ distFuns \in [1 .. n -> Entries(x)]
      /\ \A i, j \in 1 .. n : i < j => Before(distFuns[i], distFuns[j])
      /\ \A d \in Entries(x) : \E i \in 1 .. n : distFuns[i] = d
  BY <1>1, SortedIs, DistancesAscend DEF Generated
<1>3. 1 \in 1 .. n /\ x[1] = 0 /\ \A i \in 1 .. n : x[i] \in Nat
  <2>1. 1 \in 1 .. n /\ \A i \in 1 .. n : x[i] \in Nat
    BY <1>1
  <2>2. DOMAIN x = 1 .. n /\ LshDistances(x)
    BY <1>1
  <2>3. x[1] = (1 + 1) % 2
    BY <2>1, <2>2 DEF LshDistances
  <2>4. (1 + 1) % 2 = 0
    OBVIOUS
  <2> QED
    BY <2>1, <2>3, <2>4
<1>4. DistFun(x, 0) \in Entries(x) /\ DistFun(x, 0) = [dist |-> 0, index |-> 0, boundary |-> -1]
  <2>1. 0 \in 0 .. n - 1 /\ 0 + 1 = 1 /\ 0 % 2 # 1
    BY <1>3
  <2> QED
    BY <1>1, <1>3, <2>1 DEF Entries, DistFun
<1>5. distFuns[1] = DistFun(x, 0)
  <2>1. PICK i \in 1 .. n : distFuns[i] = DistFun(x, 0)
    BY <1>2, <1>4
  <2>2. CASE i = 1
    BY <2>1, <2>2
  <2>3. CASE i # 1
    <3>1. Before(distFuns[1], DistFun(x, 0))
      <4>1. 1 < i /\ 1 \in 1 .. n
        BY <1>1, <2>1, <2>3
      <4>2. Before(distFuns[1], distFuns[i])
        BY ONLY <1>2, <2>1, <4>1
      <4> QED
        BY <2>1, <4>2
    <3>2. PICK m \in 0 .. n - 1 : distFuns[1] = DistFun(x, m)
      <4>1. distFuns[1] \in Entries(x)
        BY ONLY <1>2, <1>3
      <4>2. Len(x) = n
        BY <1>1
      <4> QED
        BY ONLY <4>1, <4>2 DEF Entries
    <3>3. distFuns[1].dist \in Nat /\ distFuns[1].index \in Nat
      <4>1. m + 1 \in 1 .. n
        OBVIOUS
      <4> QED
        BY <1>3, <3>2, <4>1 DEF DistFun
    <3> QED
      BY <1>4, <3>1, <3>3 DEF Before
  <2> QED
    BY <2>2, <2>3
<1>6. PICK d : d = distFuns /\ d[1] = [dist |-> 0, index |-> 0, boundary |-> -1]
  BY <1>4, <1>5
<1>7. Known({0}) = {0}
  BY <1>2, <1>3 DEF Known
<1>8. /\ MapThenSumSet(LAMBDA j : distFuns[j + 1].boundary, {0}) = -1
      /\ MapThenSumSet(LAMBDA j : distFuns[j + 1].boundary, {}) = 0
  <2>1. 0 + 1 = 1 /\ distFuns[0 + 1].boundary = -1 /\ -1 \in Int
    BY <1>6
  <2> QED
    BY <2>1, StepOfOne
<1> DEFINE at(i) == {j \in Known({0}) : distFuns[j + 1].index = i}
           delta(i) == MapThenSumSet(LAMBDA j : distFuns[j + 1].boundary, at(i))
<1>9. at(0) = {0} /\ \A i \in Int : i # 0 => at(i) = {}
  <2>1. \A j \in {0} : j + 1 = 1
    OBVIOUS
  <2> QED
    BY <1>6, <1>7, <2>1
<1>10. Perturbed({0}) =
         [key  |-> [i \in 1 .. Len(query.g) |-> (query.g[i] + delta(i - 1)) % Word],
          wild |-> \/ Known({0}) # {0}
                   \/ \E j \in Known({0}) : distFuns[j + 1].index >= Len(query.g)]
  BY DEF Perturbed
<1>11. ~ \E j \in {0} : d[j + 1].index >= k
  <2>1. \A j \in {0} : j + 1 = 1
    OBVIOUS
  <2> QED
    BY <1>1, <1>6, <2>1
<1>12. delta(0) = -1 /\ \A i \in Int : i # 0 => delta(i) = 0
  BY <1>8, <1>9
<1> HIDE DEF delta, at
<1>13. PICK w \in Nat \ {0} : w = Word
  BY WordAssumption
<1>14. \A i \in 1 .. k : (g[i] + delta(i - 1)) % w = IF i = 1 THEN (g[1] + w - 1) % w ELSE g[i]
  <2> SUFFICES ASSUME NEW i \in 1 .. k
               PROVE  (g[i] + delta(i - 1)) % w = IF i = 1 THEN (g[1] + w - 1) % w ELSE g[i]
    OBVIOUS
  <2>1. g[i] \in 0 .. w - 1
    BY <1>1, <1>13
  <2>2. CASE i = 1
    <3>1. delta(i - 1) = -1
      BY <1>12, <2>2
    <3>2. (g[i] + (-1)) % w = (g[i] + w - 1) % w
      BY ONLY <1>13, <2>1, Below2
    <3> QED
      BY <2>2, <3>1, <3>2
  <2>3. CASE i # 1
    <3>1. delta(i - 1) = 0
      <4>1. i - 1 \in Int /\ i - 1 # 0
        BY <2>3
      <4> QED
        BY <1>12, <4>1
    <3>2. (g[i] + 0) % w = g[i]
      BY ONLY <1>13, <2>1, Below2
    <3> QED
      BY <2>3, <3>1, <3>2
  <2> QED
    BY <2>2, <2>3
<1>15. [g EXCEPT ![1] = (g[1] + w - 1) % w] = [i \in 1 .. k |-> IF i = 1 THEN (g[1] + w - 1) % w ELSE g[i]]
  <2>1. DOMAIN g = 1 .. k
    BY <1>1
  <2> QED
    BY ONLY <2>1
<1>16. [i \in 1 .. k |-> (g[i] + delta(i - 1)) % w] = [g EXCEPT ![1] = (g[1] + w - 1) % w]
  BY <1>14, <1>15
<1> QED
  BY <1>1, <1>6, <1>7, <1>10, <1>11, <1>13, <1>16

(* With the distances LSH gives, the one default probe of the loop of       *)
(* G::retrieve_point (lshlib.cpp:579-584) is the same for all queries: the  *)
(* bucket below the query's own.                                            *)
THEOREM DefaultIsBelow == Spec => []DefaultBelow
<1>1. Init => HalfInv
  BY DEF Init, HalfInv, Fresh, IInv, Seen, Traced, EachSetOnce
<1>2. HalfInv /\ [Next]_vars => HalfInv'
  <2> SUFFICES ASSUME HalfInv, [Next]_vars PROVE HalfInv'
    OBVIOUS
  <2>1. IInv'
    BY TraceKept DEF HalfInv
  <2>2. CASE Generate
    <3>1. /\ Generated' /\ taken' = {} /\ outSets' = {} /\ probeIdx' = 0 /\ probes' = <<>>
          /\ pc' = IF goal' = 0 THEN "probe" ELSE "search"
      BY <2>2 DEF Generate, Generated
    <3>2. goal' \in Nat
      <4>1. query'.T \in Nat /\ Len(query'.x) \in Nat
        BY <2>2, QueriesAssumption DEF Generate
      <4>2. goal' = CHOOSE m \in {query'.T, Len(query'.x)} : \A y \in {query'.T, Len(query'.x)} : m <= y
        BY <2>2 DEF Generate, Min
      <4>3. \E m \in {query'.T, Len(query'.x)} : \A y \in {query'.T, Len(query'.x)} : m <= y
        BY <4>1
      <4> QED
        BY <4>1, <4>2, <4>3
    <3>3. Cardinality(outSets') = 0 /\ IsFiniteSet(taken')
      BY <3>1, FS_EmptySet
    <3>4. goal' # 0 => 0 < goal'
      BY <3>2
    <3>5. 2 * probeIdx' <= goal' + 3 /\ probeIdx' \in Nat /\ ~ (probeIdx' > 0) /\ ~ (probeIdx' > 1)
      <4>0. 0 \in Nat /\ 0 = probeIdx'
        BY <3>1
      <4>1. PICK n \in Nat, i \in Nat : n = goal' /\ i = 0 /\ i = probeIdx'
        BY ONLY <3>2, <4>0
      <4>2. ~ (i > 0) /\ ~ (i > 1)
        BY <4>1
      <4>3. 2 * i = 0
        BY <4>1
      <4>4. 0 <= n + 3
        OBVIOUS
      <4> QED
        BY <4>1, <4>2, <4>3, <4>4
    <3>6. pc' \in {"idle", "search", "probe"} /\ pc' # "idle" /\ outSets' \subseteq taken'
      BY <3>1
    <3>7. pc' = "search" => Cardinality(outSets') < goal'
      BY <3>1, <3>3, <3>4
    <3>8. pc' # "search" => Cardinality(outSets') = goal'
      BY <3>1, <3>3
    <3> QED
      BY <2>1, <3>1, <3>3, <3>5, <3>6, <3>7, <3>8 DEF HalfInv
  <2>3. CASE Extract
    BY <2>1, <2>3, HalfExtract
  <2>4. CASE ProbeHome
    <3>1. /\ Generated /\ IsFiniteSet(taken) /\ outSets \subseteq taken /\ Cardinality(outSets) = goal
          /\ goal <= 1 => \A e \in taken : e.perturbs = {0}
      BY <2>4 DEF HalfInv, ProbeHome, Fresh
    <3>2. /\ UNCHANGED <<pc, query, distFuns, goal, minHeap, taken, outSets>>
          /\ pc = "probe" /\ probeIdx' = 1 /\ probes' = <<[key |-> query.g, wild |-> FALSE]>>
      BY <2>4 DEF ProbeHome
    <3>3. Len(probes') = 1 /\ \E S : probes' \in Seq(S)
      <4>1. probes' \in Seq({[key |-> query.g, wild |-> FALSE]})
        BY <3>2
      <4> QED
        BY <3>2, <4>1
    <3>4. goal \in Nat /\ goal - (1 - 1) = goal /\ 2 * 1 <= goal + 3
      BY <3>1, DistancesAscend
    <3>5. Generated'
      BY <3>1, <3>2 DEF Generated
    <3> QED
      BY <2>1, <3>1, <3>2, <3>3, <3>4, <3>5 DEF HalfInv
  <2>5. CASE ProbeNext
    BY <2>1, <2>5, HalfProbe
  <2>6. CASE ProbesDone \/ UNCHANGED vars
    <3>1. UNCHANGED <<query, distFuns, goal, minHeap, outSets, taken, probeIdx, probes>>
      BY <2>6 DEF ProbesDone, vars
    <3>2. \/ pc' = pc
          \/ pc = "probe" /\ pc' = "idle" /\ probeIdx > 0 /\ ~ MoreProbes
      BY <2>6 DEF ProbesDone, vars
    <3>3. CASE Fresh
      <4>1. Fresh'
        BY <3>1, <3>2, <3>3 DEF Fresh
      <4> QED
        BY <2>1, <4>1 DEF HalfInv, Fresh
    <3>4. CASE ~ Fresh
      <4>1. Perturbed({0})' = Perturbed({0})
        <5>1. distFuns' = distFuns /\ query' = query
          BY <3>1
        <5> QED
          BY ONLY <5>1 DEF Perturbed, Known, NumHashBoundaries, MapThenSumSet, MapThenFoldSet
      <4>2. Generated => Generated'
        BY <3>1 DEF Generated
      <4>3. MoreProbes' <=> MoreProbes
        BY <3>1 DEF MoreProbes
      <4> QED
        BY <2>1, <3>1, <3>2, <3>4, <4>1, <4>2, <4>3 DEF HalfInv
    <3> QED
      BY <3>3, <3>4
  <2> QED
    BY <2>2, <2>3, <2>4, <2>5, <2>6 DEF Next
<1>3. HalfInv => DefaultBelow
  <2> SUFFICES ASSUME HalfInv, Finished, goal = 1, LshDistances(query.x) PROVE DefaultBelow
    BY DEF DefaultBelow
  <2>1. /\ Generated /\ Cardinality(outSets) = goal - (probeIdx - 1) /\ probeIdx \in Nat /\ probeIdx > 0
        /\ Len(probes) = probeIdx /\ ~ MoreProbes /\ 2 * probeIdx <= goal + 3
        /\ goal = 1 /\ probeIdx > 1 => probes[2] = Perturbed({0})
    BY DEF HalfInv, Finished, Fresh
  <2>2. PICK i \in Nat, n \in Nat : i = probeIdx /\ n = goal
    BY <2>1, DistancesAscend
  <2>3. ~ (i < (n - (i - 1)) + 1) /\ 2 * i <= n + 3
    BY <2>1, <2>2 DEF MoreProbes
  <2>4. 2 * i = n + 2 \/ 2 * i = n + 3
    BY <2>3
  <2>5. i = 2
    <3>1. n = 1
      BY <2>2
    <3> QED
      BY <2>4, <3>1
  <2>6. probes[2] = [key |-> [query.g EXCEPT ![1] = (@ + Word - 1) % Word], wild |-> FALSE]
    BY <2>1, <2>2, <2>5, DefaultProbe
  <2> QED
    BY <2>1, <2>2, <2>5, <2>6 DEF DefaultBelow
<1> QED
  BY <1>1, <1>2, <1>3, PTL DEF Spec
=============================================================================
