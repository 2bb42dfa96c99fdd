---------------------------- MODULE OffsetsProofs ----------------------------
(***************************************************************************)
(* What holds of accumulated track offsets for any number of tracks of any *)
(* sizes, of sums over finite sets, such as those of distances, and of     *)
(* folds over sequences.                                                   *)
(***************************************************************************)
EXTENDS Offsets, WellFoundedInduction, FiniteSetTheorems, TLAPS

(* Induction over Nat as a fact about sets, which the provers can apply.   *)

Below == {ss \in Nat \X Nat : ss[1] < ss[2]}

LEMMA LeastNatural ==
  ASSUME NEW T \in SUBSET Nat, T # {}
  PROVE  \E m \in T : \A k \in T : m <= k
<1>1. IsWellFoundedOn(Below, Nat)
  <2>1. Below = OpToRel(<, Nat)
    BY Zenon DEF Below, OpToRel
  <2> QED
    BY <2>1, NatLessThanWellFounded, Zenon
<1>2. PICK m \in T : \A k \in T : ~(<<k, m>> \in Below)
  BY <1>1, WFMin
<1>3. ASSUME NEW k \in T
      PROVE  m <= k
  <2>1. k \in Nat /\ m \in Nat
    OBVIOUS
  <2>2. <<k, m>> \notin Below
    BY <1>2
  <2>3. ~(k < m)
    BY <2>1, <2>2 DEF Below
  <2> QED
    BY <2>1, <2>3
<1> QED
  BY <1>3

LEMMA NatSetInduction ==
  ASSUME NEW S \in SUBSET Nat, 0 \in S, \A n \in S : n + 1 \in S
  PROVE  S = Nat
<1> SUFFICES ASSUME Nat \ S # {}
             PROVE  FALSE
  OBVIOUS
<1>1. PICK m \in Nat \ S : \A k \in Nat \ S : m <= k
  BY LeastNatural
<1>2. m # 0 /\ m - 1 \in Nat /\ m - 1 \in S
  BY <1>1
<1> QED
  BY <1>1, <1>2

-----------------------------------------------------------------------------
(* f accumulates the first n sizes. *)
Accumulates(f, n, size) ==
  /\ f \in [0 .. n -> Nat]
  /\ f[0] = 0
  /\ \A i \in 1 .. n : f[i] = f[i - 1] + size[i - 1]

LEMMA AccumulationExists ==
  ASSUME NEW n \in Nat, NEW size, \A i \in 0 .. n - 1 : size[i] \in Nat
  PROVE  \E f : Accumulates(f, n, size)
<1> DEFINE S == {m \in Nat : m <= n => \E f : Accumulates(f, m, size)}
<1>1. 0 \in S
  <2>1. Accumulates([i \in 0 .. 0 |-> 0], 0, size)
    BY DEF Accumulates
  <2> QED
    BY <2>1
<1>2. ASSUME NEW m \in S
      PROVE  m + 1 \in S
  <2> SUFFICES ASSUME m + 1 <= n
               PROVE  \E f : Accumulates(f, m + 1, size)
    OBVIOUS
  <2>1. PICK f : Accumulates(f, m, size)
    OBVIOUS
  <2> DEFINE g == [i \in 0 .. m + 1 |-> IF i <= m THEN f[i] ELSE f[m] + size[m]]
  <2>2. size[m] \in Nat /\ f[m] \in Nat
    BY <2>1 DEF Accumulates
  <2>3. g \in [0 .. m + 1 -> Nat] /\ g[0] = 0
    BY <2>1, <2>2 DEF Accumulates
  <2>4. ASSUME NEW i \in 1 .. m + 1
        PROVE  g[i] = g[i - 1] + size[i - 1]
    <3>1. CASE i <= m
      BY <2>1, <3>1 DEF Accumulates
    <3>2. CASE i = m + 1
      BY <3>2
    <3> QED
      BY <3>1, <3>2
  <2>5. Accumulates(g, m + 1, size)
    BY <2>3, <2>4 DEF Accumulates
  <2> QED
    BY <2>5
<1> HIDE DEF S
<1>3. S = Nat
  <2>1. S \in SUBSET Nat
    BY DEF S
  <2> QED
    BY <1>1, <1>2, <2>1, NatSetInduction
<1> QED
  BY <1>3 DEF S

(* The recursive definition is the accumulation. *)
LEMMA StartsAccumulate ==
  ASSUME NEW n \in Nat, NEW size, \A i \in 0 .. n - 1 : size[i] \in Nat
  PROVE  Accumulates(Starts(n, size), n, size)
<1> DEFINE Body(f) == [i \in 0 .. n |-> IF i = 0 THEN 0 ELSE f[i - 1] + size[i - 1]]
<1>1. PICK f : Accumulates(f, n, size)
  BY AccumulationExists
<1>2. f = Body(f)
  BY <1>1 DEF Accumulates
<1>3. Starts(n, size) = CHOOSE g : g = Body(g)
  BY DEF Starts
<1>4. Starts(n, size) = Body(Starts(n, size))
  BY <1>2, <1>3
<1>5. PICK s : s = Starts(n, size) /\ s = Body(s)
  BY <1>4
<1>6. DOMAIN s = 0 .. n /\ s[0] = 0
  BY <1>5
<1>10. ASSUME NEW i \in 1 .. n
       PROVE  s[i] = s[i - 1] + size[i - 1]
  <2>1. i \in 0 .. n /\ i # 0
    OBVIOUS
  <2>2. Body(s)[i] = s[i - 1] + size[i - 1]
    BY ONLY <2>1
  <2>3. s[i] = Body(s)[i]
    BY ONLY <1>5
  <2> QED
    BY ONLY <2>2, <2>3
<1> DEFINE T == {i \in Nat : i <= n => s[i] \in Nat}
<1>7. 0 \in T /\ \A i \in T : i + 1 \in T
  BY <1>6, <1>10
<1>8. T = Nat
  <2>1. T \in SUBSET Nat
    OBVIOUS
  <2> QED
    BY ONLY <1>7, <2>1, NatSetInduction
<1>9. s \in [0 .. n -> Nat]
  <2>1. \A i \in 0 .. n : s[i] \in Nat
    BY <1>8
  <2>2. s = [i \in 0 .. n |-> s[i]]
    BY <1>5
  <2> QED
    BY <2>1, <2>2
<1> QED
  BY <1>5, <1>6, <1>10, <1>9 DEF Accumulates

(* Tracks inserted later do not move the earlier ones. *)
LEMMA AccumulationsAgree ==
  ASSUME NEW m \in Nat, NEW n \in Nat, NEW f, NEW g, NEW sf, NEW sg,
         Accumulates(f, m, sf), Accumulates(g, n, sg), m <= n,
         \A i \in 0 .. m - 1 : sf[i] = sg[i]
  PROVE  \A i \in 0 .. m : f[i] = g[i]
<1> DEFINE T == {i \in Nat : i <= m => f[i] = g[i]}
<1>1. 0 \in T
  BY DEF Accumulates
<1>2. ASSUME NEW i \in T
      PROVE  i + 1 \in T
  <2> SUFFICES ASSUME i + 1 <= m
               PROVE  f[i + 1] = g[i + 1]
    OBVIOUS
  <2>1. f[i] = g[i] /\ sf[i] = sg[i]
    OBVIOUS
  <2>2. f[i + 1] = f[i] + sf[i]
    BY DEF Accumulates
  <2>3. g[i + 1] = g[i] + sg[i]
    BY DEF Accumulates
  <2> QED
    BY <2>1, <2>2, <2>3
<1>3. T = Nat
  <2>1. T \in SUBSET Nat
    OBVIOUS
  <2> QED
    BY ONLY <1>1, <1>2, <2>1, NatSetInduction
<1> QED
  BY <1>3

(* A later track starts at or after the end of every earlier one. *)
LEMMA AccumulationMonotone ==
  ASSUME NEW n \in Nat, NEW f, NEW size, \A i \in 0 .. n - 1 : size[i] \in Nat,
         Accumulates(f, n, size), NEW i \in 0 .. n - 1
  PROVE  \A j \in i + 1 .. n : f[i] + size[i] <= f[j]
<1> DEFINE T == {k \in Nat : i + 1 + k <= n => f[i] + size[i] <= f[i + 1 + k]}
<1>1. 0 \in T
  BY DEF Accumulates
<1>2. ASSUME NEW k \in T
      PROVE  k + 1 \in T
  <2> SUFFICES ASSUME i + 1 + (k + 1) <= n
               PROVE  f[i] + size[i] <= f[i + 1 + (k + 1)]
    OBVIOUS
  <2>1. f[i] + size[i] <= f[i + 1 + k]
    OBVIOUS
  <2>2. f[i + 1 + (k + 1)] = f[i + 1 + k] + size[i + 1 + k]
    BY DEF Accumulates
  <2>3. f[i] \in Nat /\ size[i] \in Nat /\ f[i + 1 + k] \in Nat /\ size[i + 1 + k] \in Nat
    BY DEF Accumulates
  <2> QED
    BY <2>1, <2>2, <2>3
<1>3. T = Nat
  <2>1. T \in SUBSET Nat
    OBVIOUS
  <2> QED
    BY ONLY <1>1, <1>2, <2>1, NatSetInduction
<1>4. ASSUME NEW j \in i + 1 .. n
      PROVE  f[i] + size[i] <= f[j]
  <2>1. j - (i + 1) \in Nat
    OBVIOUS
  <2>2. j - (i + 1) \in T
    BY ONLY <1>3, <2>1
  <2> QED
    BY <2>2
<1> QED
  BY <1>4

-----------------------------------------------------------------------------
(* The number an index gives to a window leads back to its track and to    *)
(* its position there (audioDB-internals.h:367-383), however many tracks   *)
(* there are and whichever of them have no vectors: an empty track starts  *)
(* where the next one does, and the last track that starts there is meant. *)
THEOREM IndexRoundTrip ==
  ASSUME NEW n \in Nat, NEW size, \A i \in 0 .. n - 1 : size[i] \in Nat,
         NEW t \in 0 .. n - 1, NEW pos \in 0 .. size[t] - 1
  PROVE  LET start == Starts(n, size)
             id == IndexFromTrackInfo(start, t, pos)
         IN  /\ IndexToTrackId(start, n, id) = t
             /\ IndexToTrackPos(start, IndexToTrackId(start, n, id), id) = pos
<1>1. PICK start : start = Starts(n, size)
  OBVIOUS
<1>2. Accumulates(start, n, size)
  BY <1>1, StartsAccumulate
<1>3. PICK id : id = start[t] + pos
  OBVIOUS
<1>4. \A i \in 0 .. n : start[i] \in Nat
  BY <1>2 DEF Accumulates
<1>5. start[t] <= id /\ id < start[t] + size[t] /\ id \in Nat /\ size[t] \in Nat
  BY <1>3, <1>4
<1>6. \A u \in t + 1 .. n - 1 : start[u] > id
  <2> SUFFICES ASSUME NEW u \in t + 1 .. n - 1 PROVE start[u] > id
    OBVIOUS
  <2>1. start[t] + size[t] <= start[u]
    BY <1>2, AccumulationMonotone
  <2> QED
    BY <2>1, <1>4, <1>5
<1>7. ASSUME NEW v \in 0 .. n - 1, start[v] <= id, \A u \in v + 1 .. n - 1 : start[u] > id
      PROVE  v = t
  <2>1. ~(v < t)
    BY <1>4, <1>5, <1>7
  <2>2. ~(t < v)
    BY <1>4, <1>5, <1>6, <1>7
  <2> QED
    BY <2>1, <2>2
<1>8. IndexToTrackId(start, n, id) = t
  BY <1>5, <1>6, <1>7 DEF IndexToTrackId
<1>9. IndexToTrackPos(start, t, id) = pos
  BY <1>3, <1>4 DEF IndexToTrackPos
<1> QED
  BY <1>1, <1>3, <1>8, <1>9 DEF IndexFromTrackInfo

-----------------------------------------------------------------------------
(* Sums over finite sets. *)

(* Induction over the subsets of a finite set, as a fact about sets of sets. *)
LEMMA SubsetInduction ==
  ASSUME NEW S, IsFiniteSet(S), NEW Q \in SUBSET SUBSET S, {} \in Q,
         \A s \in Q : \A x \in S \ s : s \cup {x} \in Q
  PROVE  Q = SUBSET S
<1> DEFINE T == {n \in Nat : \A s \in SUBSET S : Cardinality(s) = n => s \in Q}
<1>1. \A s \in SUBSET S : IsFiniteSet(s) /\ Cardinality(s) \in Nat
  BY FS_Subset, FS_CardinalityType
<1>2. 0 \in T
  BY <1>1, FS_EmptySet
<1>3. ASSUME NEW n \in T
      PROVE  n + 1 \in T
  <2> SUFFICES ASSUME NEW s \in SUBSET S, Cardinality(s) = n + 1
               PROVE  s \in Q
    OBVIOUS
  <2>1. s # {}
    BY FS_EmptySet
  <2>2. PICK x \in s : TRUE
    BY <2>1
  <2>3. s \ {x} \in SUBSET S /\ Cardinality(s \ {x}) = n
    <3>1. IsFiniteSet(s) /\ n \in Nat
      BY <1>1
    <3>2. Cardinality(s \ {x}) = Cardinality(s) - 1
      BY <2>2, <3>1, FS_RemoveElement
    <3> QED
      BY <3>1, <3>2
  <2>4. s \ {x} \in Q /\ x \in S \ (s \ {x}) /\ (s \ {x}) \cup {x} = s
    BY <2>2, <2>3
  <2> QED
    BY <2>4
<1>4. T = Nat
  <2>1. T \in SUBSET Nat
    OBVIOUS
  <2> HIDE DEF T
  <2> QED
    BY <1>2, <1>3, <2>1, NatSetInduction
<1> QED
  BY <1>1, <1>4

Chosen(s) == CHOOSE x \in s : TRUE

(* g adds up f over every subset of S, in the order of a fold. *)
SumsUp(g, f, S) ==
  /\ g \in [SUBSET S -> Int]
  /\ g[{}] = 0
  /\ \A s \in SUBSET S : s # {} => g[s] = f[Chosen(s)] + g[s \ {Chosen(s)}]

LEMMA SumsExist ==
  ASSUME NEW S, IsFiniteSet(S), NEW f, \A x \in S : f[x] \in Int
  PROVE  \E g : SumsUp(g, f, S)
<1> DEFINE UpTo(n) == {s \in SUBSET S : Cardinality(s) <= n}
           Fits(g, n) == /\ g \in [UpTo(n) -> Int]
                         /\ g[{}] = 0
                         /\ \A s \in UpTo(n) : s # {} => g[s] = f[Chosen(s)] + g[s \ {Chosen(s)}]
           T == {n \in Nat : \E g : Fits(g, n)}
<1>1. \A s \in SUBSET S : IsFiniteSet(s) /\ Cardinality(s) \in Nat
  BY FS_Subset, FS_CardinalityType
<1>2. \A s \in SUBSET S : s # {} => /\ Chosen(s) \in s /\ s \ {Chosen(s)} \in SUBSET S
                                    /\ Cardinality(s \ {Chosen(s)}) = Cardinality(s) - 1
  BY <1>1, FS_RemoveElement DEF Chosen
<1>3. 0 \in T
  <2>1. \A s \in SUBSET S : s \in UpTo(0) <=> s = {}
    BY <1>1, FS_EmptySet
  <2>2. Fits([s \in UpTo(0) |-> 0], 0)
    BY <2>1
  <2> QED
    BY <2>2
<1>4. ASSUME NEW n \in T
      PROVE  n + 1 \in T
  <2>1. PICK g : Fits(g, n)
    OBVIOUS
  <2> DEFINE h == [s \in UpTo(n + 1) |-> IF s \in UpTo(n) THEN g[s]
                                         ELSE f[Chosen(s)] + g[s \ {Chosen(s)}]]
  <2>2. \A s \in UpTo(n) : s \in UpTo(n + 1)
    BY <1>1
  <2>3. \A s \in UpTo(n + 1) : s # {} => s \ {Chosen(s)} \in UpTo(n)
    BY <1>1, <1>2
  <2>4. {} \in UpTo(n)
    BY FS_EmptySet
  <2> HIDE DEF UpTo
  <2>5. \A s \in UpTo(n + 1) : s # {} => f[Chosen(s)] \in Int
    BY <1>2 DEF UpTo
  <2>6. h \in [UpTo(n + 1) -> Int]
    <3>1. ASSUME NEW s \in UpTo(n + 1)
          PROVE  (IF s \in UpTo(n) THEN g[s] ELSE f[Chosen(s)] + g[s \ {Chosen(s)}]) \in Int
      <4>1. CASE s \in UpTo(n)
        BY <2>1, <4>1
      <4>2. CASE s \notin UpTo(n)
        <5>1. s # {}
          BY <2>4, <4>2
        <5> QED
          BY <2>1, <2>3, <2>5, <4>2, <5>1
      <4> QED
        BY <4>1, <4>2
    <3> QED
      BY <3>1
  <2>7. h[{}] = 0
    BY <2>1, <2>2, <2>4
  <2>8. \A s \in UpTo(n + 1) : s # {} => h[s] = f[Chosen(s)] + h[s \ {Chosen(s)}]
    BY <2>1, <2>2, <2>3
  <2> HIDE DEF h
  <2>9. Fits(h, n + 1)
    BY <2>6, <2>7, <2>8
  <2>10. n + 1 \in Nat
    OBVIOUS
  <2> HIDE DEF Fits
  <2> QED
    BY <2>9, <2>10
<1> HIDE DEF T
<1>5. T = Nat
  BY <1>3, <1>4, NatSetInduction DEF T
<1>6. Cardinality(S) \in T
  BY <1>1, <1>5
<1>7. UpTo(Cardinality(S)) = SUBSET S
  BY FS_Subset
<1> QED
  BY <1>6, <1>7 DEF T, SumsUp

(* Whichever element is left out, a sum is that element and the rest. *)
LEMMA SumOfRest ==
  ASSUME NEW S, IsFiniteSet(S), NEW f, \A x \in S : f[x] \in Int, NEW g, SumsUp(g, f, S),
         NEW s \in SUBSET S, NEW x \in s
  PROVE  g[s] = f[x] + g[s \ {x}]
<1> DEFINE T == {n \in Nat : \A t \in SUBSET S : Cardinality(t) = n =>
                               \A y \in t : g[t] = f[y] + g[t \ {y}]}
<1>1. \A t \in SUBSET S : IsFiniteSet(t) /\ Cardinality(t) \in Nat
  BY FS_Subset, FS_CardinalityType
<1>2. \A t \in SUBSET S : \A y \in t : t \ {y} \in SUBSET S /\ Cardinality(t \ {y}) = Cardinality(t) - 1
  BY <1>1, FS_RemoveElement
<1>3. 0 \in T
  BY <1>1, FS_EmptySet
<1>4. ASSUME NEW n \in T
      PROVE  n + 1 \in T
  <2> SUFFICES ASSUME NEW t \in SUBSET S, Cardinality(t) = n + 1, NEW y \in t
               PROVE  g[t] = f[y] + g[t \ {y}]
    OBVIOUS
  <2>1. PICK c \in t : c = Chosen(t)
    BY DEF Chosen
  <2>2. g[t] = f[c] + g[t \ {c}]
    BY <2>1 DEF SumsUp
  <2>3. CASE y = c
    BY <2>2, <2>3
  <2>4. CASE y # c
    <3>1. /\ t \ {c} \in SUBSET S /\ Cardinality(t \ {c}) = n /\ y \in t \ {c}
          /\ t \ {y} \in SUBSET S /\ Cardinality(t \ {y}) = n /\ c \in t \ {y}
      BY <1>2, <2>4
    <3>2. g[t \ {c}] = f[y] + g[(t \ {c}) \ {y}]
      BY <3>1
    <3>3. g[t \ {y}] = f[c] + g[(t \ {y}) \ {c}]
      BY <3>1
    <3>4. (t \ {c}) \ {y} = (t \ {y}) \ {c}
      OBVIOUS
    <3>5. PICK rest \in Int : rest = g[(t \ {c}) \ {y}]
      BY <3>1 DEF SumsUp
    <3>6. f[c] \in Int /\ f[y] \in Int
      OBVIOUS
    <3>7. g[t \ {c}] = f[y] + rest
      BY <3>2, <3>5
    <3>8. g[t \ {y}] = f[c] + rest
      BY <3>3, <3>4, <3>5
    <3>9. f[c] + (f[y] + rest) = f[y] + (f[c] + rest)
      BY <3>6
    <3> QED
      BY <2>2, <3>7, <3>8, <3>9
  <2> QED
    BY <2>3, <2>4
<1> HIDE DEF T
<1>5. T = Nat
  BY <1>3, <1>4, NatSetInduction DEF T
<1>6. Cardinality(s) \in T
  BY <1>1, <1>5
<1> QED
  BY <1>6 DEF T

(* Sums of the same numbers are the same, whatever they are parts of. *)
LEMMA SumsAgree ==
  ASSUME NEW S, IsFiniteSet(S), NEW R, IsFiniteSet(R), NEW f, NEW e,
         \A x \in S : f[x] \in Int, \A x \in R : e[x] \in Int,
         NEW g, SumsUp(g, f, S), NEW h, SumsUp(h, e, R),
         NEW s \in SUBSET S, s \subseteq R, \A x \in s : f[x] = e[x]
  PROVE  g[s] = h[s]
<1> DEFINE Q == {t \in SUBSET s : g[t] = h[t]}
<1>1. IsFiniteSet(s)
  BY FS_Subset
<1>2. {} \in Q
  BY DEF SumsUp
<1>3. ASSUME NEW t \in Q, NEW x \in s \ t
      PROVE  t \cup {x} \in Q
  <2>1. g[t] = h[t] /\ (t \cup {x}) \ {x} = t /\ f[x] = e[x]
    OBVIOUS
  <2>2. g[t \cup {x}] = f[x] + g[t]
    BY <2>1, SumOfRest
  <2>3. h[t \cup {x}] = e[x] + h[t]
    BY <2>1, SumOfRest
  <2> QED
    BY <2>1, <2>2, <2>3
<1>4. Q \in SUBSET SUBSET s
  OBVIOUS
<1> HIDE DEF Q
<1>5. Q = SUBSET s
  BY <1>1, <1>2, <1>3, <1>4, SubsetInduction
<1> QED
  BY <1>5 DEF Q

(* The sum of f over S. *)
AddUp(f, S) == (CHOOSE g : SumsUp(g, f, S))[S]

LEMMA AddUpIs ==
  ASSUME NEW S, IsFiniteSet(S), NEW f, \A x \in S : f[x] \in Int, NEW g, SumsUp(g, f, S),
         NEW s \in SUBSET S
  PROVE  AddUp(f, s) = g[s] /\ AddUp(f, s) \in Int
<1>1. IsFiniteSet(s) /\ \A x \in s : f[x] \in Int
  BY FS_Subset
<1>2. PICK h : h = (CHOOSE k : SumsUp(k, f, s)) /\ SumsUp(h, f, s)
  BY <1>1, SumsExist
<1>3. h[s] = g[s]
  BY <1>1, <1>2, SumsAgree
<1> QED
  BY <1>2, <1>3 DEF AddUp, SumsUp

LEMMA AddUpRest ==
  ASSUME NEW S, IsFiniteSet(S), NEW f, \A x \in S : f[x] \in Int
  PROVE  /\ AddUp(f, S) \in Int
         /\ AddUp(f, {}) = 0
         /\ \A x \in S : AddUp(f, S) = f[x] + AddUp(f, S \ {x})
<1>1. PICK g : SumsUp(g, f, S)
  BY SumsExist
<1>2. \A s \in SUBSET S : AddUp(f, s) = g[s] /\ AddUp(f, s) \in Int
  BY <1>1, AddUpIs
<1>3. ASSUME NEW x \in S
      PROVE  AddUp(f, S) = f[x] + AddUp(f, S \ {x})
  <2>1. g[S] = f[x] + g[S \ {x}]
    BY <1>1, SumOfRest
  <2> QED
    BY <1>2, <2>1
<1> QED
  BY <1>1, <1>2, <1>3 DEF SumsUp

LEMMA AddUpOneMore ==
  ASSUME NEW S, IsFiniteSet(S), NEW x, x \notin S, NEW f, \A y \in S \cup {x} : f[y] \in Int
  PROVE  AddUp(f, S \cup {x}) = f[x] + AddUp(f, S) /\ AddUp(f, S) \in Int
<1>1. (S \cup {x}) \ {x} = S /\ IsFiniteSet(S \cup {x})
  BY FS_AddElement
<1>2. AddUp(f, S \cup {x}) = f[x] + AddUp(f, (S \cup {x}) \ {x})
  BY <1>1, AddUpRest
<1> QED
  BY <1>1, <1>2, AddUpRest

LEMMA AddUpAgree ==
  ASSUME NEW S, IsFiniteSet(S), NEW f, NEW e, \A x \in S : f[x] \in Int /\ f[x] = e[x]
  PROVE  AddUp(f, S) = AddUp(e, S)
<1>1. PICK g : SumsUp(g, f, S)
  BY SumsExist
<1>2. PICK h : SumsUp(h, e, S)
  BY SumsExist
<1>3. g[S] = h[S]
  BY <1>1, <1>2, SumsAgree
<1> QED
  BY <1>1, <1>2, <1>3, AddUpIs

(* A sum over all pairs from A and B. *)
LEMMA AddUpPairs ==
  ASSUME NEW A, IsFiniteSet(A), NEW B, IsFiniteSet(B), NEW a,
         \A x \in A \cup B : a[x] \in Int,
         NEW f, \A x \in A : \A y \in B : f[<<x, y>>] = a[x] - a[y]
  PROVE  AddUp(f, A \X B) = AddUp(a, A) * Cardinality(B) - AddUp(a, B) * Cardinality(A)
<1> DEFINE Lead(S, T) == AddUp(a, S) * Cardinality(T) - AddUp(a, T) * Cardinality(S)
           Q == {S \in SUBSET A : AddUp(f, S \X B) = Lead(S, B)}
<1>1. \A S \in SUBSET A : \A T \in SUBSET B :
        /\ IsFiniteSet(S) /\ Cardinality(S) \in Nat
        /\ IsFiniteSet(T) /\ Cardinality(T) \in Nat
        /\ IsFiniteSet(S \X T) /\ AddUp(f, S \X T) \in Int
        /\ AddUp(a, S) \in Int /\ AddUp(a, T) \in Int
  <2> SUFFICES ASSUME NEW S \in SUBSET A, NEW T \in SUBSET B
               PROVE  /\ IsFiniteSet(S) /\ Cardinality(S) \in Nat
                      /\ IsFiniteSet(T) /\ Cardinality(T) \in Nat
                      /\ IsFiniteSet(S \X T) /\ AddUp(f, S \X T) \in Int
                      /\ AddUp(a, S) \in Int /\ AddUp(a, T) \in Int
    OBVIOUS
  <2>1. /\ IsFiniteSet(S) /\ Cardinality(S) \in Nat
        /\ IsFiniteSet(T) /\ Cardinality(T) \in Nat
    BY FS_Subset, FS_CardinalityType
  <2>2. IsFiniteSet(S \X T)
    BY <2>1, FS_Product
  <2>3. \A p \in S \X T : f[p] \in Int
    OBVIOUS
  <2>4. AddUp(f, S \X T) \in Int
    BY <2>2, <2>3, AddUpRest
  <2>5. (\A x \in S : a[x] \in Int) /\ (\A x \in T : a[x] \in Int)
    OBVIOUS
  <2>6. AddUp(a, S) \in Int /\ AddUp(a, T) \in Int
    BY <2>1, <2>5, AddUpRest
  <2> QED
    BY <2>1, <2>2, <2>4, <2>6
(* One element of A against all of B. *)
<1>2. ASSUME NEW S \in SUBSET A, NEW x \in A \ S
      PROVE  AddUp(f, (S \cup {x}) \X B) = AddUp(f, S \X B) + a[x] * Cardinality(B) - AddUp(a, B)
  <2> DEFINE Row(T) == S \X B \cup {x} \X T
             R == {T \in SUBSET B : AddUp(f, Row(T)) = AddUp(f, S \X B) + a[x] * Cardinality(T) - AddUp(a, T)}
  <2>1. {} \in R
    <3>1. Row({}) = S \X B
      OBVIOUS
    <3>2. Cardinality({}) = 0 /\ AddUp(a, {}) = 0
      BY FS_EmptySet, AddUpRest
    <3>3. PICK base \in Int : base = AddUp(f, S \X B)
      BY <1>1
    <3>4. base = base + a[x] * 0 - 0
      OBVIOUS
    <3> HIDE DEF Row
    <3> QED
      BY <3>1, <3>2, <3>3, <3>4
  <2>2. ASSUME NEW T \in R, NEW y \in B \ T
        PROVE  T \cup {y} \in R
    <3>1. /\ T \in SUBSET B /\ IsFiniteSet(T) /\ Cardinality(T) \in Nat
          /\ Cardinality(T \cup {y}) = Cardinality(T) + 1
      BY <1>1, FS_AddElement
    <3>2. AddUp(a, T \cup {y}) = a[y] + AddUp(a, T) /\ AddUp(a, T) \in Int
      <4>1. y \notin T /\ \A z \in T \cup {y} : a[z] \in Int
        BY <3>1
      <4> QED
        BY <3>1, <4>1, AddUpOneMore
    <3>3. AddUp(f, Row(T \cup {y})) = a[x] - a[y] + AddUp(f, Row(T))
      <4>1. Row(T \cup {y}) = Row(T) \cup {<<x, y>>} /\ <<x, y>> \notin Row(T)
        OBVIOUS
      <4>2. Row(T) \in SUBSET (A \X B)
        BY <3>1
      <4>3. IsFiniteSet(Row(T))
        BY <1>1, <4>2, FS_Subset
      <4>4. \A p \in Row(T) \cup {<<x, y>>} : f[p] \in Int
        BY <3>1
      <4>5. f[<<x, y>>] = a[x] - a[y]
        OBVIOUS
      <4>6. PICK p : p = <<x, y>>
        OBVIOUS
      <4> HIDE DEF Row, R
      <4>7. p \notin Row(T) /\ \A q \in Row(T) \cup {p} : f[q] \in Int
        BY <4>1, <4>4, <4>6
      <4>8. AddUp(f, Row(T) \cup {p}) = f[p] + AddUp(f, Row(T))
        BY ONLY <4>3, <4>7, AddUpOneMore
      <4> QED
        BY <4>1, <4>5, <4>6, <4>8
    <3>4. PICK n \in Nat : n = Cardinality(T)
      BY <3>1
    <3>5. PICK base \in Int : base = AddUp(f, S \X B)
      BY <1>1
    <3>6. AddUp(f, Row(T)) = base + a[x] * n - AddUp(a, T)
      BY <3>4, <3>5
    <3>7. a[x] \in Int /\ a[y] \in Int /\ a[x] * (n + 1) = a[x] * n + a[x] /\ a[x] * n \in Int
      OBVIOUS
    <3>8. AddUp(f, Row(T \cup {y})) = base + a[x] * (n + 1) - AddUp(a, T \cup {y})
      BY <3>2, <3>3, <3>6, <3>7
    <3>9. T \cup {y} \in SUBSET B
      OBVIOUS
    <3> HIDE DEF Row
    <3> QED
      BY <3>1, <3>4, <3>5, <3>8, <3>9
  <2>3. R \in SUBSET SUBSET B
    OBVIOUS
  <2>4. Row(B) = (S \cup {x}) \X B
    OBVIOUS
  <2> HIDE DEF R
  <2>5. R = SUBSET B
    BY <2>1, <2>2, <2>3, SubsetInduction
  <2>6. B \in R
    BY <2>5
  <2> HIDE DEF Row
  <2> QED
    BY <2>4, <2>6 DEF R
<1>3. {} \in Q
  <2>1. {} \X B = {}
    OBVIOUS
  <2>2. AddUp(f, {}) = 0 /\ AddUp(a, {}) = 0 /\ Cardinality({}) = 0
    BY FS_EmptySet, AddUpRest
  <2>3. AddUp(a, B) \in Int /\ Cardinality(B) \in Nat
    BY <1>1
  <2> QED
    BY <2>1, <2>2, <2>3
<1>4. ASSUME NEW S \in Q, NEW x \in A \ S
      PROVE  S \cup {x} \in Q
  <2>1. S \in SUBSET A /\ S \cup {x} \in SUBSET A
    OBVIOUS
  <2>2. Cardinality(S \cup {x}) = Cardinality(S) + 1
    BY <1>1, <2>1, FS_AddElement
  <2>3. AddUp(a, S \cup {x}) = a[x] + AddUp(a, S)
    <3>1. IsFiniteSet(S) /\ x \notin S /\ \A z \in S \cup {x} : a[z] \in Int
      BY <1>1, <2>1
    <3> QED
      BY <3>1, AddUpOneMore
  <2>4. PICK n \in Nat : n = Cardinality(S)
    BY <1>1, <2>1
  <2>5. PICK m \in Nat : m = Cardinality(B)
    BY <1>1
  <2>6. PICK u \in Int : u = AddUp(a, S)
    BY <1>1, <2>1
  <2>7. PICK w \in Int : w = AddUp(a, B)
    BY <1>1
  <2>8. AddUp(f, S \X B) = u * m - w * n
    BY <2>4, <2>5, <2>6, <2>7
  <2>9. PICK z \in Int : z = a[x]
    OBVIOUS
  <2>10. AddUp(f, (S \cup {x}) \X B) = (u * m - w * n) + z * m - w
    BY <1>2, <2>1, <2>5, <2>7, <2>8, <2>9
  <2>11. (u * m - w * n) + z * m - w = (z + u) * m - w * (n + 1)
    BY ONLY u \in Int, m \in Nat, w \in Int, n \in Nat, z \in Int
  <2>12. Lead(S \cup {x}, B) = (z + u) * m - w * (n + 1)
    BY <2>2, <2>3, <2>4, <2>5, <2>6, <2>7, <2>9
  <2> HIDE DEF Lead
  <2> QED
    BY <2>1, <2>10, <2>11, <2>12
<1>5. Q \in SUBSET SUBSET A
  OBVIOUS
<1> HIDE DEF Q
<1>6. Q = SUBSET A
  BY <1>3, <1>4, <1>5, SubsetInduction
<1> QED
  BY <1>6 DEF Q

(* A function on sets that takes out one element after the other adds up.   *)
LEMMA FoldAddsUp ==
  ASSUME NEW S, IsFiniteSet(S), NEW f, \A x \in S : f[x] \in Int, NEW h, h[{}] = 0,
         \A s \in SUBSET S : s # {} => h[s] = f[Chosen(s)] + h[s \ {Chosen(s)}]
  PROVE  h[S] = AddUp(f, S)
<1> DEFINE T == {n \in Nat : \A s \in SUBSET S : Cardinality(s) = n => h[s] = AddUp(f, s)}
<1>1. \A s \in SUBSET S : IsFiniteSet(s) /\ Cardinality(s) \in Nat
  BY FS_Subset, FS_CardinalityType
<1>2. 0 \in T
  BY <1>1, FS_EmptySet, AddUpRest
<1>3. ASSUME NEW n \in T
      PROVE  n + 1 \in T
  <2> SUFFICES ASSUME NEW s \in SUBSET S, Cardinality(s) = n + 1
               PROVE  h[s] = AddUp(f, s)
    OBVIOUS
  <2>1. n \in Nat /\ IsFiniteSet(s)
    BY <1>1
  <2>2. s # {}
    BY <2>1, FS_EmptySet
  <2>3. PICK c \in s : c = Chosen(s)
    BY <2>2 DEF Chosen
  <2>4. s \ {c} \in SUBSET S /\ Cardinality(s \ {c}) = n
    <3>1. Cardinality(s \ {c}) = Cardinality(s) - 1
      BY <2>1, FS_RemoveElement
    <3> QED
      BY <2>1, <3>1
  <2>5. h[s \ {c}] = AddUp(f, s \ {c})
    BY <2>4
  <2>6. h[s] = f[c] + h[s \ {c}]
    BY <2>2, <2>3
  <2>7. AddUp(f, s) = f[c] + AddUp(f, s \ {c})
    BY <2>1, AddUpRest
  <2> QED
    BY <2>5, <2>6, <2>7
<1> HIDE DEF T
<1>4. T = Nat
  BY <1>2, <1>3, NatSetInduction DEF T
<1>5. Cardinality(S) \in T
  BY <1>1, <1>4
<1> QED
  BY <1>5 DEF T

(* A sum of naturals is no smaller than that of a part.                     *)
LEMMA AddUpMonotone ==
  ASSUME NEW S, IsFiniteSet(S), NEW f, \A x \in S : f[x] \in Nat, NEW P \in SUBSET S
  PROVE  AddUp(f, P) \in Nat /\ AddUp(f, S) \in Nat /\ AddUp(f, P) <= AddUp(f, S)
<1> DEFINE Q == {R \in SUBSET S : AddUp(f, R) \in Nat}
           M == {R \in SUBSET (S \ P) : AddUp(f, P) <= AddUp(f, P \cup R)}
<1>1. \A R \in SUBSET S : IsFiniteSet(R) /\ \A x \in R : f[x] \in Int
  BY FS_Subset
<1>2. AddUp(f, {}) = 0
  BY <1>1, AddUpRest
<1>3. \A R \in SUBSET S : \A x \in S \ R : AddUp(f, R \cup {x}) = f[x] + AddUp(f, R) /\ AddUp(f, R) \in Int
  <2> SUFFICES ASSUME NEW R \in SUBSET S, NEW x \in S \ R
               PROVE  AddUp(f, R \cup {x}) = f[x] + AddUp(f, R) /\ AddUp(f, R) \in Int
    OBVIOUS
  <2>1. IsFiniteSet(R) /\ x \notin R /\ \A y \in R \cup {x} : f[y] \in Int
    BY <1>1
  <2> QED
    BY <2>1, AddUpOneMore
<1>4. Q = SUBSET S
  <2>1. {} \in Q
    BY <1>2
  <2>2. ASSUME NEW R \in Q, NEW x \in S \ R
        PROVE  R \cup {x} \in Q
    <3>1. f[x] \in Nat /\ AddUp(f, R) \in Nat /\ AddUp(f, R \cup {x}) = f[x] + AddUp(f, R)
      BY <1>3
    <3>2. AddUp(f, R \cup {x}) \in Nat
      BY <3>1
    <3> QED
      BY <3>2
  <2>3. Q \in SUBSET SUBSET S
    OBVIOUS
  <2> HIDE DEF Q
  <2> QED
    BY <2>1, <2>2, <2>3, SubsetInduction
<1>5. \A R \in SUBSET S : AddUp(f, R) \in Nat
  BY <1>4
<1>6. M = SUBSET (S \ P)
  <2>1. {} \in M
    <3>1. P \cup {} = P /\ AddUp(f, P) <= AddUp(f, P)
      BY <1>5
    <3> QED
      BY <3>1
  <2>2. ASSUME NEW R \in M, NEW x \in (S \ P) \ R
        PROVE  R \cup {x} \in M
    <3>1. P \cup R \in SUBSET S /\ x \in S \ (P \cup R)
      OBVIOUS
    <3>2. P \cup (R \cup {x}) = (P \cup R) \cup {x}
      OBVIOUS
    <3>3. AddUp(f, (P \cup R) \cup {x}) = f[x] + AddUp(f, P \cup R)
      BY <1>3, <3>1
    <3>4. f[x] \in Nat /\ AddUp(f, P) \in Nat /\ AddUp(f, P \cup R) \in Nat /\ AddUp(f, P) <= AddUp(f, P \cup R)
      BY <1>5, <3>1
    <3>5. AddUp(f, P) <= f[x] + AddUp(f, P \cup R)
      BY <3>4
    <3> QED
      BY <3>2, <3>3, <3>5
  <2>3. M \in SUBSET SUBSET (S \ P) /\ IsFiniteSet(S \ P)
    BY <1>1
  <2> HIDE DEF M
  <2> QED
    BY <2>1, <2>2, <2>3, SubsetInduction
<1>7. S \ P \in M /\ P \cup (S \ P) = S
  BY <1>6
<1> QED
  BY <1>5, <1>7

-----------------------------------------------------------------------------
(* Folds from the left, as the community modules define them: by taking the *)
(* highest position out of a set of positions.                              *)

Highest(s) == CHOOSE x \in s : \A y \in s : x >= y

LEMMA HighestIs ==
  ASSUME NEW s, NEW m \in s, \A y \in s : m >= y, s \subseteq Int
  PROVE  Highest(s) = m
<1>1. \A x \in s : (\A y \in s : x >= y) <=> x = m
  <2> SUFFICES ASSUME NEW x \in s PROVE (\A y \in s : x >= y) <=> x = m
    OBVIOUS
  <2>1. x \in Int /\ m \in Int /\ m >= x
    OBVIOUS
  <2>2. (\A y \in s : x >= y) => x = m
    BY <2>1
  <2> QED
    BY <2>2
<1> QED
  BY <1>1 DEF Highest

LEMMA HighestExists ==
  ASSUME NEW n \in Nat, NEW s \in SUBSET (1 .. n), s # {}
  PROVE  Highest(s) \in s /\ \A y \in s : Highest(s) >= y
<1> DEFINE T == {m \in Nat : \A u \in SUBSET (1 .. m) : u # {} => \E x \in u : \A y \in u : x >= y}
<1>1. 0 \in T
  <2>1. 1 .. 0 = {}
    OBVIOUS
  <2> QED
    BY <2>1
<1>2. ASSUME NEW m \in T
      PROVE  m + 1 \in T
  <2> SUFFICES ASSUME NEW u \in SUBSET (1 .. m + 1), u # {}
               PROVE  \E x \in u : \A y \in u : x >= y
    OBVIOUS
  <2>1. CASE m + 1 \in u
    <3>1. \A y \in u : m + 1 >= y
      OBVIOUS
    <3> QED
      BY <2>1, <3>1
  <2>2. CASE m + 1 \notin u
    <3>1. u \in SUBSET (1 .. m)
      BY <2>2
    <3> QED
      BY <3>1
  <2> QED
    BY <2>1, <2>2
<1> HIDE DEF T
<1>3. T = Nat
  BY <1>1, <1>2, NatSetInduction DEF T
<1>4. \E x \in s : \A y \in s : x >= y
  BY <1>3 DEF T
<1> QED
  BY <1>4 DEF Highest

(* What a fold over the positions in g amounts to, for each set of them.    *)
Folds(g, n, b, F) ==
  \A s \in SUBSET (1 .. n) :
    g[s] = IF s = {} THEN b ELSE F[<<g[s \ {Highest(s)}], Highest(s)>>]

LEMMA FoldExists ==
  ASSUME NEW n \in Nat, NEW V, NEW b \in V, NEW F \in [V \X (1 .. n) -> V]
  PROVE  \E g \in [SUBSET (1 .. n) -> V] : Folds(g, n, b, F)
<1> DEFINE Has(m) == m <= n => \E g \in [SUBSET (1 .. m) -> V] : Folds(g, m, b, F)
           T == {m \in Nat : Has(m)}
<1>1. 0 \in T
  <2> DEFINE g == [s \in SUBSET (1 .. 0) |-> b]
  <2>1. \A s \in SUBSET (1 .. 0) : s = {}
    OBVIOUS
  <2>2. g \in [SUBSET (1 .. 0) -> V] /\ Folds(g, 0, b, F)
    BY <2>1 DEF Folds
  <2> QED
    BY <2>2
<1>2. ASSUME NEW m \in T
      PROVE  m + 1 \in T
  <2>0. m \in Nat /\ m + 1 \in Nat /\ (m <= n => \E g \in [SUBSET (1 .. m) -> V] : Folds(g, m, b, F))
    <3>1. m \in Nat /\ m + 1 \in Nat /\ Has(m)
      <4> HIDE DEF Has
      <4> QED
        OBVIOUS
    <3> QED
      BY <3>1
  <2> HIDE DEF T
  <2> SUFFICES ASSUME m + 1 <= n
               PROVE  \E g \in [SUBSET (1 .. m + 1) -> V] : Folds(g, m + 1, b, F)
    BY <2>0 DEF T
  <2>1. m \in Nat /\ m <= n /\ m + 1 \in 1 .. n
    BY <2>0
  <2>2. PICK h \in [SUBSET (1 .. m) -> V] : Folds(h, m, b, F)
    BY <2>0, <2>1
  <2> DEFINE g == [s \in SUBSET (1 .. m + 1) |-> IF m + 1 \in s THEN F[<<h[s \ {m + 1}], m + 1>>] ELSE h[s]]
  <2>3. \A s \in SUBSET (1 .. m + 1) : /\ s \ {m + 1} \in SUBSET (1 .. m)
                                       /\ m + 1 \notin s => s \in SUBSET (1 .. m)
    BY <2>1
  <2>4. \A s \in SUBSET (1 .. m) : s \in SUBSET (1 .. m + 1) /\ m + 1 \notin s
    BY <2>1
  <2>5. g \in [SUBSET (1 .. m + 1) -> V]
    BY <2>1, <2>3
  <2>6. \A s \in SUBSET (1 .. m) : g[s] = h[s]
    BY <2>4
  <2>7. ASSUME NEW s \in SUBSET (1 .. m + 1)
        PROVE  g[s] = IF s = {} THEN b ELSE F[<<g[s \ {Highest(s)}], Highest(s)>>]
    <3>1. CASE m + 1 \in s
      <4>1. Highest(s) = m + 1
        <5>1. \A y \in s : m + 1 >= y
          BY <2>1
        <5>2. s \subseteq Int
          BY <2>1
        <5> QED
          BY <3>1, <5>1, <5>2, HighestIs
      <4>2. g[s \ {m + 1}] = h[s \ {m + 1}]
        BY <2>3, <2>6
      <4>3. g[s] = F[<<h[s \ {m + 1}], m + 1>>]
        BY <3>1
      <4> HIDE DEF g
      <4> QED
        BY <3>1, <4>1, <4>2, <4>3
    <3>2. CASE m + 1 \notin s
      <4>1. s \in SUBSET (1 .. m) /\ s \ {Highest(s)} \in SUBSET (1 .. m)
        BY <2>3, <3>2
      <4>2. g[s] = h[s] /\ g[s \ {Highest(s)}] = h[s \ {Highest(s)}]
        BY <2>6, <4>1
      <4> HIDE DEF g
      <4> QED
        BY <2>2, <4>1, <4>2 DEF Folds
    <3> QED
      BY <3>1, <3>2
  <2>8. Folds(g, m + 1, b, F)
    BY <2>7 DEF Folds
  <2> QED
    BY <2>5, <2>8
<1> HIDE DEF T, Has
<1>3. T = Nat
  BY <1>1, <1>2, NatSetInduction DEF T
<1>4. Has(n) /\ n <= n
  BY <1>3 DEF T
<1> QED
  BY <1>4 DEF Has

(* Of the first positions it is the fold of one fewer, and one more step.   *)
LEMMA FoldPrefix ==
  ASSUME NEW n \in Nat, NEW b, NEW F, NEW g, Folds(g, n, b, F)
  PROVE  /\ g[1 .. 0] = b
         /\ \A m \in 0 .. n - 1 : g[1 .. m + 1] = F[<<g[1 .. m], m + 1>>]
<1>1. g[1 .. 0] = b
  <2>1. 1 .. 0 = {}
    OBVIOUS
  <2> QED
    BY <2>1 DEF Folds
<1>2. ASSUME NEW m \in 0 .. n - 1
      PROVE  g[1 .. m + 1] = F[<<g[1 .. m], m + 1>>]
  <2>1. 1 .. m + 1 \in SUBSET (1 .. n) /\ m + 1 \in 1 .. m + 1 /\ (1 .. m + 1) \ {m + 1} = 1 .. m
    OBVIOUS
  <2>2. Highest(1 .. m + 1) = m + 1
    <3>1. \A y \in 1 .. m + 1 : m + 1 >= y
      OBVIOUS
    <3>2. 1 .. m + 1 \subseteq Int
      OBVIOUS
    <3> QED
      BY <2>1, <3>1, <3>2, HighestIs
  <2> QED
    BY <2>1, <2>2 DEF Folds
<1> QED
  BY <1>1, <1>2
=============================================================================
