---------------------------- MODULE MCMultiProbe ----------------------------
(* Instances of MultiProbe for TLC: two or three hash functions.            *)
EXTENDS MultiProbe

Query(x, t) ==
  [x |-> x, T |-> t, g |-> [i \in 1 .. Len(x) \div 2 |-> IF i = 1 THEN 0 ELSE 3]]

(* Boundary distances as the paper has them: left + right = W, none zero.   *)
Pairs(W, k) ==
  {[i \in 1 .. 2 * k |-> IF i % 2 = 1 THEN l[(i + 1) \div 2] ELSE W - l[i \div 2]] :
     l \in [1 .. k -> 1 .. W - 1]}

(* What the hash functions really give: 0 on the left, 1 on the right.      *)
Degenerate(k) == [i \in 1 .. 2 * k |-> (i + 1) % 2]

(* With positive distances any T; with those of the code the default, 1,    *)
(* and 0, with which nothing is generated.                                  *)
SmallQueries ==
  {Query(x, t) : x \in Pairs(6, 2), t \in 1 .. 5}
    \cup {Query(x, t) : x \in Pairs(5, 3), t \in {3, 6}}
    \cup {Query(Degenerate(k), t) : k \in 1 .. 3, t \in {0, 1}}
=============================================================================
