-------------------------------- MODULE MCLsh --------------------------------
(* Five points, of which three share a bucket and a fourth their row, under *)
(* either of two hash functions; two indexers may add the same points.      *)
EXTENDS LshIndex

P5 == 0 .. 4

Overlapping == {<<0, 3>>, <<4, 4>>, <<3, 4>>}

G1 == <<<<0, 0>>, <<1, 2>>, <<1, 2>>, <<3, 1>>, <<1, 2>>>>
G2 == <<<<1, 1>>, <<2, 0>>, <<1, 2>>, <<2, 0>>, <<1, 1>>>>

Fun(G, a, b) == [g |-> [j \in 1 .. L |-> [p \in Points |-> G[p + 1]]],
                 r1 |-> [j \in 1 .. L |-> IF j = 1 THEN a ELSE b],
                 r2 |-> [j \in 1 .. L |-> IF j = 1 THEN b ELSE a]]

TwoFuns == {Fun(G1, <<1, 2>>, <<3, 4>>), Fun(G2, <<1, 2>>, <<4, 3>>)}


=============================================================================
