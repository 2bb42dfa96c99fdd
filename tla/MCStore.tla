------------------------------- MODULE MCStore -------------------------------
(* Instances of Store for TLC. *)
EXTENDS StoreCatalogue, TLC

CONSTANTS h1, h2, h3, h4, p1, p2, p3, k1, k2

(* One handle per process, or two handles sharing p1. *)
OneEach == h1 :> p1 @@ h2 :> p2
OneEach3 == h1 :> p1 @@ h2 :> p2 @@ h3 :> p3
SharedProcess == h1 :> p1 @@ h2 :> p1
TwoEach == h1 :> p1 @@ h2 :> p1 @@ h3 :> p2 @@ h4 :> p2

Datum(k, n, d, pw, tm) == [key |-> k, n |-> n, dim |-> d, power |-> pw, times |-> tm]

(* Two keys; every feature with two-dimensional vectors, and other shapes. *)
Mixed == {Datum(k1, 1, 2, TRUE, TRUE), Datum(k2, 1, 2, TRUE, TRUE),
          Datum(k1, 1, 2, FALSE, TRUE), Datum(k1, 2, 1, FALSE, FALSE),
          Datum(k2, 2, 1, FALSE, FALSE)}

(* Two tracks of two vectors.  The check for space is strict                *)
(* (insert.cpp:14): four doubles take one of them, five take both.          *)
Pair == {Datum(k1, 2, 1, FALSE, FALSE), Datum(k2, 2, 1, FALSE, FALSE)}

(* The handles of a process are interchangeable, and so are the processes. *)
TwoEachSymmetry ==
  {h1 :> h2 @@ h2 :> h1 @@ h3 :> h3 @@ h4 :> h4 @@ p1 :> p1 @@ p2 :> p2,
   h1 :> h1 @@ h2 :> h2 @@ h3 :> h4 @@ h4 :> h3 @@ p1 :> p1 @@ p2 :> p2,
   h1 :> h3 @@ h2 :> h4 @@ h3 :> h1 @@ h4 :> h2 @@ p1 :> p2 @@ p2 :> p1}
=============================================================================
