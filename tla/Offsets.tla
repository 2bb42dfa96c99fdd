------------------------------- MODULE Offsets -------------------------------
(***************************************************************************)
(* Where each track starts, accumulated from the sizes of the tracks       *)
(* before it (audiodb_collect_track_lengths), and the numbers an index     *)
(* gives to windows: that of the first vector, counted over all tracks.    *)
(* Positions are unbounded: the offsets are off_t.                         *)
(***************************************************************************)
EXTENDS Integers

(* The start of each of n tracks, and after the last one the total size. *)
Starts(n, size) ==
  LET start[i \in 0 .. n] == IF i = 0 THEN 0 ELSE start[i - 1] + size[i - 1]
  IN  start

(* upper_bound: the last of the n tracks that starts at the vector or before. *)
IndexToTrackId(start, n, id) ==
  CHOOSE t \in 0 .. n - 1 : start[t] <= id /\ \A u \in t + 1 .. n - 1 : start[u] > id

(* Mutant: the vector's number in the whole database. *)
GlobalPos(start, t, id) == id

IndexToTrackPos(start, t, id) == id - start[t]

IndexFromTrackInfo(start, t, pos) == start[t] + pos
=============================================================================
