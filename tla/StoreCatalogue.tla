--------------------------- MODULE StoreCatalogue ---------------------------
(***************************************************************************)
(* Store implements Catalogue: the tracks of the catalogue are the slots   *)
(* the header on disk counts, each read back from the tables.              *)
(***************************************************************************)
EXTENDS Store

(* Slot s as a datum, or Blank when the tables hold no datum there. *)
TrackAt(s) ==
  IF \E d \in Datums : StoredAt(s, d) THEN CHOOSE d \in Datums : StoredAt(s, d) ELSE Blank

CommittedTracks == [i \in 1 .. header.numFiles |-> TrackAt(i - 1)]

Catalogue ==
  INSTANCE Catalogue WITH tracks <- CommittedTracks, dim <- header.dim, flags <- header.flags

(* Every step of every process, a crash or a failed write included, leaves *)
(* the committed tracks as they were, appends exactly one whole new track, *)
(* or changes the settings the way the catalogue allows.                   *)
ImplementsCatalogue == Catalogue!Spec
=============================================================================
