------------------------------ MODULE Catalogue ------------------------------
(***************************************************************************)
(* What an audioDB file promises, whoever opens it: a list of tracks that  *)
(* only ever grows at its end, one whole track at a time, under a fresh    *)
(* key, all of one dimension and with the same features.                   *)
(***************************************************************************)
EXTENDS Naturals, Sequences

CONSTANT Datums

VARIABLES
  tracks,       \* the datums inserted, in order
  dim, flags    \* the database-wide settings

Init == tracks = <<>> /\ dim = 0 /\ flags = {}

Insert(d) ==
  /\ \A i \in DOMAIN tracks : tracks[i].key # d.key
  /\ tracks # <<>> => d.dim = dim
  /\ tracks' = Append(tracks, d)
  /\ dim' = d.dim
  /\ flags' = flags \cup (IF d.times THEN {"times"} ELSE {})
  /\ d.power <=> "power" \in flags'
  /\ d.times <=> "times" \in flags'

(* Only an empty database can still change what its tracks consist of. *)
Prepare ==
  /\ tracks = <<>>
  /\ flags \subseteq flags'
  /\ dim # 0 => dim' = dim
  /\ UNCHANGED tracks

EnableNorms ==
  /\ flags' = flags \cup {"l2norm"}
  /\ UNCHANGED <<tracks, dim>>

Next == (\E d \in Datums : Insert(d)) \/ Prepare \/ EnableNorms

Spec == Init /\ [][Next]_<<tracks, dim, flags>>
=============================================================================
