------------------------------ MODULE MCLayout ------------------------------
(* Instances of Layout for TLC: 16-byte pages, 2-byte doubles. *)
EXTENDS Layout
=============================================================================
