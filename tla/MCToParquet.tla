---------------------------- MODULE MCToParquet ----------------------------
(* Two archives, the first of them converted first. *)
EXTENDS ToParquet

MCOrder == <<"a", "b">>
=============================================================================
