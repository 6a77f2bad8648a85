------------------------------ MODULE MCParser ------------------------------
(* Small instances of Parser for TLC. *)
EXTENDS Parser

\* Two neighbouring blocks, and a larger one that reuses the first address.
MCBlocks == {<<0, 8>>, <<8, 8>>, <<0, 12>>}

\* Stores on and off the 8- and 4-byte boundaries, one of them to the part
\* of the address space that both larger blocks cover in turn.
MCStoredLanes == {<<0, 1>>, <<6, 2>>, <<8, 3>>}
=============================================================================
