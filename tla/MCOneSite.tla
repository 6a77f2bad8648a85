----------------------------- MODULE MCOneSite -----------------------------
(* A small instance of OneSite for TLC. *)
EXTENDS OneSite

\* Two jobs of one width and one of another.
MCJobs == <<"a3", "b3", "a7">>
MCWidth == [j \in {"a3", "b3", "a7"} |-> IF j = "a7" THEN 7 ELSE 3]
=============================================================================
