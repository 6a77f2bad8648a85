----------------------------- MODULE MCRunQuery -----------------------------
(* A small instance of RunQuery for TLC. *)
EXTENDS RunQuery

\* One analysis per benchmark, with directives, then one over all of them.
MCOrder == <<"per", "plain">>
MCDirectives == [q \in {"per", "plain"} |->
                    IF q = "per" THEN {"threads", "memory_limit"} ELSE {}]
=============================================================================
