------------------------------ MODULE MCMemlog ------------------------------
(* Small instances of Memlog for TLC. *)
EXTENDS Memlog

CONSTANT MaxEvents      \* bound on the events of a behaviour

\* The arena of Valgrind rounds payloads up; here to the next multiple of 8.
MCUsable(n) == ((n + 7) \div 8) * 8

\* A store of a value with bytes v + 1, v + 2, ...
St(ty, a, v) ==
    [tag |-> "Store", ty |-> ty, addr |-> a, data |-> [i \in 1 .. Width(ty) |-> v + i]]

\* Scalars inside blocks and across their ends, pairs of lanes that end in a
\* neighbouring block or outside every block.
MCStores ==
    {St("I64", 8, 0), St("I32", 20, 16), St("V128", 8, 32), St("V128", 40, 48), St("D64", 0, 64)}

\* Two disjoint client regions outside the arena [0, 24), side by side.
MCRegions == {<<32, 8>>, <<40, 8>>}

\* A region inside another.
MCNestedRegions == {<<32, 24>>, <<40, 8>>}

Bounded == Len(log.out \o log.buf) <= MaxEvents

MCNext == Next /\ Bounded'

MCSpec == Init /\ [][MCNext]_vars
=============================================================================
