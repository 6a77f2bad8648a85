---------------------------- MODULE MCInstrument ----------------------------
(* Small instances of Instrument for TLC. *)
EXTENDS Instrument

\* A statement whose value has bytes v + 1, v + 2, ..., all different.
W(tag, ty, a, v) ==
    [tag |-> tag, ty |-> ty, addr |-> a, data |-> [i \in 1 .. Width(ty) |-> v + i]]
St(ty, a, v) == W("Store", ty, a, v)

\* Statements that write memory without being reported: those that are not
\* Ist_Store, and the skipped types.
MCUnreported ==
    {W(tag, "I16", 1, 48) : tag \in WriteTags \ {"Store"}}
    \cup {St("F16", 3, 48), St("D32", 3, 48), St("D64", 0, 48)}

\* Stores of every scalar type but I1, which VEX never stores: one inside the
\* other, overlapping at either end, side by side.
MCStores ==
    {St(ty, a, 16) : ty \in {"I8", "I16", "I32"}, a \in {0, 1, 3}}
    \cup {St("F32", 2, 32), St("I64", 0, 32), St("F64", 4, 32)}

\* Each of them, and pairs that one fault takes apart.
MCScalars ==
    {<<s>> : s \in MCStores \cup MCUnreported}
    \cup {<<s, St("I16", 7, 64)>> : s \in {St("I64", 0, 80), St("I8", 8, 80)}}

\* A vector store.
MCVectors == {<<St("V128", 0, 16)>>, <<St("V256", 0, 16)>>}
=============================================================================
