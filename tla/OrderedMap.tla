----------------------------- MODULE OrderedMap -----------------------------
(***************************************************************************)
(* What rbtree.h promises the tracker: a set of keys, each carrying its    *)
(* block.  An operation is called with a key, adds or removes that key and *)
(* no other at once, and returns later; until then no other is called.     *)
(***************************************************************************)
CONSTANT Key

VARIABLES
    keys,   \* the keys that are found
    call    \* << >>, or the operation in progress and its key

vars == <<keys, call>>

Init == keys = {} /\ call = << >>

Insert(k) ==
    /\ call = << >> /\ k \notin keys
    /\ call' = <<"insert", k>>
    /\ keys' = keys \cup {k}

Delete(k) ==
    /\ call = << >> /\ k \in keys
    /\ call' = <<"delete", k>>
    /\ keys' = keys \ {k}

Return == call # << >> /\ call' = << >> /\ keys' = keys

Next == Return \/ \E k \in Key : Insert(k) \/ Delete(k)

Spec == Init /\ [][Next]_vars
=============================================================================
