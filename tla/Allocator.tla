----------------------------- MODULE Allocator -----------------------------
(***************************************************************************)
(* What a client of an arena of coregrind/m_mallocfree.c may rely on: a    *)
(* set of live payloads, no two of which overlap, that changes by exactly  *)
(* the payload an operation names.  `live' maps the address of a payload   *)
(* to its usable size, in units of VG_MIN_MALLOC_SZB; `onLoan' is the      *)
(* total the arena accounts for.                                           *)
(***************************************************************************)
EXTENDS Integers

CONSTANTS Addresses, Sizes

VARIABLES live, onLoan

Init == live = << >> /\ onLoan = 0

Cells(p, size) == p .. p + size - 1

(* malloc and memalign: one new payload, away from every other one, which  *)
(* stays as it was.                                                        *)
Allocate(p) ==
    /\ p \notin DOMAIN live
    /\ DOMAIN live' = DOMAIN live \cup {p}
    /\ live'[p] \in Sizes
    /\ \A q \in DOMAIN live :
           /\ live'[q] = live[q]
           /\ Cells(p, live'[p]) \cap Cells(q, live[q]) = {}
    /\ onLoan' = onLoan + live'[p]

(* free: one payload less, every other one as it was. *)
Release(p) ==
    /\ p \in DOMAIN live
    /\ live' = [q \in DOMAIN live \ {p} |-> live[q]]
    /\ onLoan' = onLoan - live[p]

Next == \E p \in Addresses : Allocate(p) \/ Release(p)

Spec == Init /\ [][Next]_<<live, onLoan>>
=============================================================================
