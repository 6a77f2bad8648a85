------------------------------- MODULE Arena -------------------------------
(***************************************************************************)
(* The client arena of coregrind/m_mallocfree.c, which hands out every     *)
(* block memlog tracks: superblocks obtained from the address space        *)
(* manager, cut into blocks, the free ones on circular lists by size.      *)
(* Every operation runs under the big lock (module BigLock), so each is    *)
(* one action.  Addresses and sizes count units of VG_MIN_MALLOC_SZB: the  *)
(* sizes are those align_req_pszB returns.                                 *)
(***************************************************************************)
EXTENDS Integers, Sequences, SequencesExt, FiniteSets

CONSTANTS
    Payloads,       \* sizes a client asks for (req_pszB)
    Alignments,     \* alignments a client asks for, more than one unit
    Page,           \* VKI_PAGE_SIZE
    MinSb,          \* min_sblock_szB (4 MB for the client arena)
    ListMins,       \* smallest payload of each free list (listNo_to_pszB_min)
    SearchLimit,    \* 100: blocks of one list a request looks at
    Places,         \* addresses the address space manager returns
    Top,            \* end of the address space
    MaxLive         \* bound: payloads live at once

ASSUME UnitsAssumption ==
    /\ Page \in Nat \ {0} /\ MinSb % Page = 0 /\ MinSb > 0
    /\ \A at \in Places : at % Page = 0
    /\ ListMins[1] = 0 /\ \A i \in 2..Len(ListMins) : ListMins[i-1] < ListMins[i]

VARIABLES
    a,          \* the Arena: sblocks, blk, freelist, deferred, loan
    granted     \* history: the request behind every live payload

vars == <<a, granted>>

Null == -1

(* overhead_szB_lo and overhead_szB_hi: a size word and a redzone of eight *)
(* bytes on each side, one unit.  SbHeader is sizeof(Superblock).          *)
Lo == 1
Hi == 1
MinUseful == Lo + Hi
SbHeader == 2

ToBlock(psz) == psz + Lo + Hi
ToPayload(bsz) == bsz - Lo - Hi

(* The list that holds free blocks of payload psz. *)
ListNo(psz) == Cardinality({i \in DOMAIN ListMins : ListMins[i] <= psz})

AlignUp(p, al) == IF p % al = 0 THEN p ELSE p - (p % al) + al

First(sb) == sb.at + SbHeader
End(sb) == sb.at + sb.size

BlockEnd(b) == b + a.blk[b].size

Init ==
    /\ a = [sblocks |-> << >>, blk |-> << >>,
            freelist |-> [l \in DOMAIN ListMins |-> << >>],
            deferred |-> Null, loan |-> 0]
    /\ granted = << >>

-----------------------------------------------------------------------------
(* Blocks.  A free list is the sequence that starts at its head.           *)

(* Writing the size fields of b: the headers inside it are payload now. *)
SetSize(A, b, bsz, inuse) ==
    [A EXCEPT !.blk =
        [x \in {y \in DOMAIN A.blk : y <= b \/ y >= b + bsz} \cup {b} |->
            IF x = b THEN [size |-> bsz, inuse |-> inuse] ELSE A.blk[x]]]

mkInuseBlock(A, b, bsz) == SetSize(A, b, bsz, TRUE)

(* A new free block goes before the head: to the end of the circle. *)
mkFreeBlock(A, b, bsz) ==
    LET F == SetSize(A, b, bsz, FALSE)
    IN  [F EXCEPT !.freelist[ListNo(ToPayload(bsz))] = Append(@, b)]

RotateTo(q, i) == SubSeq(q, i, Len(q)) \o SubSeq(q, 1, i - 1)

(* The head becomes the lowest of itself and its five neighbours on either *)
(* side.                                                                   *)
swizzle(q) ==
    LET n    == Len(q)
        near == {(j % n) + 1 : j \in (n * 5 - 5)..(n * 5 + 5)}
    IN  IF n = 0 THEN q
        ELSE RotateTo(q, CHOOSE i \in near : \A j \in near : q[i] <= q[j])

(* The predecessor of b becomes the head, then the list is swizzled. *)
unlinkBlock(A, b) ==
    LET l    == ListNo(ToPayload(A.blk[b].size))
        q    == A.freelist[l]
        rest == Tail(RotateTo(q, SelectInSeq(q, LAMBDA x : x = b)))
    IN  [A EXCEPT !.freelist[l] =
            swizzle(IF rest = << >> THEN rest ELSE RotateTo(rest, Len(rest)))]

-----------------------------------------------------------------------------
(* Superblocks.  sblocks is sorted by address.                             *)

(* The binary search; Null stands for its assertion failing and its panic. *)
findSb(A, b) ==
    LET used == Len(A.sblocks)
        find[min \in Nat, max \in Int] ==
            LET pos == min + (max - min) \div 2
                sb  == A.sblocks[pos + 1]
            IN  IF min > max \/ pos >= used THEN Null
                ELSE IF First(sb) <= b /\ b < End(sb) THEN pos + 1
                ELSE IF First(sb) <= b THEN find[pos + 1, max]
                ELSE find[min, pos - 1]
    IN  find[0, used]

(* Off the array, and unmapped with whatever it still holds. *)
reclaimSuperblock(A, sb) ==
    [A EXCEPT !.sblocks = SelectSeq(@, LAMBDA s : s # sb),
              !.blk = [x \in {y \in DOMAIN @ : y < sb.at \/ y >= End(sb)} |-> @[x]]]

(* The superblock deferred earlier goes if it is still one free block; the *)
(* one at address `at' (or none) is deferred in its place.                 *)
deferred_reclaimSuperblock(A, at) ==
    LET sb    == CHOOSE s \in ToSet(A.sblocks) : s.at = A.deferred
        b     == First(sb)
        whole == ~ A.blk[b].inuse /\ b + A.blk[b].size = End(sb)
        R     == IF A.deferred \notin {Null, at} /\ whole
                 THEN reclaimSuperblock(unlinkBlock(A, b), sb)
                 ELSE A
    IN  [R EXCEPT !.deferred = at]

(* The size of a superblock for a block of bsz. *)
SbSize(bsz) ==
    AlignUp(IF bsz + SbHeader < MinSb THEN MinSb ELSE bsz + SbHeader, Page)

(* Where the address space manager can map a superblock of that size. *)
Gaps(A, size) ==
    {at \in Places : /\ at + size <= Top
                     /\ \A s \in ToSet(A.sblocks) : at + size <= s.at \/ End(s) <= at}

(* Insertion from the end of the array, then one free block over all of it. *)
addSuperblock(A, sb) ==
    LET after == SelectLastInSeq(A.sblocks, LAMBDA s : s.at < sb.at)
    IN  mkFreeBlock([A EXCEPT !.sblocks = InsertAt(@, after + 1, sb)],
                    First(sb), sb.size - SbHeader)

-----------------------------------------------------------------------------
(* arena_malloc *)

(* As below, with the payload compared instead of the block. *)
FitsPayload(A, l, bsz) ==
    {i \in DOMAIN A.freelist[l] : A.blk[A.freelist[l][i]].size >= ToPayload(bsz)}

(* Positions of list l that the scan looks at and that are big enough. *)
Fits(A, l, bsz) ==
    LET q    == A.freelist[l]
        seen == IF l < Len(ListMins) /\ Len(q) >= SearchLimit
                THEN SearchLimit - 1 ELSE Len(q)
    IN  {i \in 1..seen : A.blk[q[i]].size >= bsz}

(* Every list from the request's on, up to the first with a fit.  The ones *)
(* given up before their end step their head one along.                    *)
Scan(A, psz) ==
    LET from == ListNo(psz)
        hits == {l \in from..Len(ListMins) : Fits(A, l, ToBlock(psz)) # {}}
        stop == IF hits = {} THEN Len(ListMins) + 1 ELSE Min(hits)
        step == {l \in from..(stop - 1) :
                    l < Len(ListMins) /\ Len(A.freelist[l]) >= SearchLimit}
    IN  [arena |-> [A EXCEPT !.freelist =
                       [l \in DOMAIN @ |-> IF l \in step THEN RotateTo(@[l], 2)
                                           ELSE @[l]]],
         block |-> IF hits = {} THEN Null
                   ELSE A.freelist[stop][Min(Fits(A, stop, ToBlock(psz)))]]

(* Cut the request off the front of b when the rest can be a block. *)
Obtain(A, b, bsz, splittable) ==
    LET frag == A.blk[b].size - bsz
        U    == unlinkBlock(A, b)
    IN  IF frag >= MinUseful /\ splittable
        THEN mkFreeBlock(mkInuseBlock(U, b, bsz), b + bsz, frag)
        ELSE mkInuseBlock(U, b, A.blk[b].size)

Lend(A, b) == [A EXCEPT !.loan = @ + ToPayload(A.blk[b].size)]

(* The outcomes of a request: an arena and the block, or Null when no      *)
(* memory could be mapped.  `limit' is min_unsplittable_sblock_szB.        *)
arena_malloc(A, psz, limit) ==
    LET s    == Scan(A, psz)
        bsz  == ToBlock(psz)
        R    == deferred_reclaimSuperblock(s.arena, Null)
        size == SbSize(bsz)
        Grow(at) ==
            LET sb == [at |-> at, size |-> size, unsplittable |-> size >= limit]
                G  == Obtain(addSuperblock(R, sb), First(sb), bsz, ~ sb.unsplittable)
            IN  [arena |-> Lend(G, First(sb)), block |-> First(sb)]
    IN  IF s.block # Null
        THEN {[arena |-> Lend(Obtain(s.arena, s.block, bsz, TRUE), s.block),
               block |-> s.block]}
        ELSE {Grow(at) : at \in Gaps(R, size)} \cup {[arena |-> R, block |-> Null]}

-----------------------------------------------------------------------------
(* arena_free *)

(* As below, with the other block left on its list. *)
JoinLinked(A, b, other) ==
    mkFreeBlock(unlinkBlock(A, b), IF b < other THEN b ELSE other,
                A.blk[b].size + A.blk[other].size)

(* Two adjacent free blocks become one. *)
Join(A, b, other) ==
    LET U == unlinkBlock(unlinkBlock(A, b), other)
    IN  mkFreeBlock(U, IF b < other THEN b ELSE other,
                    A.blk[b].size + A.blk[other].size)

(* As below, without a look at the predecessor. *)
mergeWithSuccessor(A, sb, b) ==
    LET next == b + A.blk[b].size
        S    == IF next < End(sb) /\ ~ A.blk[next].inuse THEN Join(A, b, next) ELSE A
    IN  IF b = First(sb) /\ b + S.blk[b].size = End(sb)
        THEN deferred_reclaimSuperblock(S, sb.at) ELSE S

(* The successor first, then the predecessor, found by its size at its end. *)
mergeWithFreeNeighbours(A, sb, b) ==
    LET next == b + A.blk[b].size
        S    == IF next < End(sb) /\ ~ A.blk[next].inuse THEN Join(A, b, next) ELSE A
        prev == CHOOSE x \in DOMAIN S.blk : x + S.blk[x].size = b
        back == b > First(sb) /\ ~ S.blk[prev].inuse
        P    == IF back THEN Join(S, b, prev) ELSE S
        at   == IF back THEN prev ELSE b
    IN  IF at = First(sb) /\ at + P.blk[at].size = End(sb)
        THEN deferred_reclaimSuperblock(P, sb.at) ELSE P

arena_free(A, b) ==
    LET sb == A.sblocks[findSb(A, b)]
        F  == [A EXCEPT !.loan = @ - ToPayload(A.blk[b].size)]
    IN  IF sb.unsplittable THEN reclaimSuperblock(F, sb)
        ELSE mergeWithFreeNeighbours(mkFreeBlock(F, b, A.blk[b].size), sb, b)

(* As below, with bytes_on_loan left as arena_malloc set it. *)
arena_memalignLends(A, psz, al) ==
    LET Cut(r) ==
            LET base  == r.block
                p     == AlignUp(base + 2 * Lo + Hi, al)
                b     == p - Lo
                end   == base + r.arena.blk[base].size
                F     == mkFreeBlock(r.arena, base, b - base)
            IN  [arena |-> Lend(mkInuseBlock(F, b, end - b), b),
                 block |-> b]
    IN  {IF r.block = Null THEN r ELSE Cut(r) :
            r \in arena_malloc(A, psz + MinUseful + al, Top + 1)}

(* arena_memalign: a bigger block with unsplittable superblocks disabled,  *)
(* cut so that the payload after the cut is aligned.  The front goes back  *)
(* to its list; bytes_on_loan is restored and counts the aligned part.     *)
arena_memalign(A, psz, al) ==
    LET Cut(r) ==
            LET base  == r.block
                p     == AlignUp(base + 2 * Lo + Hi, al)
                b     == p - Lo
                end   == base + r.arena.blk[base].size
                F     == mkFreeBlock(r.arena, base, b - base)
            IN  [arena |-> Lend([mkInuseBlock(F, b, end - b) EXCEPT !.loan = A.loan], b),
                 block |-> b]
    IN  {IF r.block = Null THEN r ELSE Cut(r) :
            r \in arena_malloc(A, psz + MinUseful + al, Top + 1)}

-----------------------------------------------------------------------------
(* A request of psz units that ends with r. *)
Grant(r, psz, al) ==
    /\ a' = r.arena
    /\ granted' = IF r.block = Null THEN granted
                  ELSE [p \in DOMAIN granted \cup {r.block + Lo} |->
                           IF p = r.block + Lo THEN [size |-> psz, align |-> al]
                           ELSE granted[p]]

Malloc(psz) ==
    /\ Cardinality(DOMAIN granted) < MaxLive
    /\ \E r \in arena_malloc(a, psz, MinSb + 1) : Grant(r, psz, 1)

Memalign(psz, al) ==
    /\ Cardinality(DOMAIN granted) < MaxLive
    /\ \E r \in arena_memalign(a, psz, al) : Grant(r, psz, al)

Free(p) ==
    /\ a' = arena_free(a, p - Lo)
    /\ granted' = [q \in DOMAIN granted \ {p} |-> granted[q]]

(* Another arena needs a superblock: newSuperblock runs the deferred       *)
(* reclaim of every arena.                                                 *)
ReclaimElsewhere ==
    /\ a.deferred # Null
    /\ a' = deferred_reclaimSuperblock(a, Null)
    /\ UNCHANGED granted

Next ==
    \/ \E psz \in Payloads : Malloc(psz)
    \/ \E psz \in Payloads, al \in Alignments : Memalign(psz, al)
    \/ \E p \in DOMAIN granted : Free(p)
    \/ ReclaimElsewhere

Spec == Init /\ [][Next]_vars

-----------------------------------------------------------------------------
(* Types of the superblocks, blocks and lists (part of Tiled). *)
TypeOK ==
    /\ \A s \in ToSet(a.sblocks) :
           s.at \in Places /\ s.size \in Nat /\ s.unsplittable \in BOOLEAN
    /\ \A b \in DOMAIN a.blk : a.blk[b] \in [size : MinUseful..Top, inuse : BOOLEAN]
    /\ \A l \in DOMAIN ListMins : ToSet(a.freelist[l]) \subseteq 0..Top
    /\ a.deferred \in {s.at : s \in ToSet(a.sblocks)} \cup {Null}
    /\ a.loan \in Nat

Within(s) == {b \in DOMAIN a.blk : First(s) <= b /\ b < End(s)}

(* The blocks of a superblock cover it end to end, no two free ones are    *)
(* neighbours, and an unsplittable superblock is one block in use          *)
(* (sanity_check_malloc_arena, unsplittableBlockSane and the assertions    *)
(* of mergeWithFreeNeighbours).  A superblock with nothing in use is the   *)
(* deferred one: at most one is kept mapped for later, none is forgotten.  *)
Tiled ==
    /\ TypeOK
    /\ DOMAIN a.blk = UNION {Within(s) : s \in ToSet(a.sblocks)}
    /\ \A s \in ToSet(a.sblocks) :
           /\ First(s) \in DOMAIN a.blk
           /\ \A b \in Within(s) :
                  /\ BlockEnd(b) \in Within(s) \cup {End(s)}
                  /\ \A c \in Within(s) : c > b => c >= BlockEnd(b)
                  /\ ~ a.blk[b].inuse /\ BlockEnd(b) # End(s)
                         => a.blk[BlockEnd(b)].inuse
           /\ s.unsplittable => Within(s) = {First(s)} /\ a.blk[First(s)].inuse
           /\ (\A b \in Within(s) : ~ a.blk[b].inuse) => a.deferred = s.at

(* Every free block is on the list of its size, once, and on no other; no  *)
(* block in use is on a list, so no request is served twice from one block *)
(* however splits, merges and reclaims follow each other.                  *)
ListsExact ==
    /\ \A l \in DOMAIN ListMins :
           /\ ToSet(a.freelist[l]) \subseteq DOMAIN a.blk
           /\ IsInjective(a.freelist[l])
    /\ \A b \in DOMAIN a.blk :
           {l \in DOMAIN ListMins : Contains(a.freelist[l], b)} =
               IF a.blk[b].inuse THEN {} ELSE {ListNo(ToPayload(a.blk[b].size))}

Live == {b + Lo : b \in {x \in DOMAIN a.blk : a.blk[x].inuse}}
Usable(p) == ToPayload(a.blk[p - Lo].size)

(* Every payload handed out and not freed is a block in use, at least as   *)
(* large as asked for and aligned as asked for, and no other block is in   *)
(* use: memlog's usable size covers the request, and nothing leaks.  It    *)
(* can be freed: findSb finds its superblock, whatever order superblocks   *)
(* were mapped and unmapped in.                                            *)
RequestsHonoured ==
    /\ DOMAIN granted = Live
    /\ \A p \in Live :
           /\ Usable(p) >= granted[p].size /\ p % granted[p].align = 0
           /\ findSb(a, p - Lo) # Null /\ p - Lo \in Within(a.sblocks[findSb(a, p - Lo)])

(* The arena implements Allocator: an operation adds or removes the one    *)
(* payload it is about, disjoint from the others, whose places and sizes   *)
(* no split, merge, swizzle or reclaim disturbs; bytes_on_loan follows.    *)
Abstract == INSTANCE Allocator WITH
    Addresses <- 0..Top, Sizes <- 0..Top,
    live <- [p \in Live |-> Usable(p)], onLoan <- a.loan

ImplementsAllocator == Abstract!Spec
=============================================================================
