--------------------------------- MODULE MX ---------------------------------
(***************************************************************************)
(* The MX emulation of ml_main.c (--mx-round=yes): after a store into a    *)
(* marked block, the groups of elements it touches are re-encoded with a   *)
(* shared exponent.  Elements are the bit patterns of a binary floating-   *)
(* point format, as in FpFmt; arithmetic on them is that of the code, on   *)
(* significands and exponents.  One block is followed through its stores   *)
(* and reallocations; addresses count from its start.  Stores are of whole *)
(* elements, through Ist_Store (wire_mx).                                  *)
(***************************************************************************)
EXTENDS Integers, Sequences, SequencesExt

CONSTANTS
    Esz, Mant, EBits,               \* the element format: bytes, mantissa and exponent bits
    MBits, EMax, EMin, ScaleBits,   \* --mx-mbits, --mx-emax, --mx-emin, --mx-scale-bits
    WordBits,                       \* width of ULong
    BlockElems,                     \* MX_BLOCK_ELEMS
    Sizes,                          \* the sizes the block may be given (req_szB)
    Stacks,                         \* call stacks of its allocations: <<function, address>>
                                    \* frames, innermost first
    AllocatorFns,                   \* names is_allocator_frame accepts
    Sites, ListSites,               \* lines of --mx-sites-file; --mx-list-sites
    Stores,                         \* what the program stores: sequences of elements
    InitValues                      \* element patterns left in fresh memory

Bias == 2 ^ (EBits - 1) - 1
EMask == 2 ^ EBits - 1
SignBit == 2 ^ (EBits + Mant)

ASSUME FormatOK ==
    /\ Mant > 0 /\ EBits > 1
    /\ WordBits >= Mant + EBits + 1
    /\ MBits \in 0 .. 52 /\ EMax \in Nat /\ -EMin \in Nat
    /\ ScaleBits \in 1 .. 16
    /\ Esz \in {4, 8}
    /\ InitValues \subseteq 0 .. 2 * SignBit - 1
    /\ \A vs \in Stores : vs \in Seq(0 .. 2 * SignBit - 1) /\ vs # <<>>

VARIABLES
    block,      \* its req_szB and its mark (mx)
    mem,        \* the elements of the block
    pending,    \* <<addr, size>> of a store whose helper is to run, or <<>>
    stored      \* history: the groups to be found encoded

vars == <<block, mem, pending, stored>>

NumElems == block.size \div Esz

---------------------------------------------------------------------------
(* The element format. *)

Sign(v) == (v \div SignBit) * SignBit
Magnitude(v) == v % SignBit
Exponent(v) == Magnitude(v) \div 2 ^ Mant
IsZero(v) == Magnitude(v) = 0
NonFinite(v) == Exponent(v) = EMask

\* 63 - __builtin_clzll(n)
Log2(n) == CHOOSE k \in 0 .. WordBits : 2 ^ k <= n /\ n < 2 ^ (k + 1)

\* mx_split: |v| = Sig(v) * 2 ^ Lsb(v)
Sig(v) == (v % 2 ^ Mant) + (IF Exponent(v) = 0 THEN 0 ELSE 2 ^ Mant)
Lsb(v) == (IF Exponent(v) = 0 THEN 1 ELSE Exponent(v)) - Bias - Mant

Lead(v) == Lsb(v) + Log2(Sig(v))

---------------------------------------------------------------------------
(* Rounding one element. *)

\* Mutant: E4M3 has no special case.
MaxSigPlain == 2 ^ (MBits + 1) - 1

\* mx_max_sig
MaxSig == 2 ^ (MBits + 1) - (IF MBits = 3 /\ EMax = 8 THEN 2 ELSE 1)

\* Exponent of the quantum that |v| is rounded to.
QuantumExp(v, shared) ==
    (IF Lead(v) - shared >= EMin THEN Lead(v) ELSE shared + EMin) - MBits

\* Rounding sig to a multiple of 2 ^ shift, half away from zero.
Rounded(sig, shift) ==
    IF shift < WordBits THEN (sig + 2 ^ (shift - 1)) \div 2 ^ shift ELSE 0

Saturated(r, qe, shared) ==
    IF qe = shared + EMax - MBits /\ r > MaxSig THEN MaxSig ELSE r

\* The magnitude whose value is r * 2 ^ qe.
Packed(r, qe) ==
    LET rlead == qe + Log2(r)
        be == rlead + Bias
    IN  IF be >= EMask THEN EMask * 2 ^ Mant
        ELSE IF be <= 0 THEN r * 2 ^ (qe - (1 - Bias - Mant))
        ELSE be * 2 ^ Mant + ((r * 2 ^ (Mant - (rlead - qe))) % 2 ^ Mant)

\* mx_quantize
Quantize(v, shared) ==
    IF IsZero(v) THEN v
    ELSE LET qe == QuantumExp(v, shared)
             shift == qe - Lsb(v)
             r == Rounded(Sig(v), shift)
         IN  IF shift <= 0 THEN v
             ELSE IF r = 0 THEN Sign(v)
             ELSE Sign(v) + Packed(Saturated(r, qe, shared), qe)

---------------------------------------------------------------------------
(* Encoding a group of elements. *)

NaN == EMask * 2 ^ Mant + 2 ^ (Mant - 1)
ScaleMax == 2 ^ (ScaleBits - 1) - 1

\* The elements of group b; the last group may be shorter.
Group(b) == (b * BlockElems) .. (Min({(b + 1) * BlockElems, NumElems}) - 1)

\* Elements that take part in the scale.
Counted(m, b) == {i \in Group(b) : ~IsZero(m[i]) /\ ~NonFinite(m[i])}

\* Exponent of the largest element less the largest element exponent.
RawScale(m, b) == Max({Lead(m[i]) : i \in Counted(m, b)}) - EMax

Shared(m, b) == Max({RawScale(m, b), -ScaleMax})

HasNaNScale(m, b) ==
    \/ \E i \in Group(b) : NonFinite(m[i])
    \/ Counted(m, b) # {} /\ RawScale(m, b) > ScaleMax

\* mx_encode_block
EncodeBlock(m, b) ==
    [i \in DOMAIN m |->
        IF i \notin Group(b) THEN m[i]
        ELSE IF HasNaNScale(m, b) THEN NaN
        ELSE IF Counted(m, b) = {} THEN m[i]
        ELSE Quantize(m[i], Shared(m, b))]

---------------------------------------------------------------------------
(* Stores. *)

Span == BlockElems * Esz
NumBlocks == (block.size \div Span) + (IF block.size % Span >= Esz THEN 1 ELSE 0)

\* Mutant: only the group the store starts in is encoded.
TouchedFirst(addr, size) == {addr \div Span} \cap (0 .. NumBlocks - 1)

\* The groups mx_after_store encodes.
Touched(addr, size) ==
    {b \in (addr \div Span) .. ((addr + size - 1) \div Span) : b < NumBlocks}

\* Mutant: the length leaves out the group behind the store.
FootprintBefore(addr, size) == (addr - 8 * BlockElems) .. (addr + size - 1)

\* The bytes wire_mx declares as modified by the helper: a group of doubles
\* on both sides of the store.
Footprint(addr, size) == (addr - 8 * BlockElems) .. (addr + 8 * BlockElems + size - 1)

\* The store itself, of one or more elements from element i on; what runs
\* past the end of the block is not in mem.
Store(i, vs) ==
    /\ pending = <<>>
    /\ mem' = [j \in DOMAIN mem |->
                  IF j \in i .. (i + Len(vs) - 1) THEN vs[j - i + 1] ELSE mem[j]]
    /\ pending' = <<i * Esz, Len(vs) * Esz>>
    /\ LET groups == {j \div BlockElems : j \in (i .. (i + Len(vs) - 1)) \cap DOMAIN mem}
       IN  stored' = IF block.mx THEN stored \cup groups ELSE stored \ groups
    /\ UNCHANGED block

\* mx_after_store, which wire_mx calls right after the store.
AfterStore ==
    /\ pending # <<>>
    /\ LET touched == IF block.mx THEN Touched(pending[1], pending[2]) ELSE {}
       IN  mem' = FoldLeft(EncodeBlock, mem, SetToSortSeq(touched, LAMBDA b, c : b < c))
    /\ pending' = <<>>
    /\ UNCHANGED <<block, stored>>

---------------------------------------------------------------------------
(* Allocation. *)

\* mx_site_selected: the first frame outside the allocator is on the list, by
\* name or by address.  A frame without a name is passed over.
Selected(stack) ==
    LET user == SelectInSeq(stack, LAMBDA f : f[1] # "" /\ f[1] \notin AllocatorFns)
    IN  IF Sites = {} THEN ~ListSites \/ user # 0
        ELSE user # 0 /\ {stack[user][1], stack[user][2]} \cap Sites # {}

\* The block new_block makes, with some old bytes in it.
NewBlock(size, stack) == [size |-> size, mx |-> Selected(stack)]

\* ml_realloc: a new block, marked or not by the site of this call, and the
\* elements that fit are copied as they are.
Realloc(size, stack) ==
    /\ pending = <<>>
    /\ block' = NewBlock(size, stack)
    /\ \E old \in InitValues :
          mem' = [i \in 0 .. size \div Esz - 1 |->
                     IF i \in DOMAIN mem THEN mem[i] ELSE old]
    /\ stored' = {b \in stored : Group(b)' = Group(b)}
    /\ UNCHANGED pending

Init ==
    /\ \E size \in Sizes, stack \in Stacks : block = NewBlock(size, stack)
    /\ mem \in [0 .. NumElems - 1 -> InitValues]
    /\ pending = <<>>
    /\ stored = {}

Next ==
    \/ \E i \in 0 .. NumElems - 1, vs \in Stores : Store(i, vs)
    \/ AfterStore
    \/ \E size \in Sizes, stack \in Stacks : Realloc(size, stack)

Spec == Init /\ [][Next]_vars

---------------------------------------------------------------------------
(* Properties. *)

\* Elements are patterns of the format; groups are those of the block.
TypeOK ==
    /\ block \in [size : Sizes, mx : BOOLEAN]
    /\ mem \in [0 .. NumElems - 1 -> 0 .. 2 * SignBit - 1]
    /\ pending = <<>> \/ pending \in Nat \X Nat
    /\ stored \subseteq 0 .. NumBlocks - 1

\* |v| in units of 2 ^ u.
Amount(v, u) == Sig(v) * 2 ^ (Lsb(v) - u)

\* The scale of a group: the exponent of its largest finite element less that
\* of the largest MX element, but not below the range of scales.
Scale(b) ==
    LET u == 1 - Bias - Mant
        top == Max({0} \cup {Amount(mem[i], u) : i \in {j \in Group(b) : ~NonFinite(mem[j])}})
    IN  IF top = 0 THEN -ScaleMax
        ELSE Max({(CHOOSE k \in 0 .. 2 * Bias + Mant : top \in 2 ^ k .. 2 ^ (k + 1) - 1) + u - EMax,
                  -ScaleMax})

Spoilt(b) == Scale(b) > ScaleMax \/ \E i \in Group(b) : NonFinite(mem[i])

\* Exponent of a unit that divides every element and every MX value.
Unit(scale) == Min({1 - Bias - Mant, scale + EMin - MBits})

\* The magnitudes an MX element with this scale can have, subnormal and
\* normal, in units; the largest is 1.75 * 2 ^ emax for E4M3, else all ones.
MXMagnitudes(scale) ==
    LET unit(e) == 2 ^ (scale + e - MBits - Unit(scale))
        ones == 2 ^ (MBits + 1) - 1
    IN  {r * unit(EMin) : r \in 0 .. ones}
        \cup {r * unit(e) : r \in 2 ^ MBits .. ones, e \in EMin .. EMax - 1}
        \cup {r * unit(EMax) : r \in 2 ^ MBits .. IF MBits = 3 /\ EMax = 8 THEN 14 ELSE ones}

Distance(m, n) == IF m < n THEN n - m ELSE m - n

\* g is the magnitude nearest to n, the larger of two.
IsNearest(g, n, scale) ==
    /\ g \in MXMagnitudes(scale)
    /\ \A h \in MXMagnitudes(scale) :
          \/ Distance(g, n) < Distance(h, n)
          \/ Distance(g, n) = Distance(h, n) /\ h <= g

\* What the comment of mx_quantize says: after the helper every element of a
\* group with a scale is the MX value nearest to what was there, half away
\* from zero and saturated to max_norm, with its sign; the elements of a
\* group without one are NaN; no other element, and none of a block whose
\* site is not selected, changes.
EncodesNearest ==
    [][pending # <<>> =>
         \A i \in DOMAIN mem :
            LET b == i \div BlockElems
                u == Unit(Scale(b))
            IN  IF ~block.mx \/ b \notin Touched(pending[1], pending[2]) THEN mem'[i] = mem[i]
                ELSE IF Spoilt(b) THEN mem'[i] = NaN
                ELSE IF IsZero(mem[i]) THEN mem'[i] = mem[i]
                ELSE /\ Sign(mem'[i]) = Sign(mem[i])
                     /\ IsNearest(Amount(mem'[i], u), Amount(mem[i], u), Scale(b))]_vars

\* A group that was encoded stays a fixed point of the encoding: storing to
\* one element again and again does not make the others drift, and the copy
\* realloc makes of the bytes is encoded where the block was, except in a
\* group it cuts or extends and until a store into a block without a mark.
EncodedIsStable ==
    /\ TypeOK
    /\ pending = <<>> => \A b \in stored : EncodeBlock(mem, b) = mem

\* The helper changes nothing outside the bytes declared to the translator,
\* so no load of the superblock is served from before the rewrite.
InFootprint ==
    [][pending # <<>> =>
         \A i \in DOMAIN mem : mem'[i] # mem[i] =>
            i * Esz .. (i * Esz + Esz - 1) \subseteq Footprint(pending[1], pending[2])]_vars
=============================================================================
