-------------------------------- MODULE MCMX --------------------------------
(* A small instance of MX for TLC. *)
EXTENDS MX

\* The pattern of a sign, exponent and mantissa.
P(s, e, m) == s * SignBit + e * 2 ^ Mant + m

\* Significands around those that round up and those above the largest of
\* E4M3, with exponents for which a scale exists; subnormal and smallest
\* elements; elements too large for a scale; infinity and a NaN.
MCValues ==
    {P(0, e, m) : e \in {5, 8, 22, 24}, m \in {0, 7, 8, 13, 14, 15}}
    \cup {0, P(1, 0, 3), P(0, 0, 15), P(0, 4, 15), P(1, 6, 9), P(1, 17, 7)}
    \cup {P(0, 25, 0), P(1, EMask, 0), P(0, EMask, 3)}

\* Single elements, and pairs that cross groups or run past the block.
MCStores ==
    {<<v>> : v \in MCValues} \cup {<<v, w>> : v, w \in {P(0, 24, 15), P(1, 6, 9)}}

\* Allocations selected by function and by address, from a function that is
\* not listed, behind a frame without a name, and with no user frame.
MCStacks ==
    {<<<<"malloc", "0x1">>, <<"f", "0x2">>>>, <<<<"realloc", "0x1">>, <<"g", "0x3">>>>,
     <<<<"malloc", "0x1">>, <<"", "0x3">>, <<"h", "0x4">>>>, <<<<"malloc", "0x1">>>>}

\* A cfg file holds no negative numbers.
Neg6 == -6
=============================================================================
