--------------------------------- MODULE IR ---------------------------------
(***************************************************************************)
(* The stores of a VEX superblock, as the instrumentation of ml_main.c     *)
(* sees them.  A statement that writes guest memory is a record            *)
(*     [tag |-> .., ty |-> .., addr |-> .., data |-> ..]                   *)
(* whose data is the sequence of the bytes of the stored value, the least  *)
(* significant first.  A word is what log_store is passed and prints: the  *)
(* eight bytes of a 64-bit number, in the same order.                      *)
(***************************************************************************)
EXTENDS Integers, Sequences

Byte == 0 .. 255
Words == [1 .. 8 -> Byte]

\* IR types of stored data, by what wire_memlog does with them.
ScalarTypes == {"I1", "I8", "I16", "I32", "I64", "F32", "F64"}
PairTypes == {"V128", "I128", "F128", "D128"}
SkippedTypes == {"F16", "D32", "D64"}
Types == ScalarTypes \cup PairTypes \cup SkippedTypes \cup {"V256"}

\* Bytes of a stored value.  VEX refuses a store of an I1; wire_memlog has a case
\* for it.
Width(ty) ==
    CASE ty \in {"I1", "I8"} -> 1
      [] ty \in {"I16", "F16"} -> 2
      [] ty \in {"I32", "F32", "D32"} -> 4
      [] ty \in {"I64", "F64", "D64"} -> 8
      [] ty \in PairTypes -> 16
      [] ty = "V256" -> 32

\* The calls of log_store for a stored value, one for each of its 64-bit
\* lanes; a value of less is one lane.
Lanes(ty) ==
    CASE ty \in PairTypes -> 2
      [] ty = "V256" -> 4
      [] OTHER -> 1

\* Statements that write guest memory.
WriteTags == {"Store", "StoreG", "CAS", "LLSC", "Dirty"}

\* The bytes of memory a store writes, byte i of its data at addr + i - 1.
Targets(st) == st.addr .. (st.addr + Width(st.ty) - 1)

\* Lane i, counted from the least significant, widened to 64 bits with zeros.
Lane(st, i) ==
    [j \in 1 .. 8 |-> IF 8 * (i - 1) + j <= Width(st.ty) THEN st.data[8 * (i - 1) + j] ELSE 0]

\* The calls of log_store that wire_memlog places before the statement, in
\* order: the most significant lane at addr, the next at addr + 8, ...
LogCalls(st) ==
    IF st.tag # "Store" \/ st.ty \in SkippedTypes
    THEN <<>>
    ELSE [i \in 1 .. Lanes(st.ty) |->
             <<st.addr + 8 * (i - 1), Lane(st, Lanes(st.ty) + 1 - i)>>]
=============================================================================
