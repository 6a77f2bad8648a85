-------------------------- MODULE InstrumentProofs --------------------------
(***************************************************************************)
(* What wire_memlog's log is worth, for every program whose reported       *)
(* stores are scalar, any addresses that fault, and any number of          *)
(* superblocks.  A vector store is logged with its lanes reversed: run     *)
(* instrument_vectors shows that the property fails there.                 *)
(***************************************************************************)
EXTENDS Instrument, SequenceTheorems, TLAPS

Stmts == UNION {{sb[i] : i \in DOMAIN sb} : sb \in Superblocks}

\* What wire_memlog reports is scalar.
ReportsScalars ==
    \A st \in Stmts : st.tag = "Store" => st.ty \in ScalarTypes \cup SkippedTypes

\* An instruction that has not begun, or one that has made its call.
Insn == {WireStatement(st) : st \in Stmts} \cup {<<Exec(st)>> : st \in Stmts}
\* The call of a scalar store.
Line(st) == Call(<<st.addr, Lane(st, 1)>>, Width(st.ty))
\* The reader has what the store is about to write.
Read(st) == \A a \in Targets(st) : image[a] = st.data[a - st.addr + 1]

\* Instructions behind the first are whole; the first may have made its call,
\* and then the reader has the bytes its statement is about to write.
CodeInv ==
    /\ code \in Seq(Insn)
    /\ \A i \in 2 .. Len(code) : \E st \in Stmts : code[i] = WireStatement(st)
    /\ code # << >> => \E st \in Stmts :
          \/ code[1] = WireStatement(st)
          \/ Calls(st) # << >> /\ code[1] = <<Exec(st)>> /\ Read(st)

\* The log accounts for memory, but for what is in flight or not seen.
MemInv ==
    /\ mem \in [Addrs -> Byte] /\ image \in [Addrs -> Byte]
    /\ bad \subseteq Faulting /\ running \in BOOLEAN /\ dark \subseteq Addrs
    /\ fetched \in 0 .. MaxSuperblocks
    /\ \A a \in Addrs \ (InFlight \cup dark) : image[a] = mem[a]

IInv == CodeInv /\ MemInv

-----------------------------------------------------------------------------
(* Memory. *)

\* A write decides the bytes it covers and no other.
LEMMA WrittenBytes ==
    ASSUME NEW m \in [Addrs -> Byte], NEW a \in Nat, NEW width \in Nat, NEW data,
           \A j \in 1 .. width : data[j] \in Byte
    PROVE  /\ Written(m, a, data, width) \in [Addrs -> Byte]
           /\ \A b \in Addrs : b \in a .. (a + width - 1) => Written(m, a, data, width)[b] = data[b - a + 1]
           /\ \A b \in Addrs : b \notin a .. (a + width - 1) => Written(m, a, data, width)[b] = m[b]
<1>1. DOMAIN m = Addrs
  OBVIOUS
<1>2. Written(m, a, data, width)
        = [b \in Addrs |-> IF b \in a .. (a + width - 1) THEN data[b - a + 1] ELSE m[b]]
  BY <1>1 DEF Written
<1>3. \A b \in a .. (a + width - 1) : b - a + 1 \in 1 .. width
  OBVIOUS
<1>. QED BY <1>2, <1>3

-----------------------------------------------------------------------------
(* Statements. *)

\* The width of a stored value.
LEMMA WidthType ==
    ASSUME NEW ty \in Types PROVE Width(ty) \in Nat
BY DEF Types, ScalarTypes, PairTypes, SkippedTypes, Width

\* The bytes a statement writes.
LEMMA StatementWrites ==
    ASSUME NEW st \in Stmts
    PROVE  /\ st.ty \in Types /\ st.addr \in Nat /\ Width(st.ty) \in Nat
           /\ Targets(st) = st.addr .. (st.addr + Width(st.ty) - 1) /\ Targets(st) \subseteq Addrs
           /\ \A j \in 1 .. Width(st.ty) : st.data[j] \in Byte
<1>1. IsStatement(st)
  BY ProgramOK DEF Stmts
<1>2. Width(st.ty) \in Nat
  BY <1>1, WidthType DEF IsStatement
<1>. QED BY <1>1, <1>2 DEF IsStatement, Targets

\* The value passed for a scalar: its bytes, and zeros above them.
LEMMA LaneBytes ==
    ASSUME NEW st \in Stmts, st.ty \in ScalarTypes
    PROVE  \A j \in 1 .. Width(st.ty) : Lane(st, 1)[j] = st.data[j] /\ Lane(st, 1)[j] \in Byte
<1>1. Width(st.ty) \in 1 .. 8
  BY DEF ScalarTypes, PairTypes, Width
<1>2. Lane(st, 1) = [j \in 1 .. 8 |-> IF 8 * (1 - 1) + j <= Width(st.ty) THEN st.data[8 * (1 - 1) + j] ELSE 0]
  BY DEF Lane
<1>3. ASSUME NEW j \in 1 .. Width(st.ty) PROVE Lane(st, 1)[j] = st.data[j]
  <2>1. j \in 1 .. 8 /\ 8 * (1 - 1) + j = j /\ j <= Width(st.ty)
    BY <1>1
  <2>. QED BY <1>2, <2>1
<1>. QED BY <1>3, StatementWrites

\* A sequence of two.
LEMMA AppendTwo ==
    ASSUME NEW c, NEW e PROVE Append(<<c>>, e) = <<c, e>>
<1>. DEFINE S == {c, e}
<1>1. <<c>> \in Seq(S) /\ Len(<<c>>) = 1 /\ <<c>>[1] = c
  OBVIOUS
<1>2. <<c, e>> \in Seq(S) /\ Len(<<c, e>>) = 2 /\ <<c, e>>[1] = c /\ <<c, e>>[2] = e
  OBVIOUS
<1>3. Append(<<c>>, e) \in Seq(S) /\ Len(Append(<<c>>, e)) = 2
  BY <1>1, AppendProperties
<1>4. Append(<<c>>, e)[1] = c /\ Append(<<c>>, e)[2] = e
  BY <1>1, AppendProperties
<1>. DEFINE s == Append(<<c>>, e)
            t == <<c, e>>
<1>5. s \in Seq(S) /\ t \in Seq(S) /\ Len(s) = 2 /\ Len(t) = 2 /\ s[1] = t[1] /\ s[2] = t[2]
  BY <1>2, <1>3, <1>4
<1>. HIDE DEF s, t, S
<1>6. Len(s) = Len(t) /\ \A i \in 1 .. Len(s) : s[i] = t[i]
  BY <1>5
<1>7. s = t
  BY <1>5, <1>6, SeqEqual
<1>. QED BY <1>7 DEF s, t

\* One and two operations.
LEMMA PairParts ==
    ASSUME NEW x, NEW y
    PROVE  /\ Len(<<x, y>>) = 2 /\ Head(<<x, y>>) = x /\ Tail(<<x, y>>) = <<y>>
           /\ Len(<<x>>) = 1 /\ Head(<<x>>) = x
OBVIOUS

\* A statement without calls is instrumented as it is; a scalar with calls has
\* one, of its address, value and width.
LEMMA StatementShape ==
    ASSUME ReportsScalars, NEW st \in Stmts
    PROVE  /\ Calls(st) = << >> => WireStatement(st) = <<Exec(st)>>
           /\ Calls(st) # << >> => WireStatement(st) = <<Line(st), Exec(st)>> /\ st.ty \in ScalarTypes
<1>1. CASE st.tag # "Store" \/ st.ty \in SkippedTypes
  <2>1. LogCalls(st) = << >>
    BY <1>1 DEF LogCalls
  <2>2. Calls(st) = << >>
    BY <2>1 DEF Calls
  <2>3. WireStatement(st) = <<Exec(st)>>
    BY <2>2 DEF WireStatement
  <2>. QED BY <2>2, <2>3
<1>2. CASE ~ (st.tag # "Store" \/ st.ty \in SkippedTypes)
  <2>0. st.ty \in ScalarTypes
    BY <1>2 DEF ReportsScalars
  <2>1. Lanes(st.ty) = 1
    BY <2>0 DEF Lanes, ScalarTypes, PairTypes
  <2>2. st.addr \in Nat /\ Reported(st.ty) = Width(st.ty)
    BY <2>1, StatementWrites DEF Reported
  <2>. DEFINE w == <<st.addr, Lane(st, 1)>>
  <2>3. LogCalls(st) = [i \in 1 .. 1 |-> <<st.addr + 8 * (i - 1), Lane(st, 1 + 1 - i)>>]
    BY <1>2, <2>1 DEF LogCalls
  <2>4. \A i \in 1 .. 1 : i = 1 /\ st.addr + 8 * (i - 1) = st.addr /\ 1 + 1 - i = 1
    BY <2>2
  <2>5. LogCalls(st) = [i \in 1 .. 1 |-> w]
    BY <2>3, <2>4
  <2>6. Calls(st) = <<Line(st)>>
    <3>1. Calls(st) = [i \in 1 .. 1 |-> Line(st)]
      BY <2>2, <2>5 DEF Calls, Line
    <3>. QED BY <3>1
  <2>7. WireStatement(st) = <<Line(st), Exec(st)>>
    <3>1. Append(<<Line(st)>>, Exec(st)) = <<Line(st), Exec(st)>>
      BY AppendTwo, Zenon
    <3>. QED BY <2>6, <3>1, Zenon DEF WireStatement
  <2>8. Calls(st) # << >>
    BY <2>6
  <2>. QED BY <2>0, <2>7, <2>8, Zenon
<1>. QED BY <1>1, <1>2

\* The statement that is in flight.
LEMMA FlightOf ==
    ASSUME ReportsScalars, NEW st \in Stmts, code # << >>,
           Head(code) = WireStatement(st) \/ Head(code) = <<Exec(st)>>
    PROVE  InFlight = Targets(st)
<1>. DEFINE h == Head(code)
<1>1. InFlight = UNION {Targets(h[i].stmt) : i \in {j \in DOMAIN h : h[j].op = "stmt"}}
  BY DEF InFlight
<1>2. Exec(st).op = "stmt" /\ Exec(st).stmt = st /\ Line(st).op = "log_store"
  BY DEF Exec, Call, Line
<1>3. h = <<Exec(st)>> \/ h = <<Line(st), Exec(st)>>
  BY StatementShape, Zenon
<1>. HIDE DEF h
<1>4. CASE h = <<Exec(st)>>
  <2>1. {j \in DOMAIN h : h[j].op = "stmt"} = {1} /\ h[1] = Exec(st)
    BY <1>2, <1>4
  <2>. QED BY <1>1, <1>2, <2>1
<1>5. CASE h = <<Line(st), Exec(st)>>
  <2>2. DOMAIN h = {1, 2} /\ h[1] = Line(st) /\ h[2] = Exec(st)
    BY <1>5
  <2>3. {j \in DOMAIN h : h[j].op = "stmt"} = {2}
    BY <1>2, <2>2
  <2>. QED BY <1>1, <1>2, <2>2, <2>3
<1>. QED BY <1>3, <1>4, <1>5

-----------------------------------------------------------------------------
(* The instrumented code. *)

\* Another first instruction.
LEMMA NewHead ==
    ASSUME NEW S, NEW s \in Seq(S), s # << >>, NEW x \in S, NEW r, r = <<x>> \o Tail(s)
    PROVE  r \in Seq(S) /\ Len(r) = Len(s) /\ r # << >> /\ r[1] = x /\ \A i \in 2 .. Len(s) : r[i] = s[i]
<1>1. Tail(s) \in Seq(S) /\ Len(Tail(s)) = Len(s) - 1 /\ Len(s) \in Nat /\ Len(s) # 0
      /\ \A i \in 1 .. Len(s) - 1 : Tail(s)[i] = s[i + 1]
  OBVIOUS
<1>2. <<x>> \in Seq(S) /\ Len(<<x>>) = 1 /\ <<x>>[1] = x
  OBVIOUS
<1>3. r \in Seq(S) /\ Len(r) = 1 + (Len(s) - 1) /\ r[1] = x
  BY <1>1, <1>2, ConcatProperties
<1>4. ASSUME NEW i \in 2 .. Len(s) PROVE r[i] = s[i]
  <2>1. i - 1 \in 1 .. Len(s) - 1 /\ (i - 1) + 1 = i
    BY <1>1
  <2>2. r[i] = Tail(s)[i - 1]
    BY <1>1, <1>2, <2>1, ConcatProperties
  <2>. QED BY <1>1, <2>1, <2>2
<1>. QED BY <1>1, <1>3, <1>4

\* The first instruction: not started, or its call made.
LEMMA HeadCases ==
    ASSUME ReportsScalars, CodeInv, code # << >>
    PROVE  \E st \in Stmts :
              /\ InFlight = Targets(st)
              /\ \/ /\ Calls(st) # << >>
                    /\ Head(code) = <<Line(st), Exec(st)>>
                    /\ Op = Line(st)
                    /\ Rest = <<<<Exec(st)>>>> \o Tail(code)
                 \/ /\ Calls(st) # << >> => Read(st)
                    /\ Head(code) = <<Exec(st)>> /\ Op = Exec(st) /\ Rest = Tail(code)
<1>1. code \in Seq(Insn) /\ Head(code) = code[1]
  BY DEF CodeInv
<1>2. PICK st \in Stmts : \/ Head(code) = WireStatement(st)
                          \/ Calls(st) # << >> /\ Head(code) = <<Exec(st)>> /\ Read(st)
  BY <1>1 DEF CodeInv
<1>3. InFlight = Targets(st)
  BY <1>2, FlightOf
<1>4. \A x, y : /\ Len(<<x, y>>) = 2 /\ Head(<<x, y>>) = x /\ Tail(<<x, y>>) = <<y>>
                /\ Len(<<x>>) = 1 /\ Head(<<x>>) = x
  BY PairParts
<1>5. CASE Head(code) = WireStatement(st) /\ Calls(st) # << >>
  <2>1. Head(code) = <<Line(st), Exec(st)>>
    BY <1>5, StatementShape
  <2>2. Op = Line(st) /\ Len(Head(code)) = 2 /\ Tail(Head(code)) = <<Exec(st)>>
    BY <1>4, <2>1, Zenon DEF Op
  <2>3. Rest = <<<<Exec(st)>>>> \o Tail(code)
    <3>1. Len(Head(code)) # 1
      BY <2>2
    <3>. QED BY <2>2, <3>1, Zenon DEF Rest
  <2>. QED BY <1>3, <1>5, <2>1, <2>2, <2>3, Zenon
<1>6. CASE Head(code) = <<Exec(st)>> /\ (Calls(st) # << >> => Read(st))
  <2>1. Op = Exec(st) /\ Len(Head(code)) = 1
    BY <1>4, <1>6, Zenon DEF Op
  <2>2. Rest = Tail(code)
    BY <2>1, Zenon DEF Rest
  <2>. QED BY <1>3, <1>6, <2>1, <2>2, Zenon
<1>7. Calls(st) = << >> => WireStatement(st) = <<Exec(st)>>
  BY StatementShape, Zenon
<1>. QED BY <1>2, <1>5, <1>6, <1>7, Zenon

-----------------------------------------------------------------------------
(* The steps. *)

\* Nothing is logged and memory is zero.
LEMMA InitInv == Init => IInv
<1>. SUFFICES ASSUME Init PROVE IInv
  OBVIOUS
<1>1. code = << >> /\ image = [a \in Addrs |-> 0] /\ mem = [a \in Addrs |-> 0] /\ 0 \in Byte
  BY DEF Init, Byte
<1>2. CodeInv
  BY <1>1 DEF CodeInv
<1>3. fetched \in 0 .. MaxSuperblocks
  BY ProgramOK DEF Init
<1>4. MemInv
  BY <1>1, <1>3 DEF Init, MemInv
<1>. QED BY <1>2, <1>4 DEF IInv

\* What stays of the code behind the first instruction.
LEMMA CodeTail ==
    ASSUME CodeInv, code # << >>
    PROVE  /\ code \in Seq(Insn) /\ Tail(code) \in Seq(Insn) /\ Len(Tail(code)) = Len(code) - 1
           /\ \A i \in 1 .. Len(Tail(code)) : \E st \in Stmts : Tail(code)[i] = WireStatement(st)
<1>1. code \in Seq(Insn) /\ Tail(code) \in Seq(Insn) /\ Len(Tail(code)) = Len(code) - 1
      /\ \A i \in 1 .. Len(code) - 1 : Tail(code)[i] = code[i + 1] /\ i + 1 \in 2 .. Len(code)
  BY DEF CodeInv
<1>. QED BY <1>1 DEF CodeInv

\* What is in flight after a step depends on the code left only.
LEMMA InFlightNext ==
    ASSUME NEW h, code' # << >>, Head(code') = h
    PROVE  InFlight' = UNION {Targets(h[i].stmt) : i \in {j \in DOMAIN h : h[j].op = "stmt"}}
BY DEF InFlight, Targets

\* A superblock is entered.
LEMMA FetchStep ==
    ASSUME IInv, NEW sb \in Superblocks, Fetch(sb) PROVE IInv'
<1>1. code = << >> /\ code' = WireMemlog(sb) /\ fetched' = fetched + 1 /\ fetched < MaxSuperblocks
      /\ UNCHANGED <<mem, image, bad, running, dark>>
  BY DEF Fetch
<1>2. Len(sb) \in Nat /\ DOMAIN sb = 1 .. Len(sb) /\ \A i \in 1 .. Len(sb) : sb[i] \in Stmts
  BY ProgramOK DEF Stmts
<1>3. code' = [i \in 1 .. Len(sb) |-> WireStatement(sb[i])]
  BY <1>1, <1>2 DEF WireMemlog
<1>4. \A i \in 1 .. Len(sb) : WireStatement(sb[i]) \in Insn
  BY <1>2 DEF Insn
<1>5. code' \in Seq(Insn) /\ Len(code') = Len(sb)
  BY <1>2, <1>3, <1>4
<1>6. \A i \in 1 .. Len(code') : \E st \in Stmts : code'[i] = WireStatement(st)
  BY <1>2, <1>3, <1>5
<1>7. CodeInv'
  <2>1. code' # << >> => 1 \in 1 .. Len(code')
    BY <1>5
  <2>2. \A i \in 2 .. Len(code') : i \in 1 .. Len(code')
    BY <1>5
  <2>. QED BY <1>5, <1>6, <2>1, <2>2 DEF CodeInv
<1>8. MemInv'
  <2>1. InFlight = {}
    BY <1>1 DEF InFlight
  <2>3. fetched' \in 0 .. MaxSuperblocks
    BY <1>1, ProgramOK DEF IInv, MemInv
  <2>4. \A a \in Addrs \ dark : image[a] = mem[a]
    BY <2>1 DEF IInv, MemInv
  <2>. QED BY <1>1, <2>3, <2>4 DEF IInv, MemInv
<1>. QED BY <1>7, <1>8 DEF IInv

\* The statement in flight after a step.
LEMMA FlightNext ==
    ASSUME NEW st, code' \in Seq(Insn), code' # << >>, code'[1] = <<Exec(st)>>
    PROVE  InFlight' = Targets(st)
<1>. DEFINE h == Head(code')
<1>1. InFlight' = UNION {Targets(h[i].stmt) : i \in {j \in DOMAIN h : h[j].op = "stmt"}}
  BY DEF InFlight, Targets
<1>2. Exec(st).op = "stmt" /\ Exec(st).stmt = st
  BY DEF Exec
<1>3. h = <<Exec(st)>>
  OBVIOUS
<1>. HIDE DEF h
<1>4. {j \in DOMAIN h : h[j].op = "stmt"} = {1} /\ h[1] = Exec(st)
  BY <1>2, <1>3
<1>. QED BY <1>1, <1>2, <1>4

\* log_store is called.
LEMMA LogStep ==
    ASSUME ReportsScalars, IInv, LogStore PROVE IInv'
<1>1. code # << >> /\ Op.op = "log_store" /\ code' = Rest
      /\ image' = Written(image, Op.line[1], Op.line[2], Op.width)
      /\ UNCHANGED <<mem, bad, running, dark, fetched>>
  BY DEF LogStore
<1>2. PICK st \in Stmts :
        /\ InFlight = Targets(st) /\ Calls(st) # << >>
        /\ Op = Line(st) /\ Rest = <<<<Exec(st)>>>> \o Tail(code)
  <2>1. \A st : Exec(st).op # "log_store"
    BY DEF Exec
  <2>. QED BY <1>1, <2>1, HeadCases, Zenon DEF IInv
<1>3. /\ st.addr \in Nat /\ Width(st.ty) \in Nat /\ Targets(st) \subseteq Addrs
      /\ Targets(st) = st.addr .. (st.addr + Width(st.ty) - 1)
  BY StatementWrites
<1>4. \A j \in 1 .. Width(st.ty) : Lane(st, 1)[j] = st.data[j] /\ Lane(st, 1)[j] \in Byte
  BY <1>2, StatementShape, LaneBytes
<1>5. image' = Written(image, st.addr, Lane(st, 1), Width(st.ty))
  BY <1>1, <1>2 DEF Line, Call
<1>6. image \in [Addrs -> Byte]
  BY DEF IInv, MemInv
<1>7. /\ image' \in [Addrs -> Byte]
      /\ \A a \in Targets(st) : image'[a] = st.data[a - st.addr + 1]
      /\ \A a \in Addrs \ Targets(st) : image'[a] = image[a]
  <2>. DEFINE L == Lane(st, 1)
              n == Width(st.ty)
  <2>1. \A j \in 1 .. n : L[j] \in Byte
    BY <1>4
  <2>2. /\ image' \in [Addrs -> Byte]
        /\ \A b \in Addrs : b \in st.addr .. (st.addr + n - 1) => image'[b] = L[b - st.addr + 1]
        /\ \A b \in Addrs : b \notin st.addr .. (st.addr + n - 1) => image'[b] = image[b]
    <3>1. image' = Written(image, st.addr, L, n) /\ st.addr \in Nat /\ n \in Nat
      BY <1>3, <1>5
    <3>. HIDE DEF L, n
    <3>. QED BY <1>6, <2>1, <3>1, WrittenBytes
  <2>3. \A a \in Targets(st) : a - st.addr + 1 \in 1 .. n
    BY <1>3
  <2>. QED BY <1>3, <1>4, <2>2, <2>3
<1>8. <<Exec(st)>> \in Insn
  BY DEF Insn
<1>9. /\ code' \in Seq(Insn) /\ Len(code') = Len(code) /\ code' # << >> /\ code'[1] = <<Exec(st)>>
      /\ \A i \in 2 .. Len(code) : code'[i] = code[i]
  BY <1>1, <1>2, <1>8, NewHead DEF IInv, CodeInv
<1>10. CodeInv'
  <2>1. Read(st)'
    BY <1>7 DEF Read, Targets
  <2>. QED BY <1>2, <1>9, <2>1 DEF IInv, CodeInv
<1>11. InFlight' = Targets(st)
  BY <1>9, FlightNext
<1>12. MemInv'
  <2>2. \A a \in Addrs \ (InFlight' \cup dark) : image'[a] = mem[a]
    BY <1>2, <1>7, <1>11 DEF IInv, MemInv
  <2>. QED BY <1>1, <1>7, <2>2 DEF IInv, MemInv
<1>. QED BY <1>10, <1>12 DEF IInv

\* The statement runs.
LEMMA ExecuteStep ==
    ASSUME ReportsScalars, IInv, Execute PROVE IInv'
<1>0. code # << >> /\ Op.op = "stmt" /\ code' = Rest
      /\ mem' = Written(mem, Op.stmt.addr, Op.stmt.data, Width(Op.stmt.ty))
  BY DEF Execute, AtStatement
<1>1. UNCHANGED <<image, bad, running, fetched>>
  BY DEF Execute
<1>2. PICK st \in Stmts :
        /\ InFlight = Targets(st) /\ (Calls(st) # << >> => Read(st))
        /\ Op = Exec(st) /\ Rest = Tail(code)
  <2>1. \A x : Line(x).op # "stmt"
    BY DEF Call, Line
  <2>. QED BY <1>0, <2>1, HeadCases, Zenon DEF IInv
<1>3. Op.stmt = st
  BY <1>2 DEF Exec
<1>13. /\ Calls(st) = << >> => dark' = dark \cup Targets(st)
       /\ Calls(st) # << >> => dark' = dark \ Targets(st)
  BY <1>3, Zenon DEF Execute
<1>4. /\ st.addr \in Nat /\ Width(st.ty) \in Nat /\ Targets(st) \subseteq Addrs
      /\ Targets(st) = st.addr .. (st.addr + Width(st.ty) - 1)
      /\ \A j \in 1 .. Width(st.ty) : st.data[j] \in Byte
  BY StatementWrites
<1>5. /\ mem \in [Addrs -> Byte] /\ dark \subseteq Addrs
      /\ \A a \in Addrs \ (Targets(st) \cup dark) : image[a] = mem[a]
  BY <1>2 DEF IInv, MemInv
<1>6. /\ mem' \in [Addrs -> Byte]
      /\ \A a \in Targets(st) : mem'[a] = st.data[a - st.addr + 1]
      /\ \A a \in Addrs \ Targets(st) : mem'[a] = mem[a]
  <2>1. mem' = Written(mem, st.addr, st.data, Width(st.ty))
    BY <1>0, <1>3
  <2>2. /\ mem' \in [Addrs -> Byte]
        /\ \A b \in Addrs : b \in Targets(st) => mem'[b] = st.data[b - st.addr + 1]
        /\ \A b \in Addrs : b \notin Targets(st) => mem'[b] = mem[b]
    BY <1>4, <1>5, <2>1, WrittenBytes
  <2>. QED BY <1>4, <2>2
<1>9. \A a \in Addrs \ dark' : image[a] = mem'[a]
  <2>1. CASE Calls(st) = << >>
    <3>1. dark' = dark \cup Targets(st)
      BY <1>13, <2>1
    <3>. QED BY <1>5, <1>6, <3>1
  <2>2. CASE Calls(st) # << >>
    <3>1. dark' = dark \ Targets(st)
      BY <1>13, <2>2
    <3>2. \A a \in Targets(st) : image[a] = st.data[a - st.addr + 1]
      BY <1>2, <2>2 DEF Read
    <3>. QED BY <1>5, <1>6, <3>1, <3>2
  <2>. QED BY <2>1, <2>2
<1>10. dark' \subseteq Addrs
  BY <1>4, <1>5, <1>13
<1>11. CodeInv'
  <2>1. /\ Tail(code) \in Seq(Insn) /\ Len(code') = Len(Tail(code))
        /\ \A i \in 1 .. Len(code') : \E x \in Stmts : code'[i] = WireStatement(x)
    BY <1>0, <1>2, CodeTail DEF IInv
  <2>2. code' \in Seq(Insn)
    BY <1>0, <1>2, <2>1
  <2>3. (code' # << >> => 1 \in 1 .. Len(code')) /\ \A i \in 2 .. Len(code') : i \in 1 .. Len(code')
    BY <2>2
  <2>. QED BY <2>1, <2>2, <2>3 DEF CodeInv
<1>12. MemInv'
  <2>1. \A a \in Addrs \ (InFlight' \cup dark') : image'[a] = mem'[a]
    BY <1>1, <1>9
  <2>. QED BY <1>1, <1>6, <1>10, <2>1 DEF IInv, MemInv
<1>. QED BY <1>11, <1>12 DEF IInv

\* The statement faults and the instruction is run again.
LEMMA RetryStep ==
    ASSUME ReportsScalars, IInv, FaultAndRetry PROVE IInv'
<1>1. code # << >> /\ Op.op = "stmt" /\ code' = <<WireStatement(Op.stmt)>> \o Tail(code)
      /\ bad' \subseteq bad /\ UNCHANGED <<mem, image, running, dark, fetched>>
  BY DEF FaultAndRetry, AtStatement
<1>2. PICK st \in Stmts : InFlight = Targets(st) /\ Op = Exec(st)
  <2>1. \A x : Line(x).op # "stmt"
    BY DEF Call, Line
  <2>. QED BY <1>1, <2>1, HeadCases, Zenon DEF IInv
<1>3. Op.stmt = st
  BY <1>2 DEF Exec
<1>4. WireStatement(st) \in Insn
  BY DEF Insn
<1>5. /\ code' \in Seq(Insn) /\ Len(code') = Len(code) /\ code' # << >> /\ code'[1] = WireStatement(st)
      /\ \A i \in 2 .. Len(code) : code'[i] = code[i]
  BY <1>1, <1>3, <1>4, NewHead DEF IInv, CodeInv
<1>6. CodeInv'
  BY <1>5 DEF IInv, CodeInv
<1>7. Targets(st) \subseteq InFlight'
  <2>. DEFINE h == code'[1]
  <2>1. PICK i \in DOMAIN h : h[i] = Exec(st)
    <3>1. CASE Calls(st) = << >>
      <4>1. h = <<Exec(st)>>
        BY <1>5, <3>1, StatementShape, Zenon
      <4>. QED BY <4>1
    <3>2. CASE Calls(st) # << >>
      <4>1. h = <<Line(st), Exec(st)>>
        BY <1>5, <3>2, StatementShape
      <4>. QED BY <4>1
    <3>. QED BY <3>1, <3>2
  <2>2. Head(code') = h
    BY <1>5
  <2>3. Exec(st).op = "stmt" /\ Exec(st).stmt = st
    BY DEF Exec
  <2>4. InFlight' = UNION {Targets(h[j].stmt) : j \in {k \in DOMAIN h : h[k].op = "stmt"}}
    BY <1>5, <2>2, InFlightNext
  <2>. HIDE DEF h
  <2>. QED BY <2>1, <2>3, <2>4
<1>8. MemInv'
  <2>2. \A a \in Addrs \ (InFlight' \cup dark) : image'[a] = mem[a]
    BY <1>1, <1>2, <1>7 DEF IInv, MemInv
  <2>. QED BY <1>1, <2>2 DEF IInv, MemInv
<1>. QED BY <1>6, <1>8 DEF IInv

\* Steps that change neither code nor memory nor log.
LEMMA DieStep ==
    ASSUME IInv, UNCHANGED <<code, mem, image, bad, dark, fetched>>, running' \in BOOLEAN PROVE IInv'
<1>1. InFlight' = InFlight
  BY DEF InFlight, Targets
<1>2. \A st : Read(st)' = Read(st)
  BY DEF Read, Targets
<1>3. CodeInv'
  BY <1>2 DEF IInv, CodeInv
<1>. QED BY <1>1, <1>3 DEF IInv, MemInv

\* Every step keeps the invariant.
LEMMA InvStep ==
    ASSUME ReportsScalars PROVE IInv /\ [Next]_vars => IInv'
<1>. SUFFICES ASSUME IInv, [Next]_vars PROVE IInv'
  OBVIOUS
<1>1. ASSUME NEW sb \in Superblocks, Fetch(sb) PROVE IInv'
  BY <1>1, FetchStep
<1>2. CASE FaultAndDie
  BY <1>2, DieStep, Zenon DEF FaultAndDie
<1>3. CASE UNCHANGED vars
  BY <1>3, DieStep DEF vars, IInv, MemInv
<1>. QED BY <1>1, <1>2, <1>3, LogStep, ExecuteStep, RetryStep DEF Next

\* A reader of the log who knows the width of each store has the program's
\* memory, byte by byte, at every moment, but for the bytes in flight and those
\* last written by a statement wire_memlog skips, for every program whose
\* reported stores are scalar, of any widths and however they overlap.
THEOREM ReplayExact ==
    ASSUME ReportsScalars PROVE Spec => []ReplayGivesMemory
<1>1. Init => IInv
  BY InitInv
<1>2. IInv /\ [Next]_vars => IInv'
  BY InvStep
<1>3. IInv => ReplayGivesMemory
  <2>. SUFFICES ASSUME IInv PROVE ReplayGivesMemory
    OBVIOUS
  <2>1. \A i \in DOMAIN code : \A j \in DOMAIN code[i] : code[i][j].op \in {"log_store", "stmt"}
    <3>. SUFFICES ASSUME NEW i \in DOMAIN code, NEW j \in DOMAIN code[i]
                  PROVE  code[i][j].op \in {"log_store", "stmt"}
      OBVIOUS
    <3>1. PICK st \in Stmts : code[i] = WireStatement(st) \/ code[i] = <<Exec(st)>>
      BY DEF IInv, CodeInv, Insn
    <3>2. code[i] = <<Exec(st)>> \/ code[i] = <<Line(st), Exec(st)>>
      BY <3>1, StatementShape, Zenon
    <3>3. Exec(st).op = "stmt" /\ Line(st).op = "log_store"
      BY DEF Exec, Call, Line
    <3>. QED BY <3>2, <3>3
  <2>2. TypeOK
    BY <2>1 DEF IInv, MemInv, TypeOK
  <2>. QED BY <2>2, SMTT(30) DEF IInv, MemInv, ReplayGivesMemory
<1>. QED BY <1>1, <1>2, <1>3, PTL DEF Spec
=============================================================================
