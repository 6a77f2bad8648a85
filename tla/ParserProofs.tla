---------------------------- MODULE ParserProofs ----------------------------
(***************************************************************************)
(* What tools/parser.py promises on every log the tool can write, for any  *)
(* set of blocks and stores and any number of open files: it never meets a *)
(* store outside the live allocations, and its lists stay in step.         *)
(***************************************************************************)
EXTENDS Parser, SequenceTheorems, FiniteSetTheorems, WellFoundedInduction, TLAPS

Id == Starts \X Nat \X Nat
Event == [type : {"ALLOC", "FREE", "STORE"}, addr : Nat, arg : Nat]

Distinct(s) == \A i, j \in DOMAIN s : s[i] = s[j] => i = j
Sorted(s) == \A i, j \in DOMAIN s : i < j => Start(s[i]) <= Start(s[j])
At(a) == {id \in Range(liveList) : Start(id) = a}

\* Event j of trace t opens a block that holds address a.
Opens(t, j, a) == t[j].type = "ALLOC" /\ t[j].addr <= a /\ a < t[j].addr + t[j].arg

\* Event k closes a block at the address of event j.
Closes(t, k, j) == t[k].type = "FREE" /\ t[k].addr = t[j].addr

\* No event after j up to n closes a block at its address.
Stays(t, j, n) == \A k \in j + 1 .. n : ~ Closes(t, k, j)

\* A store event lies in a block that an event before it opens, with no FREE
\* at its address in between.
TraceOK(t) ==
    /\ t \in Seq(Event)
    /\ \A i \in 1 .. Len(t) : t[i].type # "STORE" => t[i].addr \in Starts
    /\ \A i \in 1 .. Len(t) : t[i].type = "STORE" =>
           \E j \in 1 .. i - 1 : Opens(t, j, t[i].addr) /\ Stays(t, j, i - 1)

\* The live blocks are apart, and none has been closed since it was opened.
Apart(b, c) == b[1] + b[2] <= c[1] \/ c[1] + c[2] <= b[1]
LiveOK(l, t) ==
    /\ l \subseteq Blocks
    /\ \A b, c \in l : b # c => Apart(b, c)
    /\ \A b \in l : \E j \in 1 .. Len(t) : t[j] = E!AllocEvent(b) /\ Stays(t, j, Len(t))

TraceInv == TraceOK(trace) /\ LiveOK(live, trace)

\* A kill while the last event is printed leaves a line of it at least.
CutInv ==
    /\ cut \in Nat
    /\ status # "tracing" /\ trace # << >> => cut < Len(LinesOf(trace[Len(trace)]))

\* Where the reader is says which section it is inside.
ReaderInv ==
    /\ pos \in 1 .. Len(trace) + 1 /\ line \in 1 .. 4
    /\ IF pos <= Len(trace) THEN line <= Len(LinesOf(trace[pos])) ELSE line = 1
    /\ inside \in {"none", "alloc", "free"}
    /\ status = "parsing" =>
         /\ inside = IF line = 1 THEN "none"
                     ELSE IF trace[pos].type = "ALLOC" THEN "alloc" ELSE "free"
         /\ building # NoAlloc => building \in Range(liveList) /\ inside = "alloc"

\* The lists hold the same allocations, by start and by address; while the
\* leftovers are finalized they still agree in number.
ListInv ==
    /\ liveList \in Seq(Id) /\ Distinct(liveList)
    /\ stacks \in [Starts -> Seq(Id)] /\ usage \in [Starts -> Nat]
    /\ DOMAIN alloc = Range(liveList)
    /\ status \in {"tracing", "parsing"} =>
         /\ Sorted(liveList)
         /\ \A a \in Starts : Distinct(stacks[a]) /\ Range(stacks[a]) = At(a)
         /\ \A id \in Range(liveList) : id[3] <= usage[id[1]]
    /\ status \in {"finalizing", "done"} => \A a \in Starts : Len(stacks[a]) = Cardinality(At(a))
    /\ status = "done" => liveList = << >>

\* The handle cache: its open files are the ones with a buffer.
FilesOK(f) ==
    /\ f = [handles |-> f.handles, buf |-> f.buf, tmp |-> f.tmp]
    /\ f.handles \in Seq(Id) /\ Distinct(f.handles) /\ Len(f.handles) <= MaxOpen
    /\ DOMAIN f.buf = Range(f.handles)
    /\ Range(f.handles) \subseteq DOMAIN f.tmp

FilesInv == FilesOK(files) /\ Range(files.handles) \subseteq Range(liveList)

\* The header of event j has been read.
Seen(j) == j < pos \/ (j = pos /\ line > 2)

\* A block that was opened and not closed, as far as the log has been read,
\* is a live allocation of the parser.
CoverInv ==
    status = "parsing" =>
        \A j \in 1 .. Len(trace) :
            /\ Seen(j) /\ trace[j].type = "ALLOC"
            /\ \A k \in j + 1 .. Len(trace) : Seen(k) => ~ Closes(trace, k, j)
            => \E id \in Range(liveList) : id[1] = trace[j].addr /\ id[2] = trace[j].arg

\* The parser begins with nothing read and nothing live.
StatusInv ==
    /\ status \in {"tracing", "parsing", "finalizing", "done"}
    /\ status = "tracing" => pos = 1 /\ line = 1 /\ inside = "none" /\ building = NoAlloc /\ liveList = << >>
    /\ crashes \in 0 .. MaxCrashes

IInv ==
    /\ StatusInv /\ TraceInv /\ CutInv /\ ReaderInv /\ ListInv /\ FilesInv /\ CoverInv
-----------------------------------------------------------------------------
(* Sequences without repetition. *)

\* The order of the natural numbers is well-founded.
LEMMA LessWellFounded == IsWellFoundedOn({p \in Nat \X Nat : p[1] < p[2]}, Nat)
<1>1. OpToRel(<, Nat) = {p \in Nat \X Nat : p[1] < p[2]}
  BY Zenon DEF OpToRel
<1>. QED BY <1>1, NatLessThanWellFounded, Zenon

\* A set of natural numbers has a least one.
LEMMA LeastNat ==
    ASSUME NEW S \in SUBSET Nat, S # {}
    PROVE  \E n \in S : \A m \in S : n <= m
<1>1. PICK n \in S : \A m \in S : ~ (<<m, n>> \in {p \in Nat \X Nat : p[1] < p[2]})
  BY LessWellFounded, WFMin, Zenon
<1>2. \A m \in S : ~ (m < n)
  <2>. SUFFICES ASSUME NEW m \in S, m < n PROVE FALSE
    OBVIOUS
  <2>1. <<m, n>> \in Nat \X Nat /\ <<m, n>>[1] < <<m, n>>[2]
    OBVIOUS
  <2>. QED BY <1>1, <2>1, Zenon
<1>. QED BY <1>2

\* What is in a sequence has an index.
LEMMA RangeIndex ==
    ASSUME NEW S, NEW s \in Seq(S)
    PROVE  /\ DOMAIN s = 1 .. Len(s) /\ Len(s) \in Nat /\ Range(s) \subseteq S
           /\ \A x \in Range(s) : \E i \in 1 .. Len(s) : s[i] = x
           /\ \A i \in 1 .. Len(s) : s[i] \in Range(s)
BY DEF Range

\* A sequence without its i-th member.
LEMMA RemoveAtSeq ==
    ASSUME NEW S, NEW s \in Seq(S), NEW i \in 1 .. Len(s)
    PROVE  /\ RemoveAt(s, i) \in Seq(S)
           /\ Len(RemoveAt(s, i)) = Len(s) - 1
           /\ \A k \in 1 .. Len(s) - 1 : RemoveAt(s, i)[k] = IF k < i THEN s[k] ELSE s[k + 1]
<1>. DEFINE u == SubSeq(s, 1, i - 1)
            v == SubSeq(s, i + 1, Len(s))
<1>0. Len(s) \in Nat /\ \A k \in 1 .. Len(s) : s[k] \in S
  OBVIOUS
<1>1. u \in Seq(S) /\ Len(u) = i - 1 /\ \A k \in 1 .. i - 1 : u[k] = s[k]
  BY <1>0, SubSeqProperties
<1>2. v \in Seq(S) /\ Len(v) = Len(s) - i /\ \A k \in 1 .. Len(s) - i : v[k] = s[i + k]
  <2>1. \A k \in i + 1 .. Len(s) : s[k] \in S
    BY <1>0
  <2>2. /\ v \in Seq(S) /\ Len(v) = IF i + 1 <= Len(s) THEN Len(s) - (i + 1) + 1 ELSE 0
        /\ \A k \in 1 .. Len(s) - (i + 1) + 1 : v[k] = s[(i + 1) + k - 1]
    BY <1>0, <2>1, SubSeqProperties
  <2>. QED BY <1>0, <2>2
<1>. HIDE DEF u, v
<1>3. /\ u \o v \in Seq(S) /\ Len(u \o v) = Len(u) + Len(v)
      /\ \A k \in 1 .. Len(u) + Len(v) : (u \o v)[k] = IF k <= Len(u) THEN u[k] ELSE v[k - Len(u)]
  BY <1>1, <1>2, ConcatProperties, Zenon
<1>4. RemoveAt(s, i) = u \o v
  BY DEF RemoveAt, u, v
<1>5. Len(u) + Len(v) = Len(s) - 1
  BY <1>0, <1>1, <1>2
<1>6. \A k \in 1 .. Len(s) - 1 : (u \o v)[k] = IF k < i THEN s[k] ELSE s[k + 1]
  <2>. SUFFICES ASSUME NEW k \in 1 .. Len(s) - 1
                PROVE  (u \o v)[k] = IF k < i THEN s[k] ELSE s[k + 1]
    BY Zenon
  <2>1. (u \o v)[k] = IF k <= i - 1 THEN u[k] ELSE v[k - (i - 1)]
    BY <1>0, <1>1, <1>3, <1>5
  <2>2. CASE k < i
    BY <1>1, <2>1, <2>2
  <2>3. CASE ~ (k < i)
    <3>1. k - (i - 1) \in 1 .. Len(s) - i /\ i + (k - (i - 1)) = k + 1
      BY <1>0, <2>3
    <3>. QED BY <1>2, <2>1, <2>3, <3>1
  <2>. QED BY <2>2, <2>3, Zenon
<1>. QED BY <1>3, <1>4, <1>5, <1>6

\* A sequence with a member put before its i-th one.
LEMMA InsertAtSeq ==
    ASSUME NEW S, NEW s \in Seq(S), NEW i \in 1 .. Len(s) + 1, NEW x \in S
    PROVE  /\ InsertAt(s, i, x) \in Seq(S)
           /\ Len(InsertAt(s, i, x)) = Len(s) + 1
           /\ \A k \in 1 .. Len(s) + 1 :
                 InsertAt(s, i, x)[k] = IF k < i THEN s[k] ELSE IF k = i THEN x ELSE s[k - 1]
<1>. DEFINE u == SubSeq(s, 1, i - 1)
            v == SubSeq(s, i, Len(s))
<1>0. Len(s) \in Nat /\ \A k \in 1 .. Len(s) : s[k] \in S
  OBVIOUS
<1>1. u \in Seq(S) /\ Len(u) = i - 1 /\ \A k \in 1 .. i - 1 : u[k] = s[k]
  BY <1>0, SubSeqProperties
<1>2. v \in Seq(S) /\ Len(v) = Len(s) - i + 1 /\ \A k \in 1 .. Len(s) - i + 1 : v[k] = s[i + k - 1]
  <2>1. \A k \in i .. Len(s) : s[k] \in S
    BY <1>0
  <2>2. /\ v \in Seq(S) /\ Len(v) = IF i <= Len(s) THEN Len(s) - i + 1 ELSE 0
        /\ \A k \in 1 .. Len(s) - i + 1 : v[k] = s[i + k - 1]
    BY <1>0, <2>1, SubSeqProperties
  <2>. QED BY <1>0, <2>2
<1>. HIDE DEF u, v
<1>3. /\ u \o <<x>> \in Seq(S) /\ Len(u \o <<x>>) = i
      /\ \A k \in 1 .. i : (u \o <<x>>)[k] = IF k < i THEN s[k] ELSE x
  BY <1>1
<1>. DEFINE w == u \o <<x>>
<1>4. w \in Seq(S) /\ Len(w) = i /\ \A k \in 1 .. i : w[k] = IF k < i THEN s[k] ELSE x
  BY <1>3
<1>. HIDE DEF w
<1>5. /\ w \o v \in Seq(S) /\ Len(w \o v) = Len(w) + Len(v)
      /\ \A k \in 1 .. Len(w) + Len(v) : (w \o v)[k] = IF k <= Len(w) THEN w[k] ELSE v[k - Len(w)]
  BY <1>2, <1>4, ConcatProperties
<1>6. InsertAt(s, i, x) = w \o v
  BY DEF InsertAt, u, v, w
<1>7. Len(w) = i /\ Len(w) + Len(v) = Len(s) + 1 /\ \A k \in 1 .. i : w[k] = IF k < i THEN s[k] ELSE x
  BY <1>0, <1>2, <1>4
<1>8. \A k \in 1 .. Len(s) + 1 : (w \o v)[k] = IF k < i THEN s[k] ELSE IF k = i THEN x ELSE s[k - 1]
  <2>. SUFFICES ASSUME NEW k \in 1 .. Len(s) + 1
                PROVE  (w \o v)[k] = IF k < i THEN s[k] ELSE IF k = i THEN x ELSE s[k - 1]
    BY Zenon
  <2>1. (w \o v)[k] = IF k <= i THEN w[k] ELSE v[k - i]
    BY <1>0, <1>5, <1>7
  <2>2. CASE k <= i
    BY <1>7, <2>1, <2>2
  <2>3. CASE ~ (k <= i)
    <3>1. k - i \in 1 .. Len(s) - i + 1 /\ i + (k - i) - 1 = k - 1
      BY <1>0, <2>3
    <3>. QED BY <1>2, <2>1, <2>3, <3>1, SMTT(30)
  <2>. QED BY <2>2, <2>3, Zenon
<1>. QED BY <1>5, <1>6, <1>7, <1>8

\* A member of a sequence without repetition is removed.
LEMMA RemoveFromSeq ==
    ASSUME NEW S, NEW s \in Seq(S), Distinct(s), NEW x \in Range(s)
    PROVE  /\ RemoveFrom(s, x) \in Seq(S) /\ Distinct(RemoveFrom(s, x))
           /\ Range(RemoveFrom(s, x)) = Range(s) \ {x}
           /\ Len(RemoveFrom(s, x)) = Len(s) - 1
<1>1. DOMAIN s = 1 .. Len(s) /\ Len(s) \in Nat
  BY RangeIndex
<1>2. PICK i \in 1 .. Len(s) : s[i] = x /\ RemoveFrom(s, x) = RemoveAt(s, i)
  <2>1. \E i \in DOMAIN s : s[i] = x
    BY DEF Range
  <2>2. PICK i : i = CHOOSE j \in DOMAIN s : s[j] = x
    OBVIOUS
  <2>3. i \in DOMAIN s /\ s[i] = x
    BY <2>1, <2>2
  <2>. QED BY <1>1, <2>2, <2>3, Zenon DEF RemoveFrom
<1>. DEFINE r == RemoveAt(s, i)
<1>3. /\ r \in Seq(S) /\ Len(r) = Len(s) - 1 /\ DOMAIN r = 1 .. Len(s) - 1
      /\ \A k \in 1 .. Len(s) - 1 : r[k] = IF k < i THEN s[k] ELSE s[k + 1]
  <2>1. /\ r \in Seq(S) /\ Len(r) = Len(s) - 1
        /\ \A k \in 1 .. Len(s) - 1 : r[k] = IF k < i THEN s[k] ELSE s[k + 1]
    BY RemoveAtSeq, Zenon
  <2>. HIDE DEF r
  <2>. QED BY <2>1
<1>. HIDE DEF r
<1>4. Distinct(r)
  <2>. SUFFICES ASSUME NEW j \in 1 .. Len(s) - 1, NEW k \in 1 .. Len(s) - 1, r[j] = r[k] PROVE j = k
    BY <1>3 DEF Distinct
  <2>. DEFINE up(n) == IF n < i THEN n ELSE n + 1
  <2>1. s[up(j)] = s[up(k)] /\ up(j) \in 1 .. Len(s) /\ up(k) \in 1 .. Len(s)
    BY <1>1, <1>3
  <2>2. up(j) = up(k)
    BY <1>1, <2>1 DEF Distinct
  <2>. QED BY <2>2
<1>5. Range(r) \subseteq Range(s) \ {x}
  <2>. SUFFICES ASSUME NEW k \in 1 .. Len(s) - 1 PROVE r[k] \in Range(s) /\ r[k] # x
    BY <1>3 DEF Range
  <2>. DEFINE m == IF k < i THEN k ELSE k + 1
  <2>1. r[k] = s[m] /\ m \in 1 .. Len(s) /\ m # i
    BY <1>1, <1>3
  <2>. QED BY <1>1, <1>2, <2>1 DEF Distinct, Range
<1>6. Range(s) \ {x} \subseteq Range(r)
  <2>. SUFFICES ASSUME NEW y \in Range(s), y # x PROVE \E k \in 1 .. Len(s) - 1 : r[k] = y
    BY <1>3, Zenon DEF Range
  <2>0. PICK m \in 1 .. Len(s) : s[m] = y
    BY RangeIndex
  <2>1. m # i
    BY <1>2, <2>0
  <2>2. CASE m < i
    BY <1>1, <1>3, <2>0, <2>2, SMTT(30)
  <2>3. CASE m > i
    <3>1. m - 1 \in 1 .. Len(s) - 1 /\ ~ (m - 1 < i) /\ (m - 1) + 1 = m
      BY <1>1, <2>3
    <3>. QED BY <1>3, <2>0, <3>1, Zenon
  <2>. QED BY <1>1, <2>1, <2>2, <2>3, SMTT(30)
<1>. QED BY <1>2, <1>3, <1>4, <1>5, <1>6, SMTT(30) DEF r

\* Removing a member keeps the order by start.
LEMMA RemoveSorted ==
    ASSUME NEW S, NEW s \in Seq(S), Sorted(s), NEW x \in Range(s)
    PROVE  Sorted(RemoveFrom(s, x))
<1>1. DOMAIN s = 1 .. Len(s) /\ Len(s) \in Nat
  BY RangeIndex
<1>2. PICK i \in 1 .. Len(s) : RemoveFrom(s, x) = RemoveAt(s, i)
  <2>1. \E i \in DOMAIN s : s[i] = x
    BY DEF Range
  <2>2. PICK i : i = CHOOSE j \in DOMAIN s : s[j] = x
    OBVIOUS
  <2>3. i \in DOMAIN s
    BY <2>1, <2>2
  <2>. QED BY <1>1, <2>2, <2>3, Zenon DEF RemoveFrom
<1>. DEFINE r == RemoveAt(s, i)
<1>3. /\ r \in Seq(S) /\ DOMAIN r = 1 .. Len(s) - 1
      /\ \A k \in 1 .. Len(s) - 1 : r[k] = IF k < i THEN s[k] ELSE s[k + 1]
  BY RemoveAtSeq
<1>. HIDE DEF r
<1>4. Sorted(r)
  <2>. SUFFICES ASSUME NEW j \in 1 .. Len(s) - 1, NEW k \in 1 .. Len(s) - 1, j < k
                PROVE  Start(r[j]) <= Start(r[k])
    BY <1>3 DEF Sorted
  <2>. DEFINE up(n) == IF n < i THEN n ELSE n + 1
  <2>1. r[j] = s[up(j)] /\ r[k] = s[up(k)] /\ up(j) \in 1 .. Len(s) /\ up(k) \in 1 .. Len(s)
    BY <1>1, <1>3
  <2>2. up(j) < up(k)
    OBVIOUS
  <2>. HIDE DEF up
  <2>. QED BY <1>1, <2>1, <2>2 DEF Sorted
<1>. QED BY <1>2, <1>4 DEF r

\* A new member is put into a sequence without repetition.
LEMMA InsertDistinct ==
    ASSUME NEW S, NEW s \in Seq(S), Distinct(s), NEW i \in 1 .. Len(s) + 1, NEW x \in S, x \notin Range(s)
    PROVE  Distinct(InsertAt(s, i, x)) /\ Range(InsertAt(s, i, x)) = Range(s) \cup {x}
<1>1. DOMAIN s = 1 .. Len(s) /\ Len(s) \in Nat
  BY RangeIndex
<1>. DEFINE r == InsertAt(s, i, x)
<1>2. /\ DOMAIN r = 1 .. Len(s) + 1
      /\ \A k \in 1 .. Len(s) + 1 : r[k] = IF k < i THEN s[k] ELSE IF k = i THEN x ELSE s[k - 1]
  BY InsertAtSeq
<1>. HIDE DEF r
<1>3. \A k \in 1 .. Len(s) + 1 : k # i => r[k] \in Range(s)
  <2>. SUFFICES ASSUME NEW k \in 1 .. Len(s) + 1, k # i PROVE r[k] \in Range(s)
    OBVIOUS
  <2>. DEFINE m == IF k < i THEN k ELSE k - 1
  <2>1. m \in 1 .. Len(s) /\ r[k] = s[m]
    BY <1>1, <1>2
  <2>. QED BY <2>1, RangeIndex, Zenon
<1>4. Distinct(r)
  <2>. SUFFICES ASSUME NEW j \in 1 .. Len(s) + 1, NEW k \in 1 .. Len(s) + 1, r[j] = r[k] PROVE j = k
    BY <1>2 DEF Distinct
  <2>1. CASE j = i \/ k = i
    BY <1>2, <1>3, <2>1
  <2>2. CASE j # i /\ k # i
    <3>. DEFINE down(n) == IF n < i THEN n ELSE n - 1
    <3>1. s[down(j)] = s[down(k)] /\ down(j) \in 1 .. Len(s) /\ down(k) \in 1 .. Len(s)
      BY <1>1, <1>2, <2>2
    <3>2. down(j) = down(k)
      BY <1>1, <3>1 DEF Distinct
    <3>. QED BY <2>2, <3>2
  <2>. QED BY <2>1, <2>2
<1>5. Range(s) \cup {x} \subseteq Range(r)
  <2>1. x \in Range(r)
    BY <1>1, <1>2 DEF Range
  <2>2. ASSUME NEW m \in 1 .. Len(s) PROVE s[m] \in Range(r)
    <3>. DEFINE k == IF m < i THEN m ELSE m + 1
    <3>1. k \in 1 .. Len(s) + 1 /\ r[k] = s[m]
      BY <1>1, <1>2
    <3>. QED BY <1>2, <3>1 DEF Range
  <2>. QED BY <1>1, <2>1, <2>2 DEF Range
<1>6. Range(r) \subseteq Range(s) \cup {x}
  BY <1>2, <1>3 DEF Range
<1>. QED BY <1>4, <1>5, <1>6 DEF r

\* A new member is put at the end, or the last one is taken away.
LEMMA AppendDistinct ==
    ASSUME NEW S, NEW s \in Seq(S), Distinct(s), NEW x \in S, x \notin Range(s)
    PROVE  /\ Append(s, x) \in Seq(S) /\ Distinct(Append(s, x))
           /\ Range(Append(s, x)) = Range(s) \cup {x} /\ Len(Append(s, x)) = Len(s) + 1
<1>1. DOMAIN s = 1 .. Len(s) /\ Len(s) \in Nat
  BY RangeIndex
<1>. DEFINE r == Append(s, x)
<1>2. /\ r \in Seq(S) /\ DOMAIN r = 1 .. Len(s) + 1 /\ Len(r) = Len(s) + 1
      /\ \A k \in 1 .. Len(s) + 1 : r[k] = IF k <= Len(s) THEN s[k] ELSE x
  BY <1>1
<1>. HIDE DEF r
<1>3. Distinct(r)
  BY <1>1, <1>2 DEF Distinct, Range
<1>4. Range(r) = Range(s) \cup {x}
  <2>1. \A k \in 1 .. Len(s) : r[k] = s[k]
    BY <1>1, <1>2
  <2>2. r[Len(s) + 1] = x /\ Len(s) + 1 \in 1 .. Len(s) + 1
    BY <1>1, <1>2
  <2>3. 1 .. Len(s) + 1 = (1 .. Len(s)) \cup {Len(s) + 1}
    BY <1>1
  <2>. QED BY <1>1, <1>2, <2>1, <2>2, <2>3, SMTT(30) DEF Range
<1>. QED BY <1>2, <1>3, <1>4 DEF r

\* Dropping the last element keeps a sequence free of repetition.
LEMMA FrontDistinct ==
    ASSUME NEW S, NEW s \in Seq(S), Distinct(s), s # << >>
    PROVE  /\ Last(s) \in Range(s) /\ Front(s) \in Seq(S) /\ Distinct(Front(s))
           /\ Range(Front(s)) = Range(s) \ {Last(s)}
<1>1. DOMAIN s = 1 .. Len(s) /\ Len(s) \in Nat /\ Len(s) # 0 /\ \A k \in 1 .. Len(s) - 1 : s[k] \in S
  BY RangeIndex
<1>. DEFINE r == Front(s)
<1>2. r \in Seq(S) /\ Len(r) = Len(s) - 1 /\ \A k \in 1 .. Len(s) - 1 : r[k] = s[k]
  <2>1. /\ SubSeq(s, 1, Len(s) - 1) \in Seq(S)
        /\ Len(SubSeq(s, 1, Len(s) - 1)) = IF 1 <= Len(s) - 1 THEN (Len(s) - 1) - 1 + 1 ELSE 0
        /\ \A k \in 1 .. (Len(s) - 1) - 1 + 1 : SubSeq(s, 1, Len(s) - 1)[k] = s[1 + k - 1]
    BY <1>1, SubSeqProperties
  <2>. QED BY <1>1, <2>1 DEF Front
<1>3. DOMAIN r = 1 .. Len(s) - 1
  BY <1>2
<1>. HIDE DEF r
<1>4. Distinct(r)
  BY <1>1, <1>2, <1>3 DEF Distinct
<1>5. Range(r) = {s[k] : k \in 1 .. Len(s) - 1}
  BY <1>2, <1>3 DEF Range
<1>6. {s[k] : k \in 1 .. Len(s) - 1} = Range(s) \ {s[Len(s)]}
  BY <1>1 DEF Range, Distinct
<1>7. Last(s) = s[Len(s)] /\ s[Len(s)] \in Range(s)
  BY <1>1 DEF Last, Range
<1>. QED BY <1>2, <1>4, <1>5, <1>6, <1>7, SMTT(30) DEF r

\* Blocks start at natural numbers.
LEMMA StartsNat == Starts \subseteq Nat /\ \A id \in Id : Start(id) \in Starts /\ id[3] \in Nat
BY ParserConstantsOK DEF Starts, Id, Start

\* A set of indexes that has every index below one of its own is an interval.
LEMMA PrefixCard ==
    ASSUME NEW n \in Nat, NEW P \in SUBSET (1 .. n),
           \A i, j \in 1 .. n : i < j /\ j \in P => i \in P
    PROVE  Cardinality(P) \in 0 .. n /\ P = 1 .. Cardinality(P)
<1>. DEFINE S == {k \in Nat : k + 1 \notin P}
<1>1. n \in S
  OBVIOUS
<1>2. PICK m \in S : \A k \in S : m <= k
  <2>1. S \in SUBSET Nat /\ S # {}
    BY <1>1
  <2>. HIDE DEF S
  <2>. QED BY <2>1, LeastNat
<1>3. m \in Nat /\ m <= n /\ m + 1 \notin P
  BY <1>1, <1>2
<1>4. ASSUME NEW i \in 1 .. m PROVE i \in P
  <2>1. i - 1 \in Nat /\ ~ (m <= i - 1) /\ (i - 1) + 1 = i
    BY <1>3
  <2>. QED BY <1>2, <2>1
<1>5. ASSUME NEW j \in P PROVE j \in 1 .. m
  <2>1. CASE j > m + 1
    <3>1. m + 1 \in 1 .. n /\ m + 1 < j /\ j \in 1 .. n
      BY <1>3, <2>1
    <3>. QED BY <1>3, <3>1
  <2>. QED BY <1>3, <2>1
<1>6. P = 1 .. m
  BY <1>4, <1>5, Zenon
<1>7. Cardinality(1 .. m) = m
  BY <1>3, FS_Interval
<1>. QED BY <1>3, <1>6, <1>7

\* The place that bisect_left finds: what starts before x is before it.
LEMMA BisectLeft ==
    ASSUME NEW s \in Seq(Id), Sorted(s), NEW x \in Id, NEW i,
           i = Cardinality({j \in DOMAIN s : Start(s[j]) < Start(x)}) + 1
    PROVE  /\ i \in 1 .. Len(s) + 1
           /\ \A j \in 1 .. Len(s) :
                 IF j < i THEN Start(s[j]) < Start(x) ELSE Start(x) <= Start(s[j])
<1>. DEFINE P == {j \in DOMAIN s : Start(s[j]) < Start(x)}
<1>1. DOMAIN s = 1 .. Len(s) /\ Len(s) \in Nat /\ Start(x) \in Nat /\ \A j \in 1 .. Len(s) : Start(s[j]) \in Nat
  <2>1. DOMAIN s = 1 .. Len(s) /\ Len(s) \in Nat /\ \A j \in 1 .. Len(s) : s[j] \in Id
    BY RangeIndex
  <2>. QED BY <2>1, StartsNat, Zenon
<1>2. P \in SUBSET (1 .. Len(s)) /\ \A j, k \in 1 .. Len(s) : j < k /\ k \in P => j \in P
  BY <1>1, SMTT(30) DEF Sorted
<1>3. Cardinality(P) \in 0 .. Len(s) /\ P = 1 .. Cardinality(P)
  <2>. HIDE DEF P
  <2>. QED BY <1>1, <1>2, PrefixCard, Zenon
<1>4. i = Cardinality(P) + 1
  OBVIOUS
<1>5. i \in 1 .. Len(s) + 1 /\ P = 1 .. i - 1
  <2>. HIDE DEF P
  <2>. QED BY <1>1, <1>3, <1>4
<1>6. \A j \in 1 .. Len(s) : IF j < i THEN Start(s[j]) < Start(x) ELSE Start(x) <= Start(s[j])
  <2>. SUFFICES ASSUME NEW j \in 1 .. Len(s)
                PROVE  IF j < i THEN Start(s[j]) < Start(x) ELSE Start(x) <= Start(s[j])
    OBVIOUS
  <2>1. j \in P <=> Start(s[j]) < Start(x)
    BY <1>1
  <2>. HIDE DEF P
  <2>2. j \in P <=> j < i
    BY <1>1, <1>5
  <2>. QED BY <1>1, <2>1, <2>2
<1>. QED BY <1>5, <1>6

\* A member put there keeps the list sorted.
LEMMA InsertSorted ==
    ASSUME NEW S, \A y \in S : Start(y) \in Nat, NEW s \in Seq(S), Sorted(s), NEW x \in S, NEW i \in 1 .. Len(s) + 1,
           \A j \in 1 .. Len(s) : IF j < i THEN Start(s[j]) < Start(x) ELSE Start(x) <= Start(s[j])
    PROVE  Sorted(InsertAt(s, i, x))
<1>1. DOMAIN s = 1 .. Len(s) /\ Len(s) \in Nat /\ Start(x) \in Nat /\ \A j \in 1 .. Len(s) : Start(s[j]) \in Nat
  <2>1. DOMAIN s = 1 .. Len(s) /\ Len(s) \in Nat /\ \A j \in 1 .. Len(s) : s[j] \in S
    BY RangeIndex
  <2>. QED BY <2>1, Zenon
<1>. DEFINE r == InsertAt(s, i, x)
<1>2. /\ DOMAIN r = 1 .. Len(s) + 1
      /\ \A k \in 1 .. Len(s) + 1 : r[k] = IF k < i THEN s[k] ELSE IF k = i THEN x ELSE s[k - 1]
  <2>1. /\ r \in Seq(S) /\ Len(r) = Len(s) + 1
        /\ \A k \in 1 .. Len(s) + 1 : r[k] = IF k < i THEN s[k] ELSE IF k = i THEN x ELSE s[k - 1]
    BY InsertAtSeq
  <2>. HIDE DEF r
  <2>. QED BY <2>1
<1>. HIDE DEF r
<1>3. Sorted(r)
  <2>. SUFFICES ASSUME NEW j \in 1 .. Len(s) + 1, NEW k \in 1 .. Len(s) + 1, j < k
                PROVE  Start(r[j]) <= Start(r[k])
    BY <1>2 DEF Sorted
  <2>1. CASE k < i \/ i < j
    <3>. DEFINE down(n) == IF n < i THEN n ELSE n - 1
    <3>1. /\ r[j] = s[down(j)] /\ r[k] = s[down(k)] /\ down(j) < down(k)
          /\ down(j) \in 1 .. Len(s) /\ down(k) \in 1 .. Len(s)
      BY <1>1, <1>2, <2>1
    <3>. HIDE DEF down
    <3>. QED BY <1>1, <3>1 DEF Sorted
  <2>2. CASE k = i
    <3>1. r[k] = x /\ r[j] = s[j] /\ j \in 1 .. Len(s)
      BY <1>1, <1>2, <2>2, SMTT(30)
    <3>. QED BY <1>1, <2>2, <3>1, SMTT(30)
  <2>3. CASE j = i
    <3>1. r[j] = x /\ r[k] = s[k - 1] /\ k - 1 \in 1 .. Len(s) /\ ~ (k - 1 < i)
      BY <1>1, <1>2, <2>3
    <3>. QED BY <3>1
  <2>4. CASE j < i /\ i < k
    <3>1. r[j] = s[j] /\ j \in 1 .. Len(s) /\ r[k] = s[k - 1] /\ k - 1 \in 1 .. Len(s) /\ ~ (k - 1 < i)
      BY <1>1, <1>2, <2>4
    <3>. QED BY <1>1, <2>4, <3>1
  <2>. QED BY <2>1, <2>2, <2>3, <2>4, SMTT(30)
<1>. QED BY <1>3 DEF r

-----------------------------------------------------------------------------
(* The file cache. *)

\* close_path
LEMMA ClosePathOK ==
    ASSUME NEW f, FilesOK(f), NEW p
    PROVE  /\ FilesOK(ClosePath(f, p))
           /\ Range(ClosePath(f, p).handles) = Range(f.handles) \ {p}
           /\ p \in Range(f.handles) => Len(ClosePath(f, p).handles) = Len(f.handles) - 1
           /\ DOMAIN ClosePath(f, p).tmp = DOMAIN f.tmp
<1>1. /\ f.handles \in Seq(Id) /\ Distinct(f.handles) /\ Len(f.handles) <= MaxOpen
      /\ Len(f.handles) \in Nat /\ MaxOpen \in Nat
      /\ DOMAIN f.buf = Range(f.handles) /\ Range(f.handles) \subseteq DOMAIN f.tmp
  BY ParserConstantsOK DEF FilesOK
<1>3. CASE p \notin Range(f.handles)
  <2>1. ClosePath(f, p) = f
    BY <1>3, Zenon DEF ClosePath
  <2>. QED BY <1>3, <2>1
<1>4. CASE p \in Range(f.handles)
  <2>. DEFINE h == RemoveFrom(f.handles, p)
              b == Without(f.buf, p)
              t == [f.tmp EXCEPT ![p] = f.tmp[p] \o f.buf[p]]
  <2>1. ClosePath(f, p) = [handles |-> h, buf |-> b, tmp |-> t]
    BY <1>4, Zenon DEF ClosePath
  <2>2. h \in Seq(Id) /\ Distinct(h) /\ Range(h) = Range(f.handles) \ {p} /\ Len(h) = Len(f.handles) - 1
    BY <1>1, <1>4, RemoveFromSeq
  <2>3. DOMAIN b = Range(h) /\ DOMAIN t = DOMAIN f.tmp
    BY <1>1, <2>2 DEF Without
  <2>. HIDE DEF h, b, t
  <2>4. ClosePath(f, p).handles = h /\ ClosePath(f, p).buf = b /\ ClosePath(f, p).tmp = t
    BY <2>1
  <2>. QED BY <1>1, <1>4, <2>1, <2>2, <2>3, <2>4 DEF FilesOK
<1>. QED BY <1>3, <1>4

\* _evict_if_needed
LEMMA EvictOK ==
    ASSUME NEW f, FilesOK(f)
    PROVE  /\ FilesOK(EvictIfNeeded(f)) /\ Len(EvictIfNeeded(f).handles) < MaxOpen
           /\ Range(EvictIfNeeded(f).handles) \subseteq Range(f.handles)
<1>1. f.handles \in Seq(Id) /\ Len(f.handles) <= MaxOpen /\ Len(f.handles) \in Nat /\ MaxOpen \in Nat \ {0}
  BY ParserConstantsOK DEF FilesOK
<1>2. CASE Len(f.handles) < MaxOpen
  BY <1>2 DEF EvictIfNeeded
<1>3. CASE ~ (Len(f.handles) < MaxOpen)
  <2>1. EvictIfNeeded(f) = ClosePath(f, Head(f.handles))
    BY <1>3 DEF EvictIfNeeded
  <2>2. 1 \in 1 .. Len(f.handles) /\ Head(f.handles) = f.handles[1]
    BY <1>1, <1>3
  <2>3. Head(f.handles) \in Range(f.handles)
    BY <1>1, <2>2, RangeIndex
  <2>. QED BY <1>1, <2>1, <2>3, ClosePathOK, SMTT(30)
<1>. QED BY <1>2, <1>3

\* open(path, "a")
LEMMA OpenPathOK ==
    ASSUME NEW f, FilesOK(f), Len(f.handles) < MaxOpen, NEW p \in Id, p \notin Range(f.handles)
    PROVE  FilesOK(OpenPath(f, p)) /\ Range(OpenPath(f, p).handles) = Range(f.handles) \cup {p}
<1>1. /\ f.handles \in Seq(Id) /\ Distinct(f.handles) /\ Len(f.handles) \in Nat /\ MaxOpen \in Nat
      /\ DOMAIN f.buf = Range(f.handles) /\ Range(f.handles) \subseteq DOMAIN f.tmp
  BY ParserConstantsOK DEF FilesOK
<1>. DEFINE h == Append(f.handles, p)
            b == With(f.buf, p, <<>>)
            t == IF p \in DOMAIN f.tmp THEN f.tmp ELSE With(f.tmp, p, <<>>)
<1>2. h \in Seq(Id) /\ Distinct(h) /\ Range(h) = Range(f.handles) \cup {p} /\ Len(h) = Len(f.handles) + 1
  BY <1>1, AppendDistinct
<1>3. DOMAIN b = Range(h)
  BY <1>1, <1>2 DEF With
<1>4. DOMAIN t = DOMAIN f.tmp \cup {p}
  BY DEF With
<1>5. OpenPath(f, p) = [handles |-> h, buf |-> b, tmp |-> t]
  BY Zenon DEF OpenPath
<1>. HIDE DEF h, b, t
<1>6. OpenPath(f, p).handles = h /\ OpenPath(f, p).buf = b /\ OpenPath(f, p).tmp = t
  BY <1>5
<1>. QED BY <1>1, <1>2, <1>3, <1>4, <1>5, <1>6, SMTT(30) DEF FilesOK

\* write_line
LEMMA WriteLineOK ==
    ASSUME NEW f, FilesOK(f), NEW p \in Id, NEW l
    PROVE  /\ FilesOK(WriteLine(f, p, l))
           /\ Range(WriteLine(f, p, l).handles) \subseteq Range(f.handles) \cup {p}
<1>0. f.handles \in Seq(Id)
  BY DEF FilesOK
<1>. DEFINE g == IF p \in Range(f.handles)
                 THEN [f EXCEPT !.handles = Append(RemoveFrom(f.handles, p), p)]
                 ELSE OpenPath(EvictIfNeeded(f), p)
<1>2. FilesOK(g) /\ Range(g.handles) \subseteq Range(f.handles) \cup {p} /\ p \in Range(g.handles)
  <2>1. CASE p \in Range(f.handles)
    <3>. DEFINE r == RemoveFrom(f.handles, p)
                h == Append(r, p)
    <3>1. /\ f.handles \in Seq(Id) /\ Distinct(f.handles) /\ Len(f.handles) <= MaxOpen
          /\ Len(f.handles) \in Nat
      BY <1>0 DEF FilesOK
    <3>2. r \in Seq(Id) /\ Distinct(r) /\ Range(r) = Range(f.handles) \ {p} /\ Len(r) = Len(f.handles) - 1
      BY <2>1, <3>1, RemoveFromSeq
    <3>. HIDE DEF r
    <3>3. h \in Seq(Id) /\ Distinct(h) /\ Range(h) = Range(r) \cup {p} /\ Len(h) = Len(r) + 1
      BY <3>2, AppendDistinct
    <3>4. Range(h) = Range(f.handles) /\ Len(h) <= MaxOpen
      BY <2>1, <3>1, <3>2, <3>3, SMTT(30)
    <3>5. g = [f EXCEPT !.handles = h]
      BY <2>1 DEF r
    <3>. HIDE DEF h, g
    <3>6. g = [handles |-> h, buf |-> f.buf, tmp |-> f.tmp]
      BY <3>5 DEF FilesOK
    <3>7. g.handles = h /\ g.buf = f.buf /\ g.tmp = f.tmp
      BY <3>6
    <3>. QED BY <2>1, <3>3, <3>4, <3>6, <3>7, SMTT(30) DEF FilesOK
  <2>2. CASE p \notin Range(f.handles)
    <3>1. g = OpenPath(EvictIfNeeded(f), p)
      BY <2>2
    <3>2. /\ FilesOK(EvictIfNeeded(f)) /\ Len(EvictIfNeeded(f).handles) < MaxOpen
          /\ Range(EvictIfNeeded(f).handles) \subseteq Range(f.handles)
      BY EvictOK
    <3>. HIDE DEF g
    <3>. QED BY <2>2, <3>1, <3>2, OpenPathOK, SMTT(30)
  <2>. QED BY <2>1, <2>2
<1>3. WriteLine(f, p, l) = [g EXCEPT !.buf[p] = Append(g.buf[p], l)]
  BY DEF WriteLine
<1>. HIDE DEF g
<1>. DEFINE b == [g.buf EXCEPT ![p] = Append(g.buf[p], l)]
<1>4. g = [handles |-> g.handles, buf |-> g.buf, tmp |-> g.tmp] /\ DOMAIN g.buf = Range(g.handles)
  BY <1>2 DEF FilesOK
<1>5. DOMAIN b = Range(g.handles)
  BY <1>4
<1>6. WriteLine(f, p, l) = [g EXCEPT !.buf = b]
  BY <1>3
<1>. HIDE DEF b
<1>7. WriteLine(f, p, l) = [handles |-> g.handles, buf |-> b, tmp |-> g.tmp]
  BY <1>4, <1>6
<1>8. /\ WriteLine(f, p, l).handles = g.handles /\ WriteLine(f, p, l).buf = b
      /\ WriteLine(f, p, l).tmp = g.tmp
  BY <1>7
<1>. QED BY <1>2, <1>5, <1>7, <1>8, SMTT(30) DEF FilesOK

-----------------------------------------------------------------------------
(* The trace of the program. *)

\* Blocks and stores make events.
LEMMA EventTypes ==
    /\ \A b \in Blocks : /\ E!AllocEvent(b) \in Event /\ E!FreeEvent(b) \in Event
                         /\ b[1] \in Nat /\ b[2] \in Nat \ {0} /\ b[1] \in Starts
    /\ \A s \in StoredLanes : E!StoreEvent(s) \in Event /\ s[1] \in Nat
BY ParserConstantsOK DEF Event, E!AllocEvent, E!FreeEvent, E!StoreEvent, Starts

\* What appending an event leaves as it was.
LEMMA AppendEvent ==
    ASSUME NEW t \in Seq(Event), NEW e \in Event, NEW u, u = Append(t, e)
    PROVE  /\ u \in Seq(Event) /\ Len(u) = Len(t) + 1 /\ Len(t) \in Nat /\ u[Len(t) + 1] = e
           /\ \A i \in 1 .. Len(t) : u[i] = t[i]
           /\ \A j \in 1 .. Len(t), n \in Nat : n <= Len(t) => (Stays(u, j, n) <=> Stays(t, j, n))
<1>1. /\ u \in Seq(Event) /\ Len(u) = Len(t) + 1 /\ Len(t) \in Nat /\ u[Len(t) + 1] = e
      /\ \A i \in 1 .. Len(t) : u[i] = t[i]
  OBVIOUS
<1>2. ASSUME NEW j \in 1 .. Len(t), NEW n \in Nat, n <= Len(t)
      PROVE  Stays(u, j, n) <=> Stays(t, j, n)
  <2>1. \A k \in j + 1 .. n : k \in 1 .. Len(t)
    BY <1>1, <1>2
  <2>2. \A k \in j + 1 .. n : Closes(u, k, j) <=> Closes(t, k, j)
    BY <1>1, <2>1 DEF Closes
  <2>. QED BY <2>2 DEF Stays
<1>. QED BY <1>1, <1>2

\* One more event that closes nothing.
LEMMA StaysOn ==
    ASSUME NEW u, NEW n \in Nat, NEW j \in 1 .. n, Stays(u, j, n), ~ Closes(u, n + 1, j)
    PROVE  Stays(u, j, n + 1)
<1>1. \A k \in j + 1 .. n + 1 : k \in j + 1 .. n \/ k = n + 1
  OBVIOUS
<1>. QED BY <1>1 DEF Stays

\* An event that may follow.
LEMMA AppendTrace ==
    ASSUME NEW t, TraceOK(t), NEW e \in Event,
           e.type # "STORE" => e.addr \in Starts,
           e.type = "STORE" => \E j \in 1 .. Len(t) : Opens(t, j, e.addr) /\ Stays(t, j, Len(t))
    PROVE  TraceOK(Append(t, e))
<1>. DEFINE u == Append(t, e)
<1>0. t \in Seq(Event)
  BY DEF TraceOK
<1>1. /\ u \in Seq(Event) /\ Len(u) = Len(t) + 1 /\ Len(t) \in Nat /\ u[Len(t) + 1] = e
      /\ \A i \in 1 .. Len(t) : u[i] = t[i]
      /\ \A j \in 1 .. Len(t), n \in Nat : n <= Len(t) => (Stays(u, j, n) <=> Stays(t, j, n))
  BY <1>0, AppendEvent, Zenon
<1>. HIDE DEF u
<1>2. ASSUME NEW i \in 1 .. Len(u), u[i].type # "STORE" PROVE u[i].addr \in Starts
  <2>1. i \in 1 .. Len(t) \/ i = Len(t) + 1
    BY <1>1
  <2>. QED BY <1>1, <1>2, <2>1 DEF TraceOK
<1>3. ASSUME NEW i \in 1 .. Len(u), u[i].type = "STORE"
      PROVE  \E j \in 1 .. i - 1 : Opens(u, j, u[i].addr) /\ Stays(u, j, i - 1)
  <2>1. PICK j \in 1 .. i - 1 : Opens(t, j, u[i].addr) /\ Stays(t, j, i - 1)
    <3>1. CASE i \in 1 .. Len(t)
      BY <1>1, <1>3, <3>1, SMTT(30) DEF TraceOK
    <3>2. CASE i = Len(t) + 1
      <4>1. u[i] = e /\ i - 1 = Len(t)
        BY <1>1, <3>2
      <4>. QED BY <1>3, <4>1
    <3>. QED BY <1>1, <3>1, <3>2
  <2>2. j \in 1 .. Len(t) /\ i - 1 \in Nat /\ i - 1 <= Len(t)
    BY <1>1
  <2>3. u[j] = t[j] /\ Stays(u, j, i - 1)
    BY <1>1, <2>1, <2>2
  <2>. QED BY <2>1, <2>3 DEF Opens
<1>. QED BY <1>1, <1>2, <1>3 DEF TraceOK, u

\* A block is opened that is apart from the live ones, or is live already.
LEMMA OpenLive ==
    ASSUME NEW l, NEW t \in Seq(Event), LiveOK(l, t), NEW b \in Blocks,
           \A c \in l : b = c \/ Apart(b, c)
    PROVE  LiveOK(l \cup {b}, Append(t, E!AllocEvent(b)))
<1>. DEFINE u == Append(t, E!AllocEvent(b))
<1>1. /\ u \in Seq(Event) /\ Len(u) = Len(t) + 1 /\ Len(t) \in Nat /\ u[Len(t) + 1] = E!AllocEvent(b)
      /\ \A i \in 1 .. Len(t) : u[i] = t[i]
      /\ \A j \in 1 .. Len(t), n \in Nat : n <= Len(t) => (Stays(u, j, n) <=> Stays(t, j, n))
  <2>1. E!AllocEvent(b) \in Event
    BY EventTypes
  <2>. QED BY <2>1, AppendEvent, Zenon
<1>. HIDE DEF u
<1>2. ASSUME NEW c \in l \cup {b}, NEW d \in l \cup {b}, c # d PROVE Apart(c, d)
  BY <1>2 DEF LiveOK, Apart
<1>3. ASSUME NEW c \in l \cup {b}
      PROVE  \E j \in 1 .. Len(u) : u[j] = E!AllocEvent(c) /\ Stays(u, j, Len(u))
  <2>1. CASE c = b
    <3>1. Len(u) \in 1 .. Len(u) /\ u[Len(u)] = E!AllocEvent(b) /\ Stays(u, Len(u), Len(u))
      BY <1>1 DEF Stays
    <3>. QED BY <2>1, <3>1
  <2>2. CASE c # b
    <3>1. PICK j \in 1 .. Len(t) : t[j] = E!AllocEvent(c) /\ Stays(t, j, Len(t))
      BY <2>2 DEF LiveOK
    <3>2. u[j] = E!AllocEvent(c) /\ Stays(u, j, Len(t)) /\ j \in 1 .. Len(u)
      BY <1>1, <3>1
    <3>3. ~ Closes(u, Len(t) + 1, j)
      BY <1>1 DEF Closes, E!AllocEvent
    <3>4. Stays(u, j, Len(u))
      BY <1>1, <3>1, <3>2, <3>3, StaysOn, SMTT(30)
    <3>. QED BY <3>2, <3>4
  <2>. QED BY <2>1, <2>2
<1>. QED BY <1>2, <1>3 DEF LiveOK, u

\* A live block is closed; the others start elsewhere.
LEMMA CloseLive ==
    ASSUME NEW l, NEW t \in Seq(Event), LiveOK(l, t), NEW b \in l
    PROVE  LiveOK(l \ {b}, Append(t, E!FreeEvent(b)))
<1>. DEFINE u == Append(t, E!FreeEvent(b))
<1>0. b \in Blocks
  BY DEF LiveOK
<1>1. /\ u \in Seq(Event) /\ Len(u) = Len(t) + 1 /\ Len(t) \in Nat /\ u[Len(t) + 1] = E!FreeEvent(b)
      /\ \A i \in 1 .. Len(t) : u[i] = t[i]
      /\ \A j \in 1 .. Len(t), n \in Nat : n <= Len(t) => (Stays(u, j, n) <=> Stays(t, j, n))
  <2>1. E!FreeEvent(b) \in Event
    BY <1>0, EventTypes
  <2>. QED BY <2>1, AppendEvent, Zenon
<1>. HIDE DEF u
<1>2. ASSUME NEW c \in l \ {b}
      PROVE  \E j \in 1 .. Len(u) : u[j] = E!AllocEvent(c) /\ Stays(u, j, Len(u))
  <2>1. PICK j \in 1 .. Len(t) : t[j] = E!AllocEvent(c) /\ Stays(t, j, Len(t))
    BY DEF LiveOK
  <2>2. u[j] = E!AllocEvent(c) /\ Stays(u, j, Len(t)) /\ j \in 1 .. Len(u)
    BY <1>1, <2>1
  <2>3. b[1] # c[1]
    <3>1. c \in Blocks /\ Apart(b, c)
      BY DEF LiveOK
    <3>2. b[1] \in Nat /\ c[1] \in Nat /\ b[2] \in Nat \ {0} /\ c[2] \in Nat \ {0}
      BY <1>0, <3>1, EventTypes, SMTT(30)
    <3>. QED BY <3>1, <3>2 DEF Apart
  <2>4. ~ Closes(u, Len(t) + 1, j)
    <3>1. u[Len(t) + 1].addr = b[1]
      BY <1>1 DEF E!FreeEvent
    <3>2. u[j].addr = c[1]
      BY <2>2 DEF E!AllocEvent
    <3>. QED BY <2>3, <3>1, <3>2, SMTT(30) DEF Closes
  <2>5. Stays(u, j, Len(u))
    BY <1>1, <2>1, <2>2, <2>4, StaysOn, SMTT(30)
  <2>. QED BY <2>2, <2>5
<1>. QED BY <1>2 DEF LiveOK, u

\* A store closes nothing.
LEMMA StoreLive ==
    ASSUME NEW l, NEW t \in Seq(Event), LiveOK(l, t), NEW e \in Event, e.type = "STORE"
    PROVE  LiveOK(l, Append(t, e))
<1>. DEFINE u == Append(t, e)
<1>1. /\ u \in Seq(Event) /\ Len(u) = Len(t) + 1 /\ Len(t) \in Nat /\ u[Len(t) + 1] = e
      /\ \A i \in 1 .. Len(t) : u[i] = t[i]
      /\ \A j \in 1 .. Len(t), n \in Nat : n <= Len(t) => (Stays(u, j, n) <=> Stays(t, j, n))
  BY AppendEvent, Zenon
<1>. HIDE DEF u
<1>2. ASSUME NEW c \in l
      PROVE  \E i \in 1 .. Len(u) : u[i] = E!AllocEvent(c) /\ Stays(u, i, Len(u))
  <2>1. PICK i \in 1 .. Len(t) : t[i] = E!AllocEvent(c) /\ Stays(t, i, Len(t))
    BY DEF LiveOK
  <2>2. u[i] = E!AllocEvent(c) /\ Stays(u, i, Len(t)) /\ i \in 1 .. Len(u)
    BY <1>1, <2>1
  <2>3. ~ Closes(u, Len(t) + 1, i)
    BY <1>1 DEF Closes
  <2>4. Stays(u, i, Len(u))
    BY <1>1, <2>1, <2>2, <2>3, StaysOn, SMTT(30)
  <2>. QED BY <2>2, <2>4
<1>. QED BY <1>2 DEF LiveOK, u

\* A prefix of a trace.
LEMMA PrefixTrace ==
    ASSUME NEW t, TraceOK(t), NEW n \in 0 .. Len(t)
    PROVE  TraceOK(SubSeq(t, 1, n))
<1>. DEFINE u == SubSeq(t, 1, n)
<1>1. t \in Seq(Event) /\ Len(t) \in Nat /\ \A i \in 1 .. Len(t) : t[i] \in Event
  BY DEF TraceOK
<1>2. u \in Seq(Event) /\ Len(u) = n /\ \A i \in 1 .. n : u[i] = t[i] /\ i \in 1 .. Len(t)
  <2>1. \A i \in 1 .. n : t[i] \in Event
    BY <1>1
  <2>2. /\ u \in Seq(Event) /\ Len(u) = IF 1 <= n THEN n - 1 + 1 ELSE 0
        /\ \A i \in 1 .. n - 1 + 1 : u[i] = t[1 + i - 1]
    BY <1>1, <2>1, SubSeqProperties, SMTT(30)
  <2>. QED BY <1>1, <2>2
<1>. HIDE DEF u
<1>3. ASSUME NEW i \in 1 .. Len(u), u[i].type = "STORE"
      PROVE  \E j \in 1 .. i - 1 : Opens(u, j, u[i].addr) /\ Stays(u, j, i - 1)
  <2>1. PICK j \in 1 .. i - 1 : Opens(t, j, u[i].addr) /\ Stays(t, j, i - 1)
    BY <1>2, <1>3 DEF TraceOK
  <2>2. u[j] = t[j] /\ \A k \in j + 1 .. i - 1 : u[k] = t[k]
    BY <1>1, <1>2
  <2>. QED BY <2>1, <2>2 DEF Opens, Stays, Closes
<1>. QED BY <1>2, <1>3 DEF TraceOK, u

\* The traced program's steps.
LEMMA TraceStep == TraceInv /\ Trace => TraceInv'
<1>. SUFFICES ASSUME TraceOK(trace), LiveOK(live, trace), Trace
              PROVE  TraceOK(trace') /\ LiveOK(live', trace')
  BY Zenon DEF TraceInv, TraceOK, LiveOK, Opens, Stays, Closes, Apart
<1>0. trace \in Seq(Event)
  BY DEF TraceOK
<1>1. ASSUME NEW b \in Blocks, E!Open(b), MayOpen(b) PROVE TraceOK(trace') /\ LiveOK(live', trace')
  <2>1. E!AllocEvent(b) \in Event /\ E!AllocEvent(b).type = "ALLOC" /\ E!AllocEvent(b).addr \in Starts
    BY EventTypes DEF E!AllocEvent
  <2>2. \A c \in live : b = c \/ Apart(b, c)
    BY <1>1 DEF MayOpen, Apart
  <2>3. trace' = Append(trace, E!AllocEvent(b)) /\ live' = live \cup {b}
    BY <1>1 DEF E!Open
  <2>4. TraceOK(Append(trace, E!AllocEvent(b)))
    BY <2>1, AppendTrace
  <2>5. LiveOK(live \cup {b}, Append(trace, E!AllocEvent(b)))
    BY <1>0, <2>2, OpenLive, SMTT(30)
  <2>. QED BY <2>3, <2>4, <2>5, SMTT(30)
<1>2. ASSUME NEW b \in Blocks, E!Close(b) PROVE TraceOK(trace') /\ LiveOK(live', trace')
  <2>1. E!FreeEvent(b) \in Event /\ E!FreeEvent(b).type = "FREE" /\ E!FreeEvent(b).addr \in Starts
    BY EventTypes DEF E!FreeEvent
  <2>2. b \in live /\ trace' = Append(trace, E!FreeEvent(b)) /\ live' = live \ {b}
    BY <1>2 DEF E!Close
  <2>3. TraceOK(Append(trace, E!FreeEvent(b)))
    BY <2>1, AppendTrace
  <2>4. LiveOK(live \ {b}, Append(trace, E!FreeEvent(b)))
    BY <1>0, <2>2, CloseLive, SMTT(30)
  <2>. QED BY <2>2, <2>3, <2>4, SMTT(30)
<1>3. ASSUME NEW b \in Blocks, NEW c \in Blocks, E!Move(b, c), MayOpen(c)
      PROVE  TraceOK(trace') /\ LiveOK(live', trace')
  <2>. DEFINE t == Append(trace, E!AllocEvent(c))
              l == live \cup {c}
  <2>1. /\ b \in live /\ c \notin live /\ live' = l \ {b}
        /\ trace' = Append(t, E!FreeEvent(b))
    BY <1>3 DEF E!Move
  <2>2. E!AllocEvent(c) \in Event /\ E!AllocEvent(c).type = "ALLOC" /\ E!AllocEvent(c).addr \in Starts
    BY EventTypes DEF E!AllocEvent
  <2>3. E!FreeEvent(b) \in Event /\ E!FreeEvent(b).type = "FREE" /\ E!FreeEvent(b).addr \in Starts
    BY EventTypes DEF E!FreeEvent
  <2>4. \A d \in live : c = d \/ Apart(c, d)
    BY <1>3 DEF MayOpen, Apart
  <2>5. TraceOK(t)
    BY <2>2, AppendTrace
  <2>6. LiveOK(l, t)
    BY <1>0, <2>4, OpenLive, SMTT(30)
  <2>7. b \in l /\ t \in Seq(Event)
    BY <2>1, <2>5 DEF TraceOK
  <2>. HIDE DEF t, l
  <2>8. TraceOK(Append(t, E!FreeEvent(b)))
    BY <2>3, <2>5, AppendTrace, SMTT(30)
  <2>9. LiveOK(l \ {b}, Append(t, E!FreeEvent(b)))
    BY <2>6, <2>7, CloseLive, SMTT(30)
  <2>. QED BY <2>1, <2>8, <2>9, SMTT(30)
<1>4. ASSUME NEW s \in StoredLanes, E!Record(s) PROVE TraceOK(trace') /\ LiveOK(live', trace')
  <2>. DEFINE e == E!StoreEvent(s)
  <2>1. e \in Event /\ e.type = "STORE" /\ e.addr = s[1]
    BY EventTypes DEF E!StoreEvent
  <2>2. trace' = Append(trace, e) /\ live' = live
    BY <1>4 DEF E!Record
  <2>3. PICK b \in live : b[1] <= s[1] /\ s[1] < b[1] + b[2]
    BY <1>4 DEF E!Record, E!Watched
  <2>4. PICK j \in 1 .. Len(trace) : trace[j] = E!AllocEvent(b) /\ Stays(trace, j, Len(trace))
    BY DEF LiveOK
  <2>5. Opens(trace, j, s[1])
    BY <2>3, <2>4, SMTT(30) DEF Opens, E!AllocEvent
  <2>. HIDE DEF e
  <2>6. TraceOK(Append(trace, e))
    BY <2>1, <2>4, <2>5, AppendTrace, SMTT(30)
  <2>7. LiveOK(live, Append(trace, e))
    BY <1>0, <2>1, StoreLive, SMTT(30)
  <2>. QED BY <2>2, <2>6, <2>7, SMTT(30)
<1>5. ASSUME E!Stop PROVE TraceOK(trace') /\ LiveOK(live', trace')
  BY <1>5 DEF E!Stop, LiveOK
<1>6. ASSUME E!Lose PROVE TraceOK(trace') /\ LiveOK(live', trace')
  <2>1. PICK n \in 0 .. Len(trace) : trace' = SubSeq(trace, 1, n)
    BY <1>6 DEF E!Lose
  <2>2. live' = {}
    BY <1>6 DEF E!Lose
  <2>. QED BY <2>1, <2>2, PrefixTrace, SMTT(30) DEF LiveOK
<1>. QED BY <1>1, <1>2, <1>3, <1>4, <1>5, <1>6, Zenon DEF Trace

-----------------------------------------------------------------------------
(* The lines of the log. *)

\* The lines of an event.
LEMMA LinesKinds ==
    ASSUME NEW e \in Event
    PROVE  /\ e.type = "STORE" => /\ Len(LinesOf(e)) = 1
                                  /\ LinesOf(e)[1].kind = "store" /\ LinesOf(e)[1].addr = e.addr
           /\ e.type # "STORE" => /\ Len(LinesOf(e)) = 4
                                  /\ LinesOf(e)[2] = Header(e)
                                  /\ LinesOf(e)[3].kind = "frame"
           /\ e.type = "ALLOC" => LinesOf(e)[1].kind = "alloc_start" /\ LinesOf(e)[4].kind = "alloc_end"
           /\ e.type = "FREE" => LinesOf(e)[1].kind = "free_start" /\ LinesOf(e)[4].kind = "free_end"
<1>1. e.type \in {"ALLOC", "FREE", "STORE"}
  BY DEF Event
<1>2. CASE e.type = "ALLOC"
  <2>1. LinesOf(e) = <<Line("alloc_start"), Header(e), Line("frame"), Line("alloc_end")>>
    BY <1>2 DEF LinesOf
  <2>. QED BY <1>2, <2>1 DEF Line
<1>3. CASE e.type = "FREE"
  <2>1. LinesOf(e) = <<Line("free_start"), Header(e), Line("frame"), Line("free_end")>>
    BY <1>3 DEF LinesOf
  <2>. QED BY <1>3, <2>1 DEF Line
<1>4. CASE e.type = "STORE"
  <2>1. LinesOf(e) = <<[kind |-> "store", addr |-> e.addr, value |-> e.arg]>>
    BY <1>4 DEF LinesOf
  <2>. QED BY <1>4, <2>1
<1>. QED BY <1>1, <1>2, <1>3, <1>4, SMTT(30)

\* Where the reader is when it takes a line, by the kind of the line.
LEMMA AtLine ==
    ASSUME TraceInv, ReaderInv, NEW k, Reading(k)
    PROVE  /\ pos \in 1 .. Len(trace) /\ Len(trace) \in Nat /\ trace[pos] \in Event
           /\ line \in 1 .. Len(LinesOf(trace[pos])) /\ Len(LinesOf(trace[pos])) \in {1, 4}
           /\ status = "parsing"
           /\ k = "store" => trace[pos].type = "STORE" /\ line = 1 /\ CurrentLine.addr = trace[pos].addr
           /\ k = "alloc_start" => trace[pos].type = "ALLOC" /\ line = 1
           /\ k = "free_start" => trace[pos].type = "FREE" /\ line = 1
           /\ k = "header" => trace[pos].type # "STORE" /\ line = 2 /\ CurrentLine = Header(trace[pos])
           /\ k = "frame" => trace[pos].type # "STORE" /\ line = 3
           /\ k = "alloc_end" => trace[pos].type = "ALLOC" /\ line = 4
           /\ k = "free_end" => trace[pos].type = "FREE" /\ line = 4
<1>1. status = "parsing" /\ ~ AtEnd /\ CurrentLine.kind = k
  BY DEF Reading
<1>2. trace \in Seq(Event) /\ Len(trace) \in Nat
  BY DEF TraceInv, TraceOK
<1>3. pos \in 1 .. Len(trace)
  BY <1>1, <1>2 DEF AtEnd, ReaderInv
<1>4. PICK e \in Event : e = trace[pos]
  BY <1>2, <1>3
<1>5. line \in 1 .. 4 /\ line <= Len(LinesOf(e))
  BY <1>3, <1>4 DEF ReaderInv
<1>6. CurrentLine = LinesOf(e)[line]
  BY <1>4 DEF CurrentLine
<1>7. Header(e).kind = "header"
  BY DEF Header
<1>8. e.type \in {"ALLOC", "FREE", "STORE"}
  BY DEF Event
<1>9. CASE e.type = "STORE"
  <2>1. Len(LinesOf(e)) = 1 /\ LinesOf(e)[1].kind = "store" /\ LinesOf(e)[1].addr = e.addr
    BY <1>9, LinesKinds
  <2>2. line = 1
    BY <1>5, <2>1, SMTT(30)
  <2>. QED BY <1>1, <1>2, <1>3, <1>4, <1>6, <1>9, <2>1, <2>2, SMTT(30)
<1>10. CASE e.type = "ALLOC"
  <2>1. /\ Len(LinesOf(e)) = 4 /\ LinesOf(e)[2] = Header(e) /\ LinesOf(e)[3].kind = "frame"
        /\ LinesOf(e)[1].kind = "alloc_start" /\ LinesOf(e)[4].kind = "alloc_end"
    BY <1>10, LinesKinds
  <2>2. line = 1 \/ line = 2 \/ line = 3 \/ line = 4
    BY <1>5
  <2>. QED BY <1>1, <1>2, <1>3, <1>4, <1>6, <1>7, <1>10, <2>1, <2>2, SMTT(30)
<1>11. CASE e.type = "FREE"
  <2>1. /\ Len(LinesOf(e)) = 4 /\ LinesOf(e)[2] = Header(e) /\ LinesOf(e)[3].kind = "frame"
        /\ LinesOf(e)[1].kind = "free_start" /\ LinesOf(e)[4].kind = "free_end"
    BY <1>11, LinesKinds
  <2>2. line = 1 \/ line = 2 \/ line = 3 \/ line = 4
    BY <1>5
  <2>. QED BY <1>1, <1>2, <1>3, <1>4, <1>6, <1>7, <1>11, <2>1, <2>2, SMTT(30)
<1>. QED BY <1>8, <1>9, <1>10, <1>11, SMTT(30)

\* The reader moves on by one line.
LEMMA Advance ==
    ASSUME TraceInv, ReaderInv, NEW k, Reading(k), NextLine
    PROVE  /\ pos' \in 1 .. Len(trace) + 1 /\ line' \in 1 .. 4
           /\ IF pos' <= Len(trace) THEN line' <= Len(LinesOf(trace[pos'])) ELSE line' = 1
           /\ line < Len(LinesOf(trace[pos])) => pos' = pos /\ line' = line + 1
           /\ line = Len(LinesOf(trace[pos])) => pos' = pos + 1 /\ line' = 1
           /\ \A j \in 1 .. Len(trace) :
                  Seen(j)' <=> Seen(j) \/ (j = pos /\ k \in {"store", "header"})
<1>1. /\ pos \in 1 .. Len(trace) /\ Len(trace) \in Nat /\ trace[pos] \in Event
      /\ line \in 1 .. Len(LinesOf(trace[pos])) /\ Len(LinesOf(trace[pos])) \in {1, 4}
  BY AtLine
<1>2. /\ k = "store" => line = 1 /\ Len(LinesOf(trace[pos])) = 1
      /\ k = "header" => line = 2
      /\ k \notin {"store", "header"} => line # 2 /\ Len(LinesOf(trace[pos])) = 4
  <2>1. trace[pos].type = "STORE" => k = "store"
    <3>1. trace[pos].type = "STORE" => LinesOf(trace[pos])[1].kind = "store" /\ Len(LinesOf(trace[pos])) = 1
      BY <1>1, LinesKinds
    <3>. QED BY <1>1, <3>1 DEF Reading, CurrentLine
  <2>2. trace[pos].type # "STORE" => Len(LinesOf(trace[pos])) = 4 /\ LinesOf(trace[pos])[2].kind = "header"
    <3>1. Header(trace[pos]).kind = "header"
      BY DEF Header
    <3>2. trace[pos].type # "STORE" => Len(LinesOf(trace[pos])) = 4 /\ LinesOf(trace[pos])[2] = Header(trace[pos])
      BY <1>1, LinesKinds
    <3>. QED BY <3>1, <3>2
  <2>3. trace[pos].type = "STORE" => Len(LinesOf(trace[pos])) = 1
    BY <1>1, LinesKinds
  <2>4. /\ k = "store" => trace[pos].type = "STORE" /\ line = 1
        /\ k = "header" => line = 2
    BY AtLine
  <2>5. line = 2 => k = "header"
    BY <1>1, <2>2, <2>3, SMTT(30) DEF Reading, CurrentLine
  <2>. QED BY <2>1, <2>2, <2>3, <2>4, <2>5, SMTT(30)
<1>3. \A i \in 1 .. Len(trace) : Len(LinesOf(trace[i])) \in {1, 4}
  <2>1. trace \in Seq(Event)
    BY DEF TraceInv, TraceOK
  <2>. QED BY <2>1, LinesKinds
<1>4. /\ line < Len(LinesOf(trace[pos])) => pos' = pos /\ line' = line + 1
      /\ line = Len(LinesOf(trace[pos])) => pos' = pos + 1 /\ line' = 1
  BY <1>1 DEF NextLine
<1>5. PICK n \in {1, 4} : n = Len(LinesOf(trace[pos]))
  BY <1>1
<1>8. /\ line \in 1 .. n
      /\ k = "store" => line = 1 /\ n = 1
      /\ k = "header" => line = 2
      /\ k \notin {"store", "header"} => line # 2 /\ n = 4
  BY <1>1, <1>2, <1>5, SMTT(30)
<1>6. CASE line < n
  <2>1. pos' = pos /\ line' = line + 1 /\ line' <= Len(LinesOf(trace[pos]))
    BY <1>1, <1>4, <1>5, <1>6, SMTT(30)
  <2>2. ASSUME NEW j \in 1 .. Len(trace)
        PROVE  Seen(j)' <=> Seen(j) \/ (j = pos /\ k \in {"store", "header"})
    <3>1. Seen(j)' <=> j < pos \/ (j = pos /\ line + 1 > 2)
      BY <2>1 DEF Seen
    <3>2. line \in Nat /\ (k \in {"store", "header"} => line = 2) /\ (k \notin {"store", "header"} => line # 2)
      BY <1>8, <1>6, SMTT(30)
    <3>3. pos \in Nat /\ j \in Nat
      BY <1>1
    <3>4. CASE k \in {"store", "header"}
      BY <3>1, <3>2, <3>3, <3>4, SMTT(30) DEF Seen
    <3>5. CASE k \notin {"store", "header"}
      BY <3>1, <3>2, <3>3, <3>5, SMTT(30) DEF Seen
    <3>. QED BY <3>4, <3>5, SMTT(30)
  <2>3. line + 1 \in 1 .. 4 /\ line + 1 <= n
    BY <1>6, <1>8, SMTT(30)
  <2>4. pos' \in 1 .. Len(trace) + 1 /\ line' \in 1 .. 4 /\ line' <= Len(LinesOf(trace[pos']))
    <3>1. pos' = pos /\ line' \in 1 .. 4 /\ line' <= n
      BY <2>1, <2>3, SMTT(30)
    <3>2. pos \in 1 .. Len(trace) + 1
      BY <1>1
    <3>. QED BY <1>5, <3>1, <3>2, SMTT(30)
  <2>5. pos' <= Len(trace)
    BY <1>1, <2>1, SMTT(30)
  <2>. QED BY <1>4, <2>2, <2>4, <2>5, SMTT(30)
<1>7. CASE line = n
  <2>1. pos' = pos + 1 /\ line' = 1
    BY <1>4, <1>5, <1>7, SMTT(30)
  <2>2. ASSUME NEW j \in 1 .. Len(trace)
        PROVE  Seen(j)' <=> Seen(j) \/ (j = pos /\ k \in {"store", "header"})
    <3>1. Seen(j)' <=> j < pos + 1
      BY <2>1 DEF Seen
    <3>2. k \notin {"store", "header"} => line = 4
      BY <1>7, <1>8, SMTT(30)
    <3>. QED BY <1>1, <3>1, <3>2, SMTT(30) DEF Seen
  <2>3. pos' <= Len(trace) => line' <= Len(LinesOf(trace[pos']))
    <3>1. pos + 1 <= Len(trace) => pos + 1 \in 1 .. Len(trace)
      BY <1>1
    <3>2. pos + 1 <= Len(trace) => 1 <= Len(LinesOf(trace[pos + 1]))
      <4>. SUFFICES ASSUME pos + 1 <= Len(trace) PROVE 1 <= Len(LinesOf(trace[pos + 1]))
        OBVIOUS
      <4>1. PICK m \in 1 .. Len(trace) : m = pos + 1
        BY <3>1
      <4>2. Len(LinesOf(trace[m])) \in {1, 4}
        BY <1>3
      <4>3. PICK q \in {1, 4} : q = Len(LinesOf(trace[m]))
        BY <4>2
      <4>4. 1 <= q
        OBVIOUS
      <4>. QED BY <4>1, <4>3, <4>4, SMTT(30)
    <3>. QED BY <2>1, <3>2, SMTT(30)
  <2>4. pos' \in 1 .. Len(trace) + 1 /\ line' \in 1 .. 4
    BY <1>1, <2>1
  <2>. QED BY <1>4, <2>1, <2>2, <2>3, <2>4, SMTT(30)
<1>. QED BY <1>1, <1>5, <1>6, <1>7, SMTT(30)

-----------------------------------------------------------------------------
(* The steps that leave the lists alone. *)

\* Facts about the empty lists and stacks the parser starts with.
LEMMA EmptySeqs ==
    /\ << >> \in Seq(Id) /\ Distinct(<< >>) /\ Sorted(<< >>) /\ Range(<< >>) = {} /\ Len(<< >>) = 0
    /\ DOMAIN << >> = {} /\ FilesOK(NoFiles) /\ NoFiles.handles = << >>
<1>1. << >> \in Seq(Id) /\ Len(<< >>) = 0 /\ DOMAIN << >> = {}
  OBVIOUS
<1>2. Distinct(<< >>) /\ Sorted(<< >>) /\ Range(<< >>) = {}
  BY <1>1 DEF Distinct, Sorted, Range
<1>3. /\ NoFiles = [handles |-> << >>, buf |-> << >>, tmp |-> << >>]
      /\ NoFiles.handles = << >> /\ NoFiles.buf = << >> /\ NoFiles.tmp = << >>
  BY DEF NoFiles
<1>4. MaxOpen \in Nat
  BY ParserConstantsOK
<1>. QED BY <1>1, <1>2, <1>3, <1>4, SMTT(30) DEF FilesOK

\* A parser that starts has empty lists.
LEMMA FreshLists ==
    ASSUME liveList = << >>, alloc = << >>, stacks = [a \in Starts |-> << >>], usage = [a \in Starts |-> 0],
           status \in {"tracing", "parsing"}
    PROVE  ListInv
<1>1. stacks \in [Starts -> Seq(Id)] /\ \A a \in Starts : stacks[a] = << >>
  BY EmptySeqs
<1>2. usage \in [Starts -> Nat]
  OBVIOUS
<1>3. \A a \in Starts : At(a) = {}
  BY EmptySeqs DEF At
<1>4. \A a \in Starts : Distinct(stacks[a]) /\ Range(stacks[a]) = At(a)
  BY <1>1, <1>3, EmptySeqs, Zenon
<1>. QED BY <1>1, <1>2, <1>4, EmptySeqs, SMTT(30) DEF ListInv

\* The initial state.
LEMMA InitInv == Init => IInv
<1>. SUFFICES ASSUME Init PROVE IInv
  OBVIOUS
<1>1. StatusInv
  BY ParserConstantsOK DEF Init, StatusInv
<1>2. TraceInv
  <2>1. trace = << >> /\ live = {}
    BY DEF Init, E!Init
  <2>2. trace \in Seq(Event) /\ Len(trace) = 0
    BY <2>1
  <2>. QED BY <2>1, <2>2 DEF TraceInv, TraceOK, LiveOK
<1>3. CutInv
  BY DEF Init, CutInv
<1>4. ReaderInv
  <2>1. Len(trace) = 0
    BY DEF Init, E!Init
  <2>. QED BY <2>1 DEF Init, ReaderInv
<1>5. ListInv
  BY FreshLists DEF Init
<1>6. FilesInv
  BY EmptySeqs DEF Init, FilesInv
<1>7. CoverInv
  BY DEF Init, CoverInv
<1>. QED BY <1>1, <1>2, <1>3, <1>4, <1>5, <1>6, <1>7, SMTT(30) DEF IInv

\* Steps that leave the lists or the files alone.
LEMMA ListStays == ListInv /\ UNCHANGED <<liveList, stacks, usage, alloc, status>> => ListInv'
<1>. SUFFICES ASSUME ListInv, UNCHANGED <<liveList, stacks, usage, alloc, status>> PROVE ListInv'
  OBVIOUS
<1>1. liveList' = liveList /\ stacks' = stacks /\ usage' = usage /\ alloc' = alloc /\ status' = status
  OBVIOUS
<1>2. \A a : At(a)' = At(a)
  BY <1>1 DEF At
<1>. QED BY <1>1, <1>2 DEF ListInv

\* A step that touches neither files nor the list keeps FilesInv.
LEMMA FilesStay == FilesInv /\ UNCHANGED <<files, liveList>> => FilesInv'
BY DEF FilesInv, FilesOK, Distinct, Range

\* A step of the parser keeps what is true of the trace.
LEMMA TracerStays ==
    ASSUME TraceInv, CutInv, UNCHANGED tracer, status # "tracing" PROVE TraceInv' /\ CutInv'
<1>1. live' = live /\ trace' = trace /\ cut' = cut
  BY DEF tracer
<1>2. TraceInv'
  BY <1>1 DEF TraceInv, TraceOK, LiveOK, Opens, Stays, Closes, Apart
<1>3. CutInv'
  BY <1>1 DEF CutInv
<1>. QED BY <1>2, <1>3

\* The program runs.
LEMMA TracingStep == IInv /\ Trace => IInv'
<1>. SUFFICES ASSUME IInv, Trace PROVE IInv'
  OBVIOUS
<1>1. TraceInv'
  BY TraceStep DEF IInv
<1>2. status = "tracing" /\ UNCHANGED <<cut, status, reader, allocs, disk, crashes>>
  BY DEF Trace
<1>3. UNCHANGED <<pos, line, inside, building, liveList, stacks, usage, alloc, files>>
  BY <1>2 DEF reader, allocs, disk
<1>4. StatusInv'
  BY <1>2, <1>3 DEF IInv, StatusInv
<1>5. CutInv' /\ CoverInv'
  BY <1>2 DEF IInv, CutInv, CoverInv
<1>6. ListInv' /\ FilesInv'
  BY <1>2, <1>3, ListStays, FilesStay, SMTT(30) DEF IInv
<1>7. ReaderInv'
  <2>1. pos' = 1 /\ line' = 1 /\ inside' = "none" /\ status' = "tracing"
    BY <1>2, <1>3 DEF IInv, StatusInv
  <2>2. trace' \in Seq(Event) /\ Len(trace') \in Nat
    BY <1>1 DEF TraceInv, TraceOK
  <2>3. 1 <= Len(trace') => 1 <= Len(LinesOf(trace'[1]))
    <3>. SUFFICES ASSUME 1 <= Len(trace') PROVE 1 <= Len(LinesOf(trace'[1]))
      OBVIOUS
    <3>1. trace'[1] \in Event
      BY <2>2
    <3>. QED BY <3>1, LinesKinds
  <2>. QED BY <2>1, <2>2, <2>3, SMTT(30) DEF ReaderInv
<1>. QED BY <1>1, <1>4, <1>5, <1>6, <1>7, SMTT(30) DEF IInv

\* The parser is started.
LEMMA StartStep == IInv /\ StartParser => IInv'
<1>. SUFFICES ASSUME IInv, StartParser PROVE IInv'
  OBVIOUS
<1>1. status = "tracing" /\ status' = "parsing" /\ UNCHANGED <<live, trace, process, reader, allocs, disk, crashes>>
  BY DEF StartParser
<1>2. UNCHANGED <<pos, line, inside, building, liveList, stacks, usage, alloc, files, live, trace, crashes>>
  BY <1>1 DEF reader, allocs, disk
<1>3. pos = 1 /\ line = 1 /\ inside = "none" /\ building = NoAlloc /\ liveList = << >>
  BY <1>1 DEF IInv, StatusInv
<1>4. StatusInv'
  BY <1>1, <1>2, SMTT(30) DEF IInv, StatusInv
<1>5. TraceInv'
  BY <1>2 DEF IInv, TraceInv, TraceOK, LiveOK, Opens, Stays, Closes, Apart
<1>6. CutInv'
  <2>1. cut' \in 0 .. (IF trace = <<>> THEN 0 ELSE Len(LinesOf(Last(trace))) - 1)
    BY DEF StartParser
  <2>2. CASE trace = << >>
    BY <1>2, <2>1, <2>2, SMTT(30) DEF CutInv
  <2>3. CASE trace # << >>
    <3>1. trace \in Seq(Event) /\ Last(trace) = trace[Len(trace)]
      BY DEF IInv, TraceInv, TraceOK, Last
    <3>2. trace[Len(trace)] \in Event
      BY <2>3, <3>1
    <3>3. Len(LinesOf(trace[Len(trace)])) \in {1, 4}
      BY <3>2, LinesKinds
    <3>4. PICK n \in {1, 4} : n = Len(LinesOf(trace[Len(trace)]))
      BY <3>3
    <3>5. cut' \in 0 .. n - 1
      BY <2>1, <2>3, <3>1, <3>4, SMTT(30)
    <3>6. cut' \in Nat /\ cut' < n
      BY <3>5
    <3>. QED BY <1>2, <3>4, <3>6, SMTT(30) DEF CutInv
  <2>. QED BY <2>2, <2>3
<1>7. ReaderInv'
  BY <1>1, <1>2, <1>3, Zenon DEF IInv, ReaderInv
<1>8. ListInv'
  BY <1>1, <1>2, SMTT(30) DEF IInv, ListInv, At, Sorted, Distinct, Range
<1>9. FilesInv'
  BY <1>2, FilesStay DEF IInv
<1>10. CoverInv'
  <2>1. \A j \in 1 .. Len(trace) : ~ Seen(j)'
    BY <1>2, <1>3, SMTT(30) DEF Seen
  <2>2. Len(trace') = Len(trace)
    BY <1>2
  <2>. QED BY <2>1, <2>2, SMTT(30) DEF CoverInv
<1>. QED BY <1>4, <1>5, <1>6, <1>7, <1>8, <1>9, <1>10, SMTT(30) DEF IInv

\* A line that is not a header changes nothing of what is covered.
LEMMA CoverStays ==
    ASSUME TraceInv, ReaderInv, CoverInv, NEW k, k # "header", Reading(k), NextLine, liveList' = liveList
    PROVE  CoverInv'
<1>1. trace' = trace /\ status = "parsing" /\ status' = status
  BY DEF NextLine, tracer, Reading
<1>2. \A j \in 1 .. Len(trace) : Seen(j)' <=> Seen(j) \/ (j = pos /\ k \in {"store", "header"})
  BY Advance
<1>3. k = "store" => trace[pos].type = "STORE"
  BY AtLine
<1>. SUFFICES ASSUME NEW j \in 1 .. Len(trace), Seen(j)', trace[j].type = "ALLOC",
                     \A i \in j + 1 .. Len(trace) : Seen(i)' => ~ Closes(trace, i, j)
              PROVE  \E id \in Range(liveList) : id[1] = trace[j].addr /\ id[2] = trace[j].arg
  BY <1>1 DEF CoverInv
<1>4. Seen(j)
  BY <1>2, <1>3
<1>5. \A i \in j + 1 .. Len(trace) : Seen(i) => ~ Closes(trace, i, j)
  <2>1. \A i \in j + 1 .. Len(trace) : i \in 1 .. Len(trace)
    BY DEF TraceInv, TraceOK
  <2>. QED BY <1>2, <2>1
<1>. QED BY <1>1, <1>4, <1>5, SMTT(30) DEF CoverInv

\* What every line leaves alone.
LEMMA LineFrame ==
    ASSUME IInv, NEW k, Reading(k), NextLine
    PROVE  /\ StatusInv' /\ TraceInv' /\ CutInv' /\ status = "parsing" /\ status' = "parsing"
           /\ trace' = trace
<1>1. UNCHANGED <<tracer, status, input, crashes>> /\ status = "parsing"
  BY DEF NextLine, Reading
<1>2. TraceInv' /\ CutInv'
  BY <1>1, TracerStays DEF IInv
<1>3. StatusInv'
  BY <1>1 DEF IInv, StatusInv
<1>. QED BY <1>1, <1>2, <1>3, SMTT(30) DEF tracer

\* The section an event opens.
Section(i) == IF trace[i].type = "ALLOC" THEN "alloc" ELSE "free"

\* The reader's state after a line, from the section it says it is in.
LEMMA ReaderStep ==
    ASSUME TraceInv, ReaderInv, NEW k, Reading(k), NextLine,
           line < Len(LinesOf(trace[pos])) => inside' = Section(pos),
           line = Len(LinesOf(trace[pos])) => inside' = "none",
           building' # NoAlloc => building' \in Range(liveList') /\ inside' = "alloc"
    PROVE  ReaderInv'
<1>1. /\ pos' \in 1 .. Len(trace) + 1 /\ line' \in 1 .. 4
      /\ IF pos' <= Len(trace) THEN line' <= Len(LinesOf(trace[pos'])) ELSE line' = 1
      /\ line < Len(LinesOf(trace[pos])) => pos' = pos /\ line' = line + 1
      /\ line = Len(LinesOf(trace[pos])) => pos' = pos + 1 /\ line' = 1
  BY Advance
<1>2. line \in 1 .. Len(LinesOf(trace[pos])) /\ Len(LinesOf(trace[pos])) \in {1, 4} /\ status = "parsing"
  BY AtLine
<1>3. trace' = trace /\ status' = status
  BY DEF NextLine, tracer
<1>4. inside' = IF line' = 1 THEN "none" ELSE IF trace[pos'].type = "ALLOC" THEN "alloc" ELSE "free"
  <2>1. PICK n \in {1, 4} : n = Len(LinesOf(trace[pos])) /\ line \in 1 .. n
    BY <1>2, Zenon
  <2>2. CASE line < n
    <3>1. pos' = pos /\ line' = line + 1 /\ line' # 1 /\ inside' = Section(pos)
      BY <1>1, <2>1, <2>2
    <3>. QED BY <3>1 DEF Section
  <2>3. CASE line = n
    BY <1>1, <2>1, <2>3
  <2>. QED BY <2>1, <2>2, <2>3, SMTT(30)
<1>5. inside' \in {"none", "alloc", "free"}
  BY <1>4
<1>. QED BY <1>1, <1>3, <1>4, <1>5, SMTT(30) DEF ReaderInv

\* "START alloc", "START free" and "END free" lines.
LEMMA DelimiterStep == IInv /\ (OnAllocStart \/ OnFreeDelimiter) => IInv'
<1>. SUFFICES ASSUME IInv, OnAllocStart \/ OnFreeDelimiter PROVE IInv'
  OBVIOUS
<1>1. PICK k : /\ k \in {"alloc_start", "free_start", "free_end"} /\ Reading(k)
               /\ inside' = IF k = "alloc_start" THEN "alloc" ELSE IF k = "free_start" THEN "free" ELSE "none"
               /\ building' = IF k = "alloc_start" THEN NoAlloc ELSE building
  <2>1. CASE OnAllocStart
    BY <2>1 DEF OnAllocStart
  <2>2. CASE OnFreeDelimiter
    BY <2>2 DEF OnFreeDelimiter, Reading
  <2>. QED BY <2>1, <2>2
<1>2. NextLine /\ UNCHANGED <<allocs, files>>
  BY DEF OnAllocStart, OnFreeDelimiter
<1>3. UNCHANGED <<liveList, stacks, usage, alloc, files>>
  BY <1>2 DEF allocs
<1>4. StatusInv' /\ TraceInv' /\ CutInv' /\ status = "parsing" /\ status' = "parsing"
  BY <1>1, <1>2, LineFrame, SMTT(30)
<1>5. ListInv' /\ FilesInv'
  BY <1>3, <1>4, ListStays, FilesStay, SMTT(30) DEF IInv
<1>6. CoverInv'
  BY <1>1, <1>2, <1>3, CoverStays, SMTT(30) DEF IInv
<1>7. /\ k = "alloc_start" => trace[pos].type = "ALLOC" /\ line = 1
      /\ k = "free_start" => trace[pos].type = "FREE" /\ line = 1
      /\ k = "free_end" => trace[pos].type = "FREE" /\ line = 4
      /\ trace[pos] \in Event
  BY <1>1, AtLine, SMTT(30) DEF IInv
<1>8. Len(LinesOf(trace[pos])) = 4
  BY <1>1, <1>7, LinesKinds, Zenon
<1>9. building' = NoAlloc
  BY <1>1, <1>4, <1>7, SMTT(30) DEF IInv, ReaderInv
<1>10. ReaderInv'
  <2>1. /\ line < Len(LinesOf(trace[pos])) => inside' = Section(pos)
        /\ line = Len(LinesOf(trace[pos])) => inside' = "none"
    BY <1>1, <1>7, <1>8 DEF Section
  <2>. QED BY <1>1, <1>2, <1>9, <2>1, ReaderStep, SMTT(30) DEF IInv
<1>. QED BY <1>4, <1>5, <1>6, <1>10, SMTT(30) DEF IInv

\* A line of a stack trace.
LEMMA FrameStep == IInv /\ OnFrame => IInv'
<1>. SUFFICES ASSUME IInv, OnFrame PROVE IInv'
  OBVIOUS
<1>1. /\ Reading("frame") /\ NextLine /\ UNCHANGED <<inside, building, liveList, stacks, usage, files>>
      /\ DOMAIN alloc' = DOMAIN alloc
  BY DEF OnFrame
<1>2. StatusInv' /\ TraceInv' /\ CutInv' /\ status = "parsing" /\ status' = "parsing"
  BY <1>1, LineFrame
<1>3. ListInv'
  <2>1. \A a : At(a)' = At(a)
    BY <1>1 DEF At
  <2>. QED BY <1>1, <1>2, <2>1, SMTT(30) DEF IInv, ListInv
<1>4. FilesInv'
  BY <1>1, FilesStay DEF IInv
<1>5. CoverInv'
  BY <1>1, CoverStays, SMTT(30) DEF IInv
<1>6. trace[pos].type # "STORE" /\ line = 3 /\ trace[pos] \in Event
  BY <1>1, AtLine DEF IInv
<1>7. Len(LinesOf(trace[pos])) = 4
  BY <1>6, LinesKinds, Zenon
<1>8. inside' = Section(pos) /\ (building' # NoAlloc => building' \in Range(liveList') /\ inside' = "alloc")
  BY <1>1, <1>2, <1>6, SMTT(30) DEF IInv, ReaderInv, Section
<1>9. ReaderInv'
  BY <1>1, <1>6, <1>7, <1>8, ReaderStep, SMTT(30) DEF IInv
<1>. QED BY <1>2, <1>3, <1>4, <1>5, <1>9, SMTT(30) DEF IInv

\* An "END alloc" line.
LEMMA AllocEndStep == IInv /\ OnAllocEnd => IInv'
<1>. SUFFICES ASSUME IInv, OnAllocEnd PROVE IInv'
  OBVIOUS
<1>1. /\ Reading("alloc_end") /\ NextLine /\ inside' = "none" /\ building' = NoAlloc
      /\ UNCHANGED allocs
      /\ \/ files' = files
         \/ building # NoAlloc /\ files' = WriteLine(files, building, "#")
  BY DEF OnAllocEnd
<1>2. StatusInv' /\ TraceInv' /\ CutInv' /\ status = "parsing" /\ status' = "parsing"
  BY <1>1, LineFrame
<1>3. ListInv' /\ liveList' = liveList
  BY <1>1, <1>2, ListStays, SMTT(30) DEF IInv, allocs
<1>4. FilesInv'
  <2>1. CASE files' = files
    BY <1>3, <2>1, FilesStay, SMTT(30) DEF IInv
  <2>2. CASE building # NoAlloc /\ files' = WriteLine(files, building, "#")
    <3>1. building \in Range(liveList) /\ liveList \in Seq(Id)
      BY <1>2, <2>2, SMTT(30) DEF IInv, ReaderInv, ListInv
    <3>2. building \in Id
      BY <3>1, RangeIndex, SMTT(30)
    <3>3. FilesOK(files) /\ Range(files.handles) \subseteq Range(liveList)
      BY DEF IInv, FilesInv
    <3>4. FilesOK(files') /\ Range(files'.handles) \subseteq Range(files.handles) \cup {building}
      BY <2>2, <3>2, <3>3, WriteLineOK, SMTT(30)
    <3>5. FilesOK(files') /\ Range(files'.handles) \subseteq Range(liveList')
      BY <1>3, <3>1, <3>3, <3>4, SMTT(30)
    <3>. QED BY <3>5 DEF FilesInv, FilesOK, Distinct
  <2>. QED BY <1>1, <2>1, <2>2, SMTT(30)
<1>5. CoverInv'
  BY <1>1, <1>3, CoverStays, SMTT(30) DEF IInv
<1>6. line = 4 /\ trace[pos].type = "ALLOC" /\ trace[pos] \in Event
  BY <1>1, AtLine, SMTT(30) DEF IInv
<1>7. Len(LinesOf(trace[pos])) = 4
  BY <1>6, LinesKinds, SMTT(30)
<1>8. ReaderInv'
  BY <1>1, <1>6, <1>7, ReaderStep, SMTT(30) DEF IInv
<1>. QED BY <1>2, <1>3, <1>4, <1>5, <1>8, SMTT(30) DEF IInv

\* A store of the log lies in a live allocation, and that is where it goes.
LEMMA StoreFound ==
    ASSUME IInv, Reading("store")
    PROVE  Holders(CurrentLine.addr) # {} /\ Found(CurrentLine.addr) \in Range(liveList)
<1>1. /\ pos \in 1 .. Len(trace) /\ Len(trace) \in Nat /\ status = "parsing"
      /\ trace[pos].type = "STORE" /\ line = 1 /\ CurrentLine.addr = trace[pos].addr
  BY AtLine DEF IInv
<1>. DEFINE a == trace[pos].addr
<1>2. PICK j \in 1 .. pos - 1 : Opens(trace, j, a) /\ Stays(trace, j, pos - 1)
  BY <1>1 DEF IInv, TraceInv, TraceOK
<1>3. j \in 1 .. Len(trace) /\ Seen(j) /\ trace[j].type = "ALLOC"
  BY <1>1, <1>2 DEF Seen, Opens
<1>4. \A k \in j + 1 .. Len(trace) : Seen(k) => ~ Closes(trace, k, j)
  <2>. SUFFICES ASSUME NEW k \in j + 1 .. Len(trace), Seen(k) PROVE ~ Closes(trace, k, j)
    OBVIOUS
  <2>1. k \in j + 1 .. pos - 1
    BY <1>1, <1>2, SMTT(30) DEF Seen
  <2>. QED BY <1>2, <2>1 DEF Stays
<1>5. PICK id \in Range(liveList) : id[1] = trace[j].addr /\ id[2] = trace[j].arg
  BY <1>1, <1>3, <1>4, SMTT(30) DEF IInv, CoverInv
<1>6. Holds(id, a)
  BY <1>2, <1>5, SMTT(30) DEF Holds, Start, End, Opens
<1>7. liveList \in Seq(Id) /\ DOMAIN liveList = 1 .. Len(liveList)
  BY DEF IInv, ListInv
<1>8. Holders(a) # {}
  BY <1>5, <1>6, <1>7, RangeIndex, SMTT(30) DEF Holders
<1>9. Holders(a) \in SUBSET (1 .. Len(liveList))
  BY <1>7 DEF Holders
<1>10. \A i \in Holders(a) : liveList[i] \in Range(liveList)
  BY <1>7, <1>9, RangeIndex, SMTT(30)
<1>11. \E i \in Holders(a) : \A k \in Holders(a) : i <= k
  <2>1. Holders(a) \in SUBSET Nat
    BY <1>9
  <2>. QED BY <1>8, <2>1, LeastNat, SMTT(30)
<1>12. (CHOOSE i \in Holders(a) : \A k \in Holders(a) : i <= k) \in Holders(a)
  BY <1>11
<1>13. Found(a) \in Range(liveList)
  BY <1>10, <1>12, Zenon DEF Found
<1>. QED BY <1>1, <1>8, <1>13, SMTT(30)

\* A "STORE" line.
LEMMA StoreStep == IInv /\ OnStore => IInv'
<1>. SUFFICES ASSUME IInv, OnStore PROVE IInv'
  OBVIOUS
<1>0. Reading("store") /\ UNCHANGED <<inside, building, liveList, stacks, usage>>
  BY DEF OnStore
<1>. DEFINE id == Found(CurrentLine.addr)
<1>1. NextLine /\ WriteStore(id, CurrentLine.addr, CurrentLine.value)
  BY <1>0, StoreFound DEF OnStore
<1>2. id \in Range(liveList)
  BY <1>0, StoreFound
<1>. HIDE DEF id
<1>3. DOMAIN alloc' = DOMAIN alloc /\ \E l : files' = WriteLine(files, id, l)
  BY <1>1 DEF WriteStore
<1>4. StatusInv' /\ TraceInv' /\ CutInv' /\ status = "parsing" /\ status' = "parsing"
  BY <1>0, <1>1, LineFrame, Zenon
<1>5. ListInv'
  <2>1. \A a : At(a)' = At(a)
    BY <1>0 DEF At
  <2>. QED BY <1>0, <1>3, <1>4, <2>1, SMTT(30) DEF IInv, ListInv
<1>6. FilesInv'
  <2>1. liveList \in Seq(Id) /\ FilesOK(files) /\ Range(files.handles) \subseteq Range(liveList)
    BY DEF IInv, ListInv, FilesInv
  <2>2. id \in Id
    BY <1>2, <2>1, RangeIndex, SMTT(30)
  <2>3. FilesOK(files') /\ Range(files'.handles) \subseteq Range(files.handles) \cup {id}
    BY <1>3, <2>1, <2>2, WriteLineOK, SMTT(30)
  <2>4. FilesOK(files') /\ Range(files'.handles) \subseteq Range(liveList')
    BY <1>0, <1>2, <2>1, <2>3, SMTT(30)
  <2>. QED BY <2>4 DEF FilesInv, FilesOK, Distinct
<1>7. CoverInv'
  BY <1>0, <1>1, CoverStays, SMTT(30) DEF IInv
<1>8. line = 1 /\ trace[pos].type = "STORE" /\ trace[pos] \in Event
  BY <1>0, AtLine, SMTT(30) DEF IInv
<1>9. Len(LinesOf(trace[pos])) = 1
  BY <1>8, LinesKinds, Zenon
<1>10. inside' = "none" /\ building' = NoAlloc
  BY <1>0, <1>4, <1>8, SMTT(30) DEF IInv, ReaderInv
<1>11. ReaderInv'
  BY <1>0, <1>1, <1>8, <1>9, <1>10, ReaderStep, SMTT(30) DEF IInv
<1>. QED BY <1>4, <1>5, <1>6, <1>7, <1>11, SMTT(30) DEF IInv

-----------------------------------------------------------------------------
(* Allocations and frees. *)

\* close_and_finalize: the file of the allocation is closed and gone.
LEMMA FinalizeOK ==
    ASSUME FilesOK(files), NEW id, Finalize(id)
    PROVE  FilesOK(files') /\ Range(files'.handles) = Range(files.handles) \ {id}
<1>. DEFINE f == ClosePath(files, id)
<1>1. FilesOK(f) /\ Range(f.handles) = Range(files.handles) \ {id}
  BY ClosePathOK
<1>2. files' = [f EXCEPT !.tmp = Without(f.tmp, id)]
  BY DEF Finalize
<1>. HIDE DEF f
<1>. DEFINE t == Without(f.tmp, id)
<1>3. f = [handles |-> f.handles, buf |-> f.buf, tmp |-> f.tmp]
  BY <1>1 DEF FilesOK
<1>4. DOMAIN t = DOMAIN f.tmp \ {id}
  BY DEF Without
<1>5. files' = [f EXCEPT !.tmp = t]
  BY <1>2
<1>. HIDE DEF t
<1>6. files' = [handles |-> f.handles, buf |-> f.buf, tmp |-> t]
  BY <1>3, <1>5
<1>7. files'.handles = f.handles /\ files'.buf = f.buf /\ files'.tmp = t
  BY <1>6
<1>. QED BY <1>1, <1>4, <1>6, <1>7, ZenonT(30) DEF FilesOK

\* Insertion at the place that bisect_left returns.
LEMMA InsertAll ==
    ASSUME NEW S, \A y \in S : Start(y) \in Nat, NEW s \in Seq(S), Sorted(s), Distinct(s),
           NEW x \in S, x \notin Range(s), NEW i \in 1 .. Len(s) + 1,
           \A j \in 1 .. Len(s) : IF j < i THEN Start(s[j]) < Start(x) ELSE Start(x) <= Start(s[j])
    PROVE  /\ InsertAt(s, i, x) \in Seq(S) /\ Sorted(InsertAt(s, i, x)) /\ Distinct(InsertAt(s, i, x))
           /\ Range(InsertAt(s, i, x)) = Range(s) \cup {x}
<1>1. InsertAt(s, i, x) \in Seq(S)
  BY InsertAtSeq
<1>2. Distinct(InsertAt(s, i, x)) /\ Range(InsertAt(s, i, x)) = Range(s) \cup {x}
  BY InsertDistinct
<1>3. Sorted(InsertAt(s, i, x))
  BY InsertSorted, Zenon
<1>. QED BY <1>1, <1>2, <1>3, Zenon

\* The same for allocations.
LEMMA InsertIds ==
    ASSUME NEW s \in Seq(Id), Sorted(s), Distinct(s), NEW x \in Id, x \notin Range(s), NEW i \in 1 .. Len(s) + 1,
           \A j \in 1 .. Len(s) : IF j < i THEN Start(s[j]) < Start(x) ELSE Start(x) <= Start(s[j])
    PROVE  /\ InsertAt(s, i, x) \in Seq(Id) /\ Sorted(InsertAt(s, i, x)) /\ Distinct(InsertAt(s, i, x))
           /\ Range(InsertAt(s, i, x)) = Range(s) \cup {x}
<1>1. \A y \in Id : Start(y) \in Nat
  BY StartsNat, Zenon
<1>. QED BY <1>1, InsertAll

\* _add
LEMMA AddLists ==
    ASSUME ListInv, status = "parsing", status' = "parsing",
           NEW a \in Starts, NEW n \in Nat, NEW id, id = <<a, n, usage[a] + 1>>,
           usage' = [usage EXCEPT ![a] = usage[a] + 1], Add(id)
    PROVE  ListInv' /\ Range(liveList') = Range(liveList) \cup {id}
<1>1. /\ liveList \in Seq(Id) /\ Distinct(liveList) /\ stacks \in [Starts -> Seq(Id)]
      /\ usage \in [Starts -> Nat] /\ DOMAIN alloc = Range(liveList) /\ Sorted(liveList)
      /\ \A b \in Starts : Distinct(stacks[b]) /\ Range(stacks[b]) = At(b)
      /\ \A x \in Range(liveList) : x[3] <= usage[x[1]]
  BY Zenon DEF ListInv
<1>2. id \in Id /\ id[1] = a /\ id[3] = usage[a] + 1 /\ Start(id) = a /\ usage[a] \in Nat
  BY <1>1 DEF Id, Start
<1>3. id \notin Range(liveList)
  <2>1. ~ (usage[a] + 1 <= usage[a])
    BY <1>2
  <2>. QED BY <1>1, <1>2, <2>1
<1>4. PICK i : /\ i = Cardinality({j \in DOMAIN liveList : Start(liveList[j]) < Start(id)}) + 1
               /\ liveList' = InsertAt(liveList, i, id)
  BY Zenon DEF Add
<1>5. /\ i \in 1 .. Len(liveList) + 1
      /\ \A j \in 1 .. Len(liveList) :
             IF j < i THEN Start(liveList[j]) < Start(id) ELSE Start(id) <= Start(liveList[j])
  BY <1>1, <1>2, <1>4, BisectLeft, Zenon
<1>7. /\ liveList' \in Seq(Id) /\ Distinct(liveList') /\ Range(liveList') = Range(liveList) \cup {id}
      /\ Sorted(liveList')
  <2>1. /\ InsertAt(liveList, i, id) \in Seq(Id) /\ Sorted(InsertAt(liveList, i, id))
        /\ Distinct(InsertAt(liveList, i, id))
        /\ Range(InsertAt(liveList, i, id)) = Range(liveList) \cup {id}
    <3>1. liveList \in Seq(Id) /\ Sorted(liveList) /\ Distinct(liveList)
      BY <1>1
    <3>2. id \in Id
      BY <1>2
    <3>. QED BY <1>3, <1>5, <3>1, <3>2, InsertIds, Zenon
  <2>. QED BY <1>4, <2>1, Zenon
<1>8. stacks' = [stacks EXCEPT ![a] = Append(stacks[a], id)] /\ DOMAIN alloc' = DOMAIN alloc \cup {id}
  BY <1>2, Zenon DEF Add, With
<1>9. At(a)' = At(a) \cup {id} /\ \A b \in Starts \ {a} : At(b)' = At(b)
  BY <1>2, <1>7, Zenon DEF At
<1>10. /\ Append(stacks[a], id) \in Seq(Id) /\ Distinct(Append(stacks[a], id))
       /\ Range(Append(stacks[a], id)) = At(a) \cup {id}
  <2>1. stacks[a] \in Seq(Id) /\ Distinct(stacks[a]) /\ Range(stacks[a]) = At(a)
    BY <1>1
  <2>2. id \notin At(a)
    BY <1>3 DEF At
  <2>. QED BY <1>2, <2>1, <2>2, AppendDistinct, SMTT(30)
<1>11. stacks' \in [Starts -> Seq(Id)]
  BY <1>1, <1>8, <1>10, SMTT(30)
<1>12. \A b \in Starts : Distinct(stacks'[b]) /\ Range(stacks'[b]) = At(b)'
  <2>1. stacks'[a] = Append(stacks[a], id) /\ \A b \in Starts \ {a} : stacks'[b] = stacks[b]
    BY <1>1, <1>8, Zenon
  <2>2. \A b \in Starts \ {a} : Distinct(stacks'[b]) /\ Range(stacks'[b]) = At(b)'
    BY <1>1, <1>9, <2>1, Zenon
  <2>. QED BY <1>9, <1>10, <2>1, <2>2, ZenonT(30)
<1>13. usage' \in [Starts -> Nat] /\ usage'[a] = usage[a] + 1 /\ \A b \in Starts : usage[b] <= usage'[b]
  BY <1>1, <1>2, SMTT(30)
<1>14. \A x \in Range(liveList') : x[3] <= usage'[x[1]]
  <2>. SUFFICES ASSUME NEW x \in Range(liveList') PROVE x[3] <= usage'[x[1]]
    OBVIOUS
  <2>1. CASE x = id
    BY <1>2, <1>13, <2>1, SMTT(30)
  <2>2. CASE x \in Range(liveList)
    <3>1. x \in Id
      BY <1>1, <2>2, RangeIndex, Zenon
    <3>2. x[1] \in Starts /\ x[3] \in Nat /\ usage[x[1]] \in Nat /\ usage'[x[1]] \in Nat
      BY <1>1, <1>13, <3>1, Zenon DEF Id
    <3>3. x[3] <= usage[x[1]] /\ usage[x[1]] <= usage'[x[1]]
      BY <1>1, <1>13, <2>2, <3>2, SMTT(30)
    <3>. QED BY <3>2, <3>3, SMTT(30)
  <2>. QED BY <1>7, <2>1, <2>2, SMTT(30)
<1>. QED BY <1>1, <1>7, <1>8, <1>11, <1>12, <1>13, <1>14, Zenon DEF ListInv

\* The header of an allocation.
LEMMA AllocHeaderStep == IInv /\ OnAllocHeader => IInv'
<1>. SUFFICES ASSUME IInv, OnAllocHeader PROVE IInv'
  OBVIOUS
<1>1. Reading("header") /\ inside = "alloc" /\ NextLine /\ inside' = inside /\ files' = files
  BY DEF OnAllocHeader
<1>2. /\ trace[pos].type # "STORE" /\ line = 2 /\ CurrentLine = Header(trace[pos])
      /\ pos \in 1 .. Len(trace) /\ Len(trace) \in Nat /\ trace[pos] \in Event
  BY <1>1, AtLine DEF IInv
<1>3. StatusInv' /\ TraceInv' /\ CutInv' /\ status = "parsing" /\ status' = "parsing" /\ trace' = trace
  BY <1>1, LineFrame, SMTT(30)
<1>4. trace[pos].type = "ALLOC"
  BY <1>1, <1>2, <1>3, SMTT(30) DEF IInv, ReaderInv
<1>5. PICK a \in Starts, n \in Nat : a = trace[pos].addr /\ n = trace[pos].arg
  <2>1. trace[pos].addr \in Starts
    BY <1>2 DEF IInv, TraceInv, TraceOK
  <2>2. trace[pos].arg \in Nat
    BY <1>2 DEF Event
  <2>. QED BY <2>1, <2>2, SMTT(30)
<1>6. CurrentLine.addr = a /\ CurrentLine.size = n
  BY <1>2, <1>5 DEF Header
<1>7. PICK id : /\ id = <<a, n, usage[a] + 1>> /\ usage' = [usage EXCEPT ![a] = usage[a] + 1]
                /\ Add(id) /\ building' = id
  BY <1>6, Zenon DEF OnAllocHeader
<1>8. ListInv' /\ Range(liveList') = Range(liveList) \cup {id}
  BY <1>3, <1>7, AddLists, ZenonT(30) DEF IInv
<1>9. FilesInv'
  <2>1. FilesOK(files) /\ Range(files.handles) \subseteq Range(liveList)
    BY DEF IInv, FilesInv
  <2>2. FilesOK(files') /\ Range(files'.handles) \subseteq Range(liveList')
    BY <1>1, <1>8, <2>1
  <2>. QED BY <2>2 DEF FilesInv, FilesOK, Distinct
<1>10. id[1] = a /\ id[2] = n /\ id \in Range(liveList')
  BY <1>7, <1>8
<1>11. CoverInv'
  <2>1. \A j \in 1 .. Len(trace) : Seen(j)' <=> Seen(j) \/ j = pos
    BY <1>1, Advance, Zenon DEF IInv
  <2>. SUFFICES ASSUME NEW j \in 1 .. Len(trace), Seen(j)', trace[j].type = "ALLOC",
                       \A i \in j + 1 .. Len(trace) : Seen(i)' => ~ Closes(trace, i, j)
                PROVE  \E x \in Range(liveList') : x[1] = trace[j].addr /\ x[2] = trace[j].arg
    BY <1>3 DEF CoverInv
  <2>2. CASE j = pos
    BY <1>5, <1>10, <2>2, Zenon
  <2>3. CASE Seen(j)
    <3>1. \A i \in j + 1 .. Len(trace) : Seen(i) => ~ Closes(trace, i, j)
      <4>1. \A i \in j + 1 .. Len(trace) : i \in 1 .. Len(trace)
        BY <1>2
      <4>. QED BY <2>1, <4>1, SMTT(30)
    <3>2. PICK x \in Range(liveList) : x[1] = trace[j].addr /\ x[2] = trace[j].arg
      BY <1>3, <2>3, <3>1, Zenon DEF IInv, CoverInv
    <3>. QED BY <1>8, <3>2, Zenon
  <2>. QED BY <2>1, <2>2, <2>3, SMTT(30)
<1>12. Len(LinesOf(trace[pos])) = 4
  BY <1>2, LinesKinds, SMTT(30)
<1>13. ReaderInv'
  <2>1. /\ line < Len(LinesOf(trace[pos])) => inside' = Section(pos)
        /\ line = Len(LinesOf(trace[pos])) => inside' = "none"
        /\ building' # NoAlloc => building' \in Range(liveList') /\ inside' = "alloc"
    BY <1>1, <1>2, <1>4, <1>7, <1>10, <1>12, SMTT(30) DEF Section
  <2>. QED BY <1>1, <2>1, ReaderStep, SMTT(30) DEF IInv
<1>. QED BY <1>3, <1>8, <1>9, <1>11, <1>13, SMTT(30) DEF IInv

\* _remove of the latest allocation at an address.
LEMMA RemoveLists ==
    ASSUME ListInv, status = "parsing", status' = "parsing", NEW a \in Starts, stacks[a] # << >>,
           NEW id, id = Last(stacks[a]), RemoveAlloc(id), usage' = usage
    PROVE  ListInv' /\ Range(liveList') = Range(liveList) \ {id} /\ id[1] = a
<1>1. /\ liveList \in Seq(Id) /\ Distinct(liveList) /\ stacks \in [Starts -> Seq(Id)]
      /\ usage \in [Starts -> Nat] /\ DOMAIN alloc = Range(liveList) /\ Sorted(liveList)
      /\ \A b \in Starts : Distinct(stacks[b]) /\ Range(stacks[b]) = At(b)
      /\ \A x \in Range(liveList) : x[3] <= usage[x[1]]
  BY DEF ListInv
<1>2. PICK s \in Seq(Id) : s = stacks[a] /\ Distinct(s) /\ Range(s) = At(a) /\ s # << >> /\ id = Last(s)
  BY <1>1, Zenon
<1>3. /\ Last(s) \in Range(s) /\ Front(s) \in Seq(Id) /\ Distinct(Front(s))
      /\ Range(Front(s)) = Range(s) \ {Last(s)}
  BY <1>2, FrontDistinct, Zenon
<1>4. id \in Range(liveList) /\ Start(id) = a /\ id[1] = a
  BY <1>2, <1>3, Zenon DEF At, Start
<1>5. /\ liveList' \in Seq(Id) /\ Distinct(liveList') /\ Range(liveList') = Range(liveList) \ {id}
      /\ Sorted(liveList')
  <2>1. liveList' = RemoveFrom(liveList, id)
    BY Zenon DEF RemoveAlloc
  <2>2. /\ RemoveFrom(liveList, id) \in Seq(Id) /\ Distinct(RemoveFrom(liveList, id))
        /\ Range(RemoveFrom(liveList, id)) = Range(liveList) \ {id}
    BY <1>1, <1>4, RemoveFromSeq, Zenon
  <2>3. Sorted(RemoveFrom(liveList, id))
    BY <1>1, <1>4, RemoveSorted, Zenon
  <2>. QED BY <2>1, <2>2, <2>3, SMTT(30)
<1>6. stacks' = [stacks EXCEPT ![a] = Front(s)] /\ DOMAIN alloc' = DOMAIN alloc \ {id}
  BY <1>2, <1>4, Zenon DEF RemoveAlloc, Without
<1>7. At(a)' = At(a) \ {id} /\ \A b \in Starts \ {a} : At(b)' = At(b)
  BY <1>4, <1>5, Zenon DEF At
<1>8. stacks' \in [Starts -> Seq(Id)]
  BY <1>1, <1>3, <1>6, Zenon
<1>9. \A b \in Starts : Distinct(stacks'[b]) /\ Range(stacks'[b]) = At(b)'
  <2>1. stacks'[a] = Front(s) /\ \A b \in Starts \ {a} : stacks'[b] = stacks[b]
    BY <1>1, <1>6, Zenon
  <2>2. \A b \in Starts \ {a} : Distinct(stacks'[b]) /\ Range(stacks'[b]) = At(b)'
    BY <1>1, <1>7, <2>1, Zenon
  <2>. QED BY <1>2, <1>3, <1>7, <2>1, <2>2, Zenon
<1>10. \A x \in Range(liveList') : x[3] <= usage'[x[1]]
  BY <1>1, <1>5
<1>. QED BY <1>1, <1>4, <1>5, <1>6, <1>8, <1>9, <1>10, Zenon DEF ListInv

\* The header of a free: the latest allocation at the address ends.
LEMMA FreeHeaderStep == IInv /\ OnFreeHeader => IInv'
<1>. SUFFICES ASSUME IInv, OnFreeHeader PROVE IInv'
  OBVIOUS
<1>1. Reading("header") /\ inside = "free" /\ NextLine /\ UNCHANGED <<inside, building>>
  BY DEF OnFreeHeader
<1>2. /\ trace[pos].type # "STORE" /\ line = 2 /\ CurrentLine = Header(trace[pos])
      /\ pos \in 1 .. Len(trace) /\ Len(trace) \in Nat /\ trace[pos] \in Event
  BY <1>1, AtLine DEF IInv
<1>3. StatusInv' /\ TraceInv' /\ CutInv' /\ status = "parsing" /\ status' = "parsing" /\ trace' = trace
  BY <1>1, LineFrame, Zenon
<1>4. trace[pos].type = "FREE" /\ building = NoAlloc
  BY <1>1, <1>2, <1>3, Zenon DEF IInv, ReaderInv, Event
<1>5. PICK a \in Starts : a = trace[pos].addr
  BY <1>2, Zenon DEF IInv, TraceInv, TraceOK
<1>6. CurrentLine.addr = a
  BY <1>2, <1>5, SMTT(30) DEF Header
<1>7. /\ ListInv' /\ FilesInv' /\ Range(liveList') \subseteq Range(liveList)
      /\ \A x \in Range(liveList) : x[1] # a => x \in Range(liveList')
  <2>1. CASE stacks[a] = << >>
    <3>1. UNCHANGED <<allocs, files, out>>
      BY <1>6, <2>1, SMTT(30) DEF OnFreeHeader
    <3>2. UNCHANGED <<liveList, stacks, usage, alloc, files>>
      BY <3>1 DEF allocs
    <3>3. ListInv' /\ FilesInv'
      BY <1>3, <3>2, ListStays, FilesStay, SMTT(30) DEF IInv
    <3>. QED BY <3>2, <3>3, SMTT(30)
  <2>2. CASE stacks[a] # << >>
    <3>1. PICK id : id = Last(stacks[a]) /\ Finalize(id) /\ RemoveAlloc(id) /\ usage' = usage
      BY <1>6, <2>2, Zenon DEF OnFreeHeader
    <3>2. ListInv' /\ Range(liveList') = Range(liveList) \ {id} /\ id[1] = a
      BY <1>3, <2>2, <3>1, RemoveLists, SMTT(30) DEF IInv
    <3>3. FilesOK(files) /\ Range(files.handles) \subseteq Range(liveList)
      BY DEF IInv, FilesInv
    <3>4. FilesOK(files') /\ Range(files'.handles) = Range(files.handles) \ {id}
      BY <3>1, <3>3, FinalizeOK, SMTT(30)
    <3>5. FilesInv'
      <4>1. FilesOK(files') /\ Range(files'.handles) \subseteq Range(liveList')
        BY <3>2, <3>3, <3>4, Zenon
      <4>. QED BY <4>1 DEF FilesInv, FilesOK, Distinct
    <3>. QED BY <3>2, <3>5, SMTT(30)
  <2>. QED BY <2>1, <2>2, SMTT(30)
<1>8. CoverInv'
  <2>1. \A j \in 1 .. Len(trace) : Seen(j)' <=> Seen(j) \/ j = pos
    BY <1>1, Advance, SMTT(30) DEF IInv
  <2>. SUFFICES ASSUME NEW j \in 1 .. Len(trace), Seen(j)', trace[j].type = "ALLOC",
                       \A i \in j + 1 .. Len(trace) : Seen(i)' => ~ Closes(trace, i, j)
                PROVE  \E x \in Range(liveList') : x[1] = trace[j].addr /\ x[2] = trace[j].arg
    BY <1>3 DEF CoverInv
  <2>2. Seen(j) /\ j < pos
    <3>1. j # pos
      BY <1>4
    <3>. QED BY <2>1, <3>1, SMTT(30) DEF Seen
  <2>3. \A i \in j + 1 .. Len(trace) : Seen(i) => ~ Closes(trace, i, j)
    <3>1. \A i \in j + 1 .. Len(trace) : i \in 1 .. Len(trace)
      BY <1>2
    <3>. QED BY <2>1, <3>1, SMTT(30)
  <2>4. PICK x \in Range(liveList) : x[1] = trace[j].addr /\ x[2] = trace[j].arg
    BY <1>3, <2>2, <2>3, Zenon DEF IInv, CoverInv
  <2>5. trace[j].addr # a
    <3>1. pos \in j + 1 .. Len(trace)
      BY <1>2, <2>2, SMTT(30)
    <3>2. ~ Closes(trace, pos, j)
      BY <1>2, <2>1, <3>1, Zenon
    <3>. QED BY <1>4, <1>5, <3>2, SMTT(30) DEF Closes
  <2>. QED BY <1>7, <2>4, <2>5, SMTT(30)
<1>9. Len(LinesOf(trace[pos])) = 4
  BY <1>2, LinesKinds, SMTT(30)
<1>10. ReaderInv'
  <2>1. /\ line < Len(LinesOf(trace[pos])) => inside' = Section(pos)
        /\ line = Len(LinesOf(trace[pos])) => inside' = "none"
        /\ building' = NoAlloc
    BY <1>1, <1>2, <1>4, <1>9, SMTT(30) DEF Section
  <2>. QED BY <1>1, <2>1, ReaderStep, SMTT(30) DEF IInv
<1>. QED BY <1>3, <1>7, <1>8, <1>10, Zenon DEF IInv

-----------------------------------------------------------------------------
(* The end of the log, and kills. *)

\* A sequence without repetition is as long as its range is large.
LEMMA DistinctLen ==
    ASSUME NEW S, NEW s \in Seq(S), Distinct(s)
    PROVE  IsFiniteSet(Range(s)) /\ Cardinality(Range(s)) = Len(s)
<1>1. DOMAIN s = 1 .. Len(s) /\ Len(s) \in Nat
  BY RangeIndex
<1>2. s \in Bijection(1 .. Len(s), Range(s))
  <2>1. s \in [1 .. Len(s) -> Range(s)]
    BY <1>1, RangeIndex
  <2>2. \A i, j \in 1 .. Len(s) : s[i] = s[j] => i = j
    BY <1>1 DEF Distinct
  <2>3. \A x \in Range(s) : \E i \in 1 .. Len(s) : s[i] = x
    BY RangeIndex
  <2>. QED BY <2>1, <2>2, <2>3, SMTT(30) DEF Bijection, Injection, Surjection, IsInjective
<1>3. IsFiniteSet(1 .. Len(s)) /\ Cardinality(1 .. Len(s)) = Len(s)
  BY <1>1, FS_Interval, SMTT(30)
<1>4. ExistsBijection(1 .. Len(s), Range(s))
  BY <1>2 DEF ExistsBijection
<1>. QED BY <1>3, <1>4, FS_Bijection, SMTT(30)

\* A sequence without its last member.
LEMMA FrontLen ==
    ASSUME NEW S, NEW s \in Seq(S), s # << >>
    PROVE  Front(s) \in Seq(S) /\ Len(Front(s)) = Len(s) - 1
<1>1. Len(s) \in Nat /\ Len(s) # 0 /\ \A k \in 1 .. Len(s) - 1 : s[k] \in S
  OBVIOUS
<1>2. /\ SubSeq(s, 1, Len(s) - 1) \in Seq(S)
      /\ Len(SubSeq(s, 1, Len(s) - 1)) = IF 1 <= Len(s) - 1 THEN Len(s) - 1 - 1 + 1 ELSE 0
  BY <1>1, SubSeqProperties
<1>3. Len(SubSeq(s, 1, Len(s) - 1)) = Len(s) - 1
  <2>1. PICK n \in Nat, m \in Nat : n = Len(s) /\ m = Len(SubSeq(s, 1, Len(s) - 1)) /\ n # 0
    BY <1>1, <1>2
  <2>2. m = IF 1 <= n - 1 THEN n - 1 - 1 + 1 ELSE 0
    BY <1>2, <2>1
  <2>3. m = n - 1
    BY <2>1, <2>2
  <2>. QED BY <2>1, <2>3
<1>4. Front(s) = SubSeq(s, 1, Len(s) - 1)
  BY DEF Front
<1>. QED BY <1>2, <1>3, <1>4, SMTT(30)

\* The end of the log.
LEMMA EndStep == IInv /\ EndOfLog => IInv'
<1>. SUFFICES ASSUME IInv, EndOfLog PROVE IInv'
  OBVIOUS
<1>1. /\ status = "parsing" /\ status' = "finalizing" /\ UNCHANGED <<tracer, crashes>>
      /\ UNCHANGED <<pos, line, inside, building, liveList, stacks, usage, alloc, files>>
  BY DEF EndOfLog, reader, allocs, disk
<1>2. TraceInv' /\ CutInv'
  BY <1>1, TracerStays DEF IInv
<1>3. StatusInv' /\ CoverInv'
  BY <1>1, Zenon DEF IInv, StatusInv, CoverInv
<1>4. ReaderInv'
  BY <1>1 DEF IInv, ReaderInv, tracer
<1>5. FilesInv'
  BY <1>1, FilesStay DEF IInv
<1>6. \A a \in Starts : Len(stacks[a]) = Cardinality(At(a))
  <2>. SUFFICES ASSUME NEW a \in Starts PROVE Len(stacks[a]) = Cardinality(At(a))
    OBVIOUS
  <2>1. stacks[a] \in Seq(Id) /\ Distinct(stacks[a]) /\ Range(stacks[a]) = At(a)
    BY <1>1 DEF IInv, ListInv
  <2>2. Cardinality(Range(stacks[a])) = Len(stacks[a])
    BY <2>1, DistinctLen, Zenon
  <2>. QED BY <2>1, <2>2, SMTT(30)
<1>7. ListInv'
  <2>1. \A a : At(a)' = At(a)
    BY <1>1 DEF At
  <2>. QED BY <1>1, <1>6, <2>1, SMTT(30) DEF IInv, ListInv
<1>. QED BY <1>2, <1>3, <1>4, <1>5, <1>7, SMTT(30) DEF IInv

\* A leftover is finalized.  live_list.pop(0) and live_allocs[start].pop() may
\* name different allocations at one address, so the lists agree in number.
LEMMA FinalizeStep == IInv /\ FinalizeNext => IInv'
<1>. SUFFICES ASSUME IInv, FinalizeNext PROVE IInv'
  OBVIOUS
<1>1. /\ status = "finalizing" /\ status' = status /\ UNCHANGED <<tracer, crashes, usage>>
      /\ UNCHANGED <<pos, line, inside, building>> /\ liveList # << >>
  BY DEF FinalizeNext, reader
<1>2. PICK id : id = Head(liveList) /\ Finalize(id) /\ RemoveAlloc(id)
  BY Zenon DEF FinalizeNext
<1>3. /\ liveList \in Seq(Id) /\ Distinct(liveList) /\ stacks \in [Starts -> Seq(Id)]
      /\ usage \in [Starts -> Nat] /\ DOMAIN alloc = Range(liveList)
      /\ \A a \in Starts : Len(stacks[a]) = Cardinality(At(a))
  BY <1>1, Zenon DEF IInv, ListInv
<1>4. id \in Range(liveList)
  <2>1. 1 \in 1 .. Len(liveList) /\ Head(liveList) = liveList[1]
    BY <1>1, <1>3
  <2>. QED BY <1>2, <1>3, <2>1, RangeIndex, SMTT(30)
<1>5. PICK a \in Starts : a = Start(id)
  BY <1>3, <1>4, RangeIndex, StartsNat, Zenon
<1>6. /\ RemoveFrom(liveList, id) \in Seq(Id) /\ Distinct(RemoveFrom(liveList, id))
      /\ Range(RemoveFrom(liveList, id)) = Range(liveList) \ {id}
  BY <1>3, <1>4, RemoveFromSeq, SMTT(30)
<1>7. /\ liveList' = RemoveFrom(liveList, id) /\ stacks' = [stacks EXCEPT ![a] = Front(stacks[a])]
      /\ DOMAIN alloc' = DOMAIN alloc \ {id}
  BY <1>2, <1>5, Zenon DEF RemoveAlloc, Without
<1>8. id \in At(a) /\ At(a)' = At(a) \ {id} /\ \A b \in Starts \ {a} : At(b)' = At(b)
  BY <1>4, <1>5, <1>6, <1>7, SMTT(30) DEF At
<1>9. IsFiniteSet(At(a))
  <2>1. IsFiniteSet(Range(liveList))
    BY <1>3, DistinctLen, SMTT(30)
  <2>2. At(a) \in SUBSET Range(liveList)
    BY DEF At
  <2>. QED BY <2>1, <2>2, FS_Subset, SMTT(30)
<1>10. PICK s \in Seq(Id) : s = stacks[a] /\ Len(s) = Cardinality(At(a))
  BY <1>3
<1>11. /\ Cardinality(At(a)) \in Nat /\ Cardinality(At(a)) # 0
       /\ Cardinality(At(a) \ {id}) = Cardinality(At(a)) - 1
  BY <1>8, <1>9, FS_CardinalityType, FS_EmptySet, FS_RemoveElement, ZenonT(30)
<1>12. Front(s) \in Seq(Id) /\ Len(Front(s)) = Len(s) - 1
  <2>1. s # << >>
    BY <1>10, <1>11
  <2>. QED BY <2>1, FrontLen
<1>13. stacks' \in [Starts -> Seq(Id)] /\ \A b \in Starts : Len(stacks'[b]) = Cardinality(At(b)')
  <2>1. stacks' = [stacks EXCEPT ![a] = Front(s)]
    BY <1>7, <1>10, SMTT(30)
  <2>2. stacks' \in [Starts -> Seq(Id)] /\ stacks'[a] = Front(s) /\ \A b \in Starts \ {a} : stacks'[b] = stacks[b]
    BY <1>3, <1>12, <2>1, SMTT(30)
  <2>3. \A b \in Starts \ {a} : Len(stacks'[b]) = Cardinality(At(b)')
    BY <1>3, <1>8, <2>2, SMTT(30)
  <2>4. Len(stacks'[a]) = Cardinality(At(a)')
    BY <1>8, <1>10, <1>11, <1>12, <2>2, Zenon
  <2>. QED BY <2>2, <2>3, <2>4, SMTT(30)
<1>14. ListInv'
  BY <1>1, <1>3, <1>6, <1>7, <1>13, Zenon DEF ListInv
<1>15. FilesInv'
  <2>1. FilesOK(files) /\ Range(files.handles) \subseteq Range(liveList)
    BY DEF IInv, FilesInv
  <2>2. FilesOK(files') /\ Range(files'.handles) = Range(files.handles) \ {id}
    BY <1>2, <2>1, FinalizeOK, Zenon
  <2>3. FilesOK(files') /\ Range(files'.handles) \subseteq Range(liveList')
    BY <1>6, <1>7, <2>1, <2>2, SMTT(30)
  <2>. QED BY <2>3 DEF FilesInv, FilesOK, Distinct
<1>16. TraceInv' /\ CutInv'
  BY <1>1, TracerStays, Zenon DEF IInv
<1>17. StatusInv' /\ CoverInv'
  BY <1>1, Zenon DEF IInv, StatusInv, CoverInv
<1>18. ReaderInv'
  BY <1>1 DEF IInv, ReaderInv, tracer
<1>. QED BY <1>14, <1>15, <1>16, <1>17, <1>18, Zenon DEF IInv

\* A cache with no handle.
EmptyHandles(f) == f = [handles |-> << >>, buf |-> << >>, tmp |-> f.tmp]

\* A parser that starts has no open file.
LEMMA EmptyHandlesOK == EmptyHandles(files') => FilesInv'
<1>. SUFFICES ASSUME EmptyHandles(files') PROVE FilesInv'
  OBVIOUS
<1>1. files'.handles = << >> /\ files'.buf = << >>
  BY DEF EmptyHandles
<1>2. files' = [handles |-> files'.handles, buf |-> files'.buf, tmp |-> files'.tmp]
  BY <1>1 DEF EmptyHandles
<1>3. MaxOpen \in Nat
  BY ParserConstantsOK
<1>4. FilesOK(files') /\ Range(files'.handles) \subseteq Range(liveList')
  BY <1>1, <1>2, <1>3, EmptySeqs, Zenon DEF FilesOK
<1>. QED BY <1>4 DEF FilesInv, FilesOK, Distinct

\* The lists of a parser that starts again.
LEMMA FreshListsNext ==
    ASSUME liveList' = << >>, alloc' = << >>, stacks' = [a \in Starts |-> << >>],
           usage' = [a \in Starts |-> 0], status' = "parsing"
    PROVE  ListInv'
<1>1. stacks' \in [Starts -> Seq(Id)] /\ \A a \in Starts : stacks'[a] = << >>
  BY EmptySeqs
<1>2. usage' \in [Starts -> Nat]
  OBVIOUS
<1>3. \A a \in Starts : At(a)' = {}
  BY EmptySeqs DEF At
<1>4. \A a \in Starts : Distinct(stacks'[a]) /\ Range(stacks'[a]) = At(a)'
  BY <1>1, <1>3, EmptySeqs, Zenon
<1>. QED BY <1>1, <1>2, <1>4, EmptySeqs, Zenon DEF ListInv

\* close_all
LEMMA CloseAllStep == IInv /\ Finish => IInv'
<1>. SUFFICES ASSUME IInv, Finish PROVE IInv'
  OBVIOUS
<1>1. /\ status = "finalizing" /\ status' = "done" /\ UNCHANGED <<tracer, crashes>>
      /\ UNCHANGED <<pos, line, inside, building, liveList, stacks, usage, alloc>> /\ liveList = << >>
      /\ files' = CloseAll(files)
  BY DEF Finish, reader, allocs
<1>2. TraceInv' /\ CutInv'
  BY <1>1, TracerStays, Zenon DEF IInv
<1>3. StatusInv' /\ CoverInv'
  BY <1>1, Zenon DEF IInv, StatusInv, CoverInv
<1>4. ReaderInv'
  BY <1>1, Zenon DEF IInv, ReaderInv, tracer
<1>5. ListInv'
  <2>1. \A a : At(a)' = At(a)
    BY <1>1 DEF At
  <2>. QED BY <1>1, <2>1, SMTT(30) DEF IInv, ListInv
<1>6. FilesInv'
  <2>1. PICK t : files' = [handles |-> << >>, buf |-> << >>, tmp |-> t]
    BY <1>1, Zenon DEF CloseAll
  <2>2. EmptyHandles(files')
    BY <2>1 DEF EmptyHandles
  <2>. QED BY <2>2, EmptyHandlesOK, SMTT(30)
<1>. QED BY <1>2, <1>3, <1>4, <1>5, <1>6, SMTT(30) DEF IInv

\* The parser is killed and started again.
LEMMA CrashStep == IInv /\ Crash => IInv'
<1>. SUFFICES ASSUME IInv, Crash PROVE IInv'
  OBVIOUS
<1>1. /\ status \in {"parsing", "finalizing"} /\ status' = "parsing" /\ UNCHANGED tracer
      /\ crashes < MaxCrashes /\ crashes' = crashes + 1
      /\ pos' = 1 /\ line' = 1 /\ inside' = "none" /\ building' = NoAlloc
      /\ liveList' = <<>> /\ alloc' = <<>>
      /\ stacks' = [a \in Starts |-> <<>>] /\ usage' = [a \in Starts |-> 0]
  BY DEF Crash
<1>2. TraceInv' /\ CutInv'
  BY <1>1, TracerStays DEF IInv
<1>3. StatusInv'
  <2>1. crashes \in 0 .. MaxCrashes /\ MaxCrashes \in Nat
    BY ParserConstantsOK DEF IInv, StatusInv
  <2>2. crashes' \in 0 .. MaxCrashes
    BY <1>1, <2>1, SMTT(30)
  <2>. QED BY <1>1, <2>2, SMTT(30) DEF StatusInv
<1>4. trace' = trace /\ trace \in Seq(Event) /\ Len(trace) \in Nat
  BY <1>1 DEF IInv, TraceInv, TraceOK, tracer
<1>5. ReaderInv'
  <2>1. 1 <= Len(trace) => 1 <= Len(LinesOf(trace[1]))
    <3>. SUFFICES ASSUME 1 <= Len(trace) PROVE 1 <= Len(LinesOf(trace[1]))
      OBVIOUS
    <3>1. trace[1] \in Event
      BY <1>4
    <3>. QED BY <3>1, LinesKinds, SMTT(30)
  <2>. QED BY <1>1, <1>4, <2>1, SMTT(30) DEF ReaderInv
<1>6. ListInv'
  BY <1>1, FreshListsNext, SMTT(30)
<1>7. FilesInv'
  <2>1. PICK t : files' = [NoFiles EXCEPT !.tmp = t]
    BY Zenon DEF Crash
  <2>2. EmptyHandles(files')
    BY <2>1 DEF EmptyHandles, NoFiles
  <2>. QED BY <2>2, EmptyHandlesOK, SMTT(30)
<1>8. CoverInv'
  <2>1. \A j \in 1 .. Len(trace) : ~ Seen(j)'
    BY <1>1 DEF Seen
  <2>. QED BY <1>4, <2>1 DEF CoverInv
<1>. QED BY <1>2, <1>3, <1>5, <1>6, <1>7, <1>8, Zenon DEF IInv

-----------------------------------------------------------------------------
(* The invariant. *)

\* Every step keeps the inductive invariant.
LEMMA InvStep == IInv /\ [Next]_vars => IInv'
<1>. SUFFICES ASSUME IInv, [Next]_vars PROVE IInv'
  OBVIOUS
<1>1. CASE Trace
  BY <1>1, TracingStep
<1>2. CASE StartParser
  BY <1>2, StartStep
<1>3. CASE Parse
  BY <1>3, StoreStep, DelimiterStep, AllocHeaderStep, FrameStep, AllocEndStep, FreeHeaderStep,
     EndStep, FinalizeStep, CloseAllStep, SMTT(30) DEF Parse
<1>4. CASE Crash
  BY <1>4, CrashStep
<1>5. CASE UNCHANGED vars
  <2>1. UNCHANGED <<live, trace, cut, status, pos, line, inside, building, liveList, stacks, usage, alloc, files, crashes>>
    BY <1>5 DEF vars, tracer, reader, allocs, disk
  <2>2. ListInv' /\ FilesInv'
    BY <2>1, ListStays, FilesStay, Zenon DEF IInv
  <2>3. TraceInv'
    BY <2>1 DEF IInv, TraceInv, TraceOK, LiveOK, Opens, Stays, Closes, Apart
  <2>4. StatusInv' /\ CutInv' /\ ReaderInv'
    BY <2>1, Zenon DEF IInv, StatusInv, CutInv, ReaderInv
  <2>5. CoverInv'
    BY <2>1 DEF IInv, CoverInv, Seen, Closes
  <2>. QED BY <2>2, <2>3, <2>4, <2>5, Zenon DEF IInv
<1>. QED BY <1>1, <1>2, <1>3, <1>4, <1>5, SMTT(30) DEF Next

\* The invariant holds in every state.
LEMMA Invariance == Spec => []IInv
BY InitInv, InvStep, PTL DEF Spec

\* parse_log raises on no log the tool can write: whenever it reads a STORE
\* line some live allocation holds the address, whatever the program freed,
\* reused, moved or tracked twice and wherever a kill cut the log or the
\* parser; and the cache never holds more than max_open_files handles, none
\* of an allocation that has ended.
THEOREM ParserNeverRaises == Spec => []NeverRaises
<1>1. IInv => NeverRaises
  <2>. SUFFICES ASSUME IInv PROVE NeverRaises
    OBVIOUS
  <2>1. status # "raised"
    BY DEF IInv, StatusInv
  <2>2. Len(files.handles) <= MaxOpen /\ Range(files.handles) \subseteq Range(liveList)
    BY DEF IInv, FilesInv, FilesOK
  <2>. QED BY <2>1, <2>2 DEF NeverRaises
<1>. QED BY <1>1, Invariance, PTL

\* live_list stays sorted, and live_allocs[start] holds exactly its members
\* with that start, at every line and again when the parser is done: what the
\* bisection and the FREE handler rely on.
THEOREM ParserListsAgree == Spec => []ListsAgree
<1>1. IInv => ListsAgree
  <2>. SUFFICES ASSUME IInv PROVE ListsAgree
    OBVIOUS
  <2>1. TypeOK
    BY Zenon DEF IInv, StatusInv, ReaderInv, ListInv, FilesInv, FilesOK, TypeOK
  <2>2. CASE status = "parsing"
    BY <2>1, <2>2, SMTT(30) DEF IInv, ListInv, Sorted, At, ListsAgree
  <2>3. CASE status = "done"
    <3>1. liveList = << >> /\ Range(liveList) = {} /\ DOMAIN liveList = {}
      BY <2>3, EmptySeqs, Zenon DEF IInv, ListInv
    <3>2. \A a \in Starts : stacks[a] \in Seq(Id) /\ Len(stacks[a]) = Cardinality(At(a)) /\ At(a) = {}
      BY <2>3, <3>1, SMTT(30) DEF IInv, ListInv, At
    <3>3. \A a \in Starts : stacks[a] = << >>
      BY <3>2, FS_EmptySet, EmptySeq, Zenon
    <3>4. \A a \in Starts : Range(stacks[a]) = {id \in Range(liveList) : Start(id) = a}
      BY <3>1, <3>3
    <3>. QED BY <2>1, <3>1, <3>4, Zenon DEF ListsAgree
  <2>4. CASE status \notin {"parsing", "done"}
    BY <2>1, <2>4 DEF ListsAgree
  <2>. QED BY <2>2, <2>3, <2>4, Zenon
<1>. QED BY <1>1, Invariance, PTL
=============================================================================
