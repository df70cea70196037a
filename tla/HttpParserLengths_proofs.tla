---------------------- MODULE HttpParserLengths_proofs ----------------------
(***************************************************************************)
(* The length of a body is the number its header or its chunk states: in   *)
(* a parser whose caller drops the results, as the program does, lengths   *)
(* do not wrap.                                                            *)
(*                                                                         *)
(* content_length is computed one digit at a time, over as many calls as   *)
(* the bytes are cut into, and the number is a fold over the text of the   *)
(* header, which the history has in entries that grow.  The invariant says *)
(* of every place in a header what the letters and digits up to it come    *)
(* to: of a name that is still compared, how far it agrees; of a length    *)
(* that is read, the digits and the blanks so far; of one that has been    *)
(* read, the two entries that state it, and that the callbacks that follow *)
(* add to neither.                                                         *)
(***************************************************************************)
EXTENDS HttpParser_proofs
-----------------------------------------------------------------------------
(* The invariant. *)

\* The word whose bytes a name is compared with, and the header_states that do.
LengthName == Chars("content-length")
LengthNameStates == {"h_C", "h_CO", "h_CON", "h_matching_content_length", "h_content_length"}

TextIn(from, to) == [k \in 1..to + 1 - from |-> Lowered(stream[from + k - 1])]
Decimal(text) == FoldLeft(LAMBDA n, c : 10 * n + DigitValue(c), 0, text)

\* The next byte of the data that is read, or its first byte in this piece.
Cur(x, data) == IF x.marks[data] = 0 THEN x.p ELSE x.marks[data]

\* How Record logs data that goes on at byte at: whether with the last entry,
\* the number of entries before it, and its first byte.
Joins(l, data, at) == LastOf(l) = data /\ l[Len(l)].to + 1 = at
Before(l, data, at) == IF Joins(l, data, at) THEN Len(l) - 1 ELSE Len(l)
Began(l, data, at) == IF Joins(l, data, at) THEN l[Len(l)].from ELSE at

\* Entry i is the name of a content length of the message that is read.
NameAt(l, i) ==
  /\ i \in 1..Len(l) /\ BeginIn(l, Len(l)) <= i
  /\ l[i].callback = "header_field" /\ TextIn(l[i].from, l[i].to) = LengthName

Blank == " "

\* The bytes from first to d are the digits of v, and blanks follow up to to.
Numeral(first, d, to, v) ==
  /\ first \in Nat \ {0} /\ d \in first..to
  /\ \A k \in first..d : IS_NUM(stream[k])
  /\ \A k \in d + 1..to : stream[k] = Blank
  /\ v = Decimal(TextIn(first, d)) /\ v < MaxLength

\* Entries i and i + 1 are a header that states the length v.
States_(l, i, v) ==
  /\ i + 1 \in 1..Len(l) /\ NameAt(l, i) /\ l[i + 1].callback = "header_value"
  /\ \E d \in l[i + 1].from..l[i + 1].to : Numeral(l[i + 1].from, d, l[i + 1].to, v)

NameRead(q, x, l) ==
  q.state = "s_header_field" /\ q.header_state \in LengthNameStates =>
    LET first == Began(l, "header_field", Cur(x, "header_field"))
    IN /\ first # 0 /\ x.p - first = q.index + 1
       /\ \A k \in 0..q.index : Lowered(stream[first + k]) = LengthName[k + 1]
       /\ q.header_state = "h_content_length" => q.index + 1 = Len(LengthName)

NameFound(q, l) ==
  /\ q.state \in DiscardStates /\ q.header_state = "h_content_length" => NameAt(l, Len(l))
  /\ q.state \in ValueEndStates \cup {"s_header_value"} => q.header_state # "h_content_length"

\* A length that is read.
Reading(q, x, l) ==
  /\ NameAt(l, Before(l, "header_value", Cur(x, "header_value")))
  /\ LET first == Began(l, "header_value", Cur(x, "header_value"))
     IN \/ q.header_state = "h_content_length_num"
           /\ Numeral(first, x.p - 1, x.p - 1, q.content_length)
        \/ q.header_state = "h_content_length_ws"
           /\ \E d \in first..x.p - 1 : Numeral(first, d, x.p - 1, q.content_length)

\* A length that has been read, in an entry nothing is added to any more.
Stated(q, x, l) ==
  \E i \in 1..Len(l) :
    /\ States_(l, i, q.content_length)
    /\ i + 1 = Len(l) =>
         /\ q.state = "s_header_almost_done" => l[i + 1].to + 1 <= x.p
         /\ q.state \in {"s_header_value_lws", "s_header_value_start"} => l[i + 1].to + 1 < x.p
         /\ q.state = "s_header_value" => l[i + 1].to + 1 < Cur(x, "header_value")

LengthStates == ValueEndStates \cup LineStartStates \cup DiscardStates
                \cup {"s_header_field", "s_header_value", "s_headers_done"}

ValueRead(q, x, l) ==
  /\ q.state = "s_header_value" /\ q.header_state = "h_content_length_num" => Reading(q, x, l)
  /\ q.state \in LengthStates /\ "F_CONTENTLENGTH" \in q.flags =>
       \/ q.state = "s_header_value" /\ Reading(q, x, l)
       \/ Stated(q, x, l)

FirstLineStates == BeginStates \cup UrlStates \cup UrlEndStates
                   \cup {"s_res_status", "s_res_line_almost_done"}
NoLengthYet(q) == q.state \in FirstLineStates => "F_CONTENTLENGTH" \notin q.flags

SizeRead(q, x, l) ==
  LET first == l[Len(l)].to + 1
  IN /\ q.state = "s_headers_done" => first = x.p + 1
     /\ q.state = "s_chunk_size_start" => first = x.p
     /\ q.state = "s_chunk_size" =>
          /\ first < x.p /\ \A k \in first..x.p - 1 : IS_HEX(stream[k])
          /\ q.content_length = HexOf(SubSeq(stream, first, x.p - 1))
     /\ q.state \in {"s_chunk_parameters", "s_chunk_size_almost_done"} =>
          \E e \in first..x.p - 2 :
            /\ \A k \in first..e : IS_HEX(stream[k])
            /\ ~IS_HEX(stream[e + 1])
            /\ q.content_length = HexOf(SubSeq(stream, first, e))

ChunkStated(q, x, l) ==
  l # <<>> /\ Last(l).callback = "chunk_header" /\ x.marks["body"] = 0
  /\ q.state = "s_chunk_data" =>
    LET first == l[Len(l) - 1].to + 1
        size == {i \in first..Last(l).to : \A j \in first..i : IS_HEX(stream[j])}
    IN q.content_length = HexOf(SubSeq(stream, first, Max(size)))

Held(q, x, l) == NameRead(q, x, l) /\ NameFound(q, l) /\ ValueRead(q, x, l)

LengthInv(q, x, l) ==
  /\ q.errno = "OK" => /\ NoLengthYet(q) /\ SizeRead(q, x, l)
                       /\ "F_TRAILING" \notin q.flags => Held(q, x, l)
  /\ ChunkStated(q, x, l)
LengthsInv == LengthInv(parser, exec, log)

-----------------------------------------------------------------------------
(* What a number says of its digits.  A fold over a sequence is a chosen    *)
(* function on the sets of its places: it exists by induction on the length *)
(* of the sequence, and what it says of the first k places determines it.   *)

LEMMA Induction ==
  ASSUME NEW S, 0 \in S, \A n \in Nat : n \in S => n + 1 \in S
  PROVE  Nat \subseteq S
<1>1. SUFFICES ASSUME Nat \ S # {} PROVE FALSE
  OBVIOUS
<1>2. IsWellFoundedOn(NatLess, Nat)
  BY NatLessThanWellFounded DEF OpToRel, NatLess
<1>3. PICK m \in Nat \ S : \A y \in Nat \ S : <<y, m>> \notin NatLess
  BY <1>1, <1>2, WFMin
<1>4. m # 0
  OBVIOUS
<1>5. m - 1 \in Nat \ S
  BY <1>4
<1>6. <<m - 1, m>> \in NatLess
  BY <1>5 DEF NatLess
<1> QED
  BY <1>3, <1>5, <1>6

LEMMA Greatest ==
  ASSUME NEW S, S \subseteq Int, NEW m \in S, \A x \in S : x <= m
  PROVE  Max(S) = m
<1>1. \E x \in S : \A y \in S : x >= y
  OBVIOUS
<1>2. PICK x : x = Max(S)
  OBVIOUS
<1>3. x \in S /\ \A y \in S : x >= y
  BY <1>1, <1>2 DEF Max
<1> QED
  BY <1>2, <1>3

\* The function the fold over the digits D is computed with: on every set of places.
Folded(b, D, n, h) ==
  \A t \in SUBSET (1..n) : h[t] = IF t = {} THEN 0 ELSE b * h[t \ {Max(t)}] + D[Max(t)]

\* What it says of the first places.
LEMMA FoldedZero ==
  ASSUME NEW b, NEW n \in Nat, NEW D, NEW h, Folded(b, D, n, h)
  PROVE  h[1..0] = 0
<1>1. 1..0 = {} /\ 1..0 \in SUBSET (1..n)
  OBVIOUS
<1> QED
  BY <1>1 DEF Folded

LEMMA FoldedUpTo ==
  ASSUME NEW b \in Nat, NEW n \in Nat, NEW D, NEW h, Folded(b, D, n, h), NEW k \in 1..n
  PROVE  h[1..k] = b * h[1..k - 1] + D[k]
<1>1. Max(1..k) = k
  <2>1. 1..k \subseteq Int /\ k \in 1..k /\ \A x \in 1..k : x <= k
    OBVIOUS
  <2> QED
    BY <2>1, Greatest
<1>2. (1..k) \ {k} = 1..k - 1
  OBVIOUS
<1>3. 1..k # {} /\ 1..k \in SUBSET (1..n)
  OBVIOUS
<1>4. h[1..k] = b * h[(1..k) \ {Max(1..k)}] + D[Max(1..k)]
  BY <1>3 DEF Folded
<1> QED
  BY <1>1, <1>2, <1>4

Computed(b, D, n) == \E h \in [SUBSET (1..n) -> Nat] : Folded(b, D, n, h)

LEMMA FoldedExists ==
  ASSUME NEW b \in Nat, NEW n \in Nat, NEW D \in [1..n -> Nat]
  PROVE  Computed(b, D, n)
<1> DEFINE S == {m \in Nat : m <= n => Computed(b, D, m)}
<1>1. 0 \in S
  <2> DEFINE h == [t \in SUBSET (1..0) |-> 0]
  <2>1. \A t \in SUBSET (1..0) : t = {}
    OBVIOUS
  <2>2. h \in [SUBSET (1..0) -> Nat] /\ Folded(b, D, 0, h)
    BY <2>1 DEF Folded
  <2> HIDE DEF h
  <2>3. Computed(b, D, 0)
    BY <2>2 DEF Computed
  <2> QED
    BY <2>3
<1>2. ASSUME NEW m \in Nat, m \in S PROVE m + 1 \in S
  <2>1. SUFFICES ASSUME m + 1 <= n PROVE Computed(b, D, m + 1)
    OBVIOUS
  <2>2. PICK g \in [SUBSET (1..m) -> Nat] : Folded(b, D, m, g)
    <3>1. Computed(b, D, m)
      BY <1>2, <2>1
    <3> QED
      BY <3>1 DEF Computed
  <2> DEFINE h == [t \in SUBSET (1..m + 1) |->
                     IF m + 1 \in t THEN b * g[t \ {m + 1}] + D[m + 1] ELSE g[t]]
  <2>3. \A t \in SUBSET (1..m + 1) : t \ {m + 1} \in SUBSET (1..m)
    OBVIOUS
  <2>4. \A t \in SUBSET (1..m + 1) : m + 1 \notin t => t \in SUBSET (1..m)
    OBVIOUS
  <2>5. D[m + 1] \in Nat /\ \A u \in SUBSET (1..m) : b * g[u] + D[m + 1] \in Nat
    <3>1. D[m + 1] \in Nat
      BY <2>1
    <3>2. ASSUME NEW x \in Nat PROVE b * x + D[m + 1] \in Nat
      <4>1. b * x \in Nat
        OBVIOUS
      <4> QED
        BY <3>1, <4>1
    <3>3. \A u \in SUBSET (1..m) : g[u] \in Nat
      OBVIOUS
    <3> QED
      BY <3>1, <3>2, <3>3
  <2>6. h \in [SUBSET (1..m + 1) -> Nat]
    <3>1. ASSUME NEW t \in SUBSET (1..m + 1)
          PROVE  (IF m + 1 \in t THEN b * g[t \ {m + 1}] + D[m + 1] ELSE g[t]) \in Nat
      <4>1. CASE m + 1 \in t
        <5>1. b * g[t \ {m + 1}] + D[m + 1] \in Nat
          BY <2>3, <2>5
        <5> QED
          BY <4>1, <5>1
      <4>2. CASE m + 1 \notin t
        BY <2>4, <4>2
      <4> QED
        BY <4>1, <4>2
    <3> QED
      BY <3>1
  <2>7. ASSUME NEW t \in SUBSET (1..m + 1)
        PROVE  h[t] = IF t = {} THEN 0 ELSE b * h[t \ {Max(t)}] + D[Max(t)]
    <3>1. CASE m + 1 \in t
      <4>1. t \subseteq Int /\ \A x \in t : x <= m + 1
        OBVIOUS
      <4>2. Max(t) = m + 1
        BY <3>1, <4>1, Greatest
      <4>3. h[t \ {m + 1}] = g[t \ {m + 1}]
        BY <2>3
      <4>4. h[t] = b * g[t \ {m + 1}] + D[m + 1]
        BY <3>1
      <4> QED
        BY <3>1, <4>2, <4>3, <4>4
    <3>2. CASE m + 1 \notin t
      <4>1. h[t] = g[t] /\ t \in SUBSET (1..m)
        BY <3>2, <2>4
      <4>2. g[t] = IF t = {} THEN 0 ELSE b * g[t \ {Max(t)}] + D[Max(t)]
        BY <2>2, <4>1 DEF Folded
      <4>3. h[t \ {Max(t)}] = g[t \ {Max(t)}]
        <5>1. m + 1 \notin t \ {Max(t)} /\ t \ {Max(t)} \in SUBSET (1..m + 1)
          BY <3>2
        <5> QED
          BY <5>1
      <4> QED
        BY <4>1, <4>2, <4>3
    <3> QED
      BY <3>1, <3>2
  <2>8. Folded(b, D, m + 1, h)
    <3> HIDE DEF h
    <3> QED
      BY <2>7 DEF Folded
  <2> HIDE DEF h
  <2> QED
    BY <2>6, <2>8 DEF Computed
<1> HIDE DEF S
<1>3. Nat \subseteq S
  BY <1>1, <1>2, Induction
<1> QED
  BY <1>3 DEF S

Tabled(b, D, n, h) ==
  h = [t \in SUBSET (1..n) |-> IF t = {} THEN 0 ELSE b * h[t \ {Max(t)}] + D[Max(t)]]

LEMMA FoldedTable ==
  ASSUME NEW n, NEW b, NEW D, NEW h, Tabled(b, D, n, h)
  PROVE  Folded(b, D, n, h)
<1>1. \A g : g = [t \in SUBSET (1..n) |-> IF t = {} THEN 0 ELSE b * h[t \ {Max(t)}] + D[Max(t)]]
        => \A t \in SUBSET (1..n) : g[t] = IF t = {} THEN 0 ELSE b * h[t \ {Max(t)}] + D[Max(t)]
  OBVIOUS
<1> QED
  BY <1>1, Zenon DEF Folded, Tabled

LEMMA TableFolded ==
  ASSUME NEW n, NEW b, NEW D, NEW h \in [SUBSET (1..n) -> Nat], Folded(b, D, n, h)
  PROVE  Tabled(b, D, n, h)
<1>1. h = [t \in SUBSET (1..n) |-> h[t]]
  OBVIOUS
<1>2. [t \in SUBSET (1..n) |-> h[t]]
      = [t \in SUBSET (1..n) |-> IF t = {} THEN 0 ELSE b * h[t \ {Max(t)}] + D[Max(t)]]
  BY Zenon DEF Folded
<1> QED
  BY <1>1, <1>2, Zenon DEF Tabled


\* v is the number of the first n digits D to the base b.
FoldedTo(b, D, n, v) == \E h : Folded(b, D, n, h) /\ v = h[1..n]

LEMMA FoldedNone ==
  ASSUME NEW b, NEW D, NEW v, FoldedTo(b, D, 0, v)
  PROVE  v = 0
BY FoldedZero DEF FoldedTo

LEMMA FoldedStep ==
  ASSUME NEW b \in Nat, NEW n \in Nat, NEW D, NEW E, NEW v, NEW w,
         \A k \in 1..n + 1 : D[k] \in Nat, \A k \in 1..n : E[k] = D[k],
         FoldedTo(b, D, n + 1, v), FoldedTo(b, E, n, w)
  PROVE  v = b * w + D[n + 1] /\ w \in Nat
<1>1. PICK g : Folded(b, D, n + 1, g) /\ v = g[1..n + 1]
  BY DEF FoldedTo
<1>2. PICK h : Folded(b, E, n, h) /\ w = h[1..n]
  BY DEF FoldedTo
<1>3. /\ g[1..0] = 0 /\ \A k \in 1..n + 1 : g[1..k] = b * g[1..k - 1] + D[k]
      /\ h[1..0] = 0 /\ \A k \in 1..n : h[1..k] = b * h[1..k - 1] + E[k]
  <2>1. n + 1 \in Nat
    OBVIOUS
  <2>2. g[1..0] = 0
    BY <1>1, <2>1, FoldedZero
  <2>5. h[1..0] = 0
    BY <1>2, FoldedZero
  <2>3. ASSUME NEW k \in 1..n + 1 PROVE g[1..k] = b * g[1..k - 1] + D[k]
    BY <1>1, <2>1, FoldedUpTo
  <2>4. ASSUME NEW k \in 1..n PROVE h[1..k] = b * h[1..k - 1] + E[k]
    BY <1>2, FoldedUpTo
  <2> QED
    BY <2>2, <2>3, <2>4, <2>5
<1> DEFINE S == {k \in Nat : k <= n => g[1..k] = h[1..k] /\ h[1..k] \in Nat}
<1>4. 0 \in S
  BY <1>3
<1>5. ASSUME NEW k \in Nat, k \in S PROVE k + 1 \in S
  <2>1. SUFFICES ASSUME k + 1 <= n PROVE g[1..k + 1] = h[1..k + 1] /\ h[1..k + 1] \in Nat
    OBVIOUS
  <2>2. g[1..k] = h[1..k] /\ h[1..k] \in Nat
    BY <1>5, <2>1
  <2>3. k + 1 \in 1..n /\ k + 1 \in 1..n + 1 /\ (k + 1) - 1 = k
    BY <2>1
  <2>4. E[k + 1] = D[k + 1] /\ D[k + 1] \in Nat
    BY <2>3
  <2>5. g[1..k + 1] = b * g[1..k] + D[k + 1] /\ h[1..k + 1] = b * h[1..k] + D[k + 1]
    BY <1>3, <2>3, <2>4
  <2>6. b * h[1..k] \in Nat
    BY <2>2
  <2> QED
    BY <2>2, <2>4, <2>5, <2>6
<1> HIDE DEF S
<1>6. n \in S
  BY <1>4, <1>5, Induction
<1>7. g[1..n] = w /\ w \in Nat
  BY <1>2, <1>6 DEF S
<1> QED
  BY <1>1, <1>3, <1>7

DigitsOf(s) == [k \in DOMAIN s |-> DigitValue(s[k])]
HexDigitsOf(s) == [k \in DOMAIN s |-> HexValue(s[k])]

LEMMA GreatestOfSome ==
  ASSUME NEW n \in Nat, NEW t \in SUBSET (1..n), t # {}
  PROVE  Max(t) \in t
<1> DEFINE S == {n - k : k \in t}
<1>1. S \subseteq Nat /\ S # {}
  <2>1. \A k \in t : n - k \in Nat
    BY t \subseteq 1..n
  <2> QED
    BY <2>1
<1> HIDE DEF S
<1>2. PICK m \in S : \A y \in S : m <= y
  BY <1>1, LeastNatural
<1>3. PICK k \in t : m = n - k
  BY <1>2 DEF S
<1>4. ASSUME NEW j \in t PROVE j <= k
  <2>1. n - j \in S
    BY DEF S
  <2>2. n - k <= n - j
    BY <1>2, <1>3, <2>1
  <2> QED
    BY <2>2
<1>5. Max(t) = k
  <2>1. t \subseteq Int
    OBVIOUS
  <2> QED
    BY <1>4, <2>1, Greatest
<1> QED
  BY <1>5

LEMMA DecimalTable ==
  ASSUME NEW n \in Nat, NEW s, DOMAIN s = 1..n, \A k \in 1..n : DigitValue(s[k]) \in Nat
  PROVE  FoldedTo(10, DigitsOf(s), n, Decimal(s))
<1> DEFINE Table(g) == g = [t \in SUBSET (1..n) |->
                              IF t = {} THEN 0 ELSE 10 * g[t \ {Max(t)}] + DigitValue(s[Max(t)])]
<1>1. Decimal(s) = (CHOOSE g : Table(g))[1..n]
  BY Zenon DEF Decimal, FoldLeft, MapThenFoldSet
<1>2. PICK b \in Nat : b = 10
  OBVIOUS
<1>3. PICK D \in [1..n -> Nat] : D = DigitsOf(s)
  BY DEF DigitsOf
<1>4. \A k \in 1..n : D[k] = DigitValue(s[k])
  BY <1>3 DEF DigitsOf
<1>5. ASSUME NEW g PROVE Table(g) <=> Tabled(b, D, n, g)
  <2>1. \A t \in SUBSET (1..n) : t # {} => D[Max(t)] = DigitValue(s[Max(t)])
    BY <1>4, GreatestOfSome
  <2>2. ASSUME NEW t \in SUBSET (1..n)
        PROVE  (IF t = {} THEN 0 ELSE 10 * g[t \ {Max(t)}] + DigitValue(s[Max(t)]))
               = (IF t = {} THEN 0 ELSE b * g[t \ {Max(t)}] + D[Max(t)])
    BY <1>2, <2>1
  <2>3. [t \in SUBSET (1..n) |->
           IF t = {} THEN 0 ELSE 10 * g[t \ {Max(t)}] + DigitValue(s[Max(t)])]
        = [t \in SUBSET (1..n) |-> IF t = {} THEN 0 ELSE b * g[t \ {Max(t)}] + D[Max(t)]]
    BY <2>2, Zenon
  <2> QED
    BY <2>3, Zenon DEF Tabled
<1> HIDE DEF Table
<1>6. PICK h \in [SUBSET (1..n) -> Nat] : Folded(b, D, n, h)
  BY FoldedExists DEF Computed
<1>7. Table(h)
  BY <1>5, <1>6, TableFolded
<1>8. PICK g : g = (CHOOSE f : Table(f))
  OBVIOUS
<1>9. Table(g)
  BY <1>7, <1>8, Zenon
<1>10. Folded(b, D, n, g)
  BY <1>5, <1>9, FoldedTable
<1>11. FoldedTo(b, D, n, Decimal(s))
  BY <1>1, <1>8, <1>10 DEF FoldedTo
<1> QED
  BY <1>2, <1>3, <1>11

LEMMA HexTable ==
  ASSUME NEW n \in Nat, NEW s, DOMAIN s = 1..n, \A k \in 1..n : HexValue(s[k]) \in Nat
  PROVE  FoldedTo(16, HexDigitsOf(s), n, HexOf(s))
<1> DEFINE Table(g) == g = [t \in SUBSET (1..n) |->
                              IF t = {} THEN 0 ELSE 16 * g[t \ {Max(t)}] + HexValue(s[Max(t)])]
<1>1. HexOf(s) = (CHOOSE g : Table(g))[1..n]
  BY Zenon DEF HexOf, FoldLeft, MapThenFoldSet
<1>2. PICK b \in Nat : b = 16
  OBVIOUS
<1>3. PICK D \in [1..n -> Nat] : D = HexDigitsOf(s)
  BY DEF HexDigitsOf
<1>4. \A k \in 1..n : D[k] = HexValue(s[k])
  BY <1>3 DEF HexDigitsOf
<1>5. ASSUME NEW g PROVE Table(g) <=> Tabled(b, D, n, g)
  <2>1. \A t \in SUBSET (1..n) : t # {} => D[Max(t)] = HexValue(s[Max(t)])
    BY <1>4, GreatestOfSome
  <2>2. ASSUME NEW t \in SUBSET (1..n)
        PROVE  (IF t = {} THEN 0 ELSE 16 * g[t \ {Max(t)}] + HexValue(s[Max(t)]))
               = (IF t = {} THEN 0 ELSE b * g[t \ {Max(t)}] + D[Max(t)])
    BY <1>2, <2>1
  <2>3. [t \in SUBSET (1..n) |->
           IF t = {} THEN 0 ELSE 16 * g[t \ {Max(t)}] + HexValue(s[Max(t)])]
        = [t \in SUBSET (1..n) |-> IF t = {} THEN 0 ELSE b * g[t \ {Max(t)}] + D[Max(t)]]
    BY <2>2, Zenon
  <2> QED
    BY <2>3, Zenon DEF Tabled
<1> HIDE DEF Table
<1>6. PICK h \in [SUBSET (1..n) -> Nat] : Folded(b, D, n, h)
  BY FoldedExists DEF Computed
<1>7. Table(h)
  BY <1>5, <1>6, TableFolded
<1>8. PICK g : g = (CHOOSE f : Table(f))
  OBVIOUS
<1>9. Table(g)
  BY <1>7, <1>8, Zenon
<1>10. Folded(b, D, n, g)
  BY <1>5, <1>9, FoldedTable
<1>11. FoldedTo(b, D, n, HexOf(s))
  BY <1>1, <1>8, <1>10 DEF FoldedTo
<1> QED
  BY <1>2, <1>3, <1>11

\* One digit more.
LEMMA DecimalStep ==
  ASSUME NEW n \in Nat, NEW s, DOMAIN s = 1..n + 1, \A k \in 1..n + 1 : IS_NUM(s[k]),
         NEW t, t = [k \in 1..n |-> s[k]]
  PROVE  /\ Decimal(t) \in Nat /\ Decimal(s) = 10 * Decimal(t) + DigitValue(s[n + 1])
         /\ n = 0 => Decimal(t) = 0
<1>1. \A k \in 1..n + 1 : DigitValue(s[k]) \in Nat
  BY DigitRange
<1>2. DOMAIN t = 1..n /\ \A k \in 1..n : t[k] = s[k] /\ DigitValue(t[k]) \in Nat
  BY <1>1
<1>3. PICK m \in Nat : m = n + 1
  OBVIOUS
<1>4. FoldedTo(10, DigitsOf(s), n + 1, Decimal(s))
  <2>1. DOMAIN s = 1..m /\ \A k \in 1..m : DigitValue(s[k]) \in Nat
    BY <1>1, <1>3
  <2>2. FoldedTo(10, DigitsOf(s), m, Decimal(s))
    BY <2>1, DecimalTable
  <2> QED
    BY <1>3, <2>2, Zenon
<1>5. FoldedTo(10, DigitsOf(t), n, Decimal(t))
  BY <1>2, DecimalTable
<1>6. PICK D : D = DigitsOf(s)
  OBVIOUS
<1>7. PICK E : E = DigitsOf(t)
  OBVIOUS
<1>8. \A k \in 1..n + 1 : D[k] \in Nat /\ D[k] = DigitValue(s[k])
  BY <1>1, <1>6 DEF DigitsOf
<1>9. \A k \in 1..n : E[k] = D[k]
  <2>1. \A k \in 1..n : E[k] = DigitValue(t[k]) /\ k \in 1..n + 1
    BY <1>2, <1>7 DEF DigitsOf
  <2> QED
    BY <1>2, <1>8, <2>1
<1>10. PICK b \in Nat : b = 10
  OBVIOUS
<1>11. FoldedTo(b, D, n + 1, Decimal(s)) /\ FoldedTo(b, E, n, Decimal(t))
  BY <1>4, <1>5, <1>6, <1>7, <1>10, Zenon
<1>12. Decimal(s) = b * Decimal(t) + D[n + 1] /\ Decimal(t) \in Nat
  BY <1>8, <1>9, <1>11, FoldedStep
<1>13. ASSUME n = 0 PROVE Decimal(t) = 0
  <2>1. FoldedTo(b, E, 0, Decimal(t))
    BY <1>11, <1>13, Zenon
  <2> QED
    BY <2>1, FoldedNone
<1>14. D[n + 1] = DigitValue(s[n + 1])
  BY <1>8
<1> QED
  BY <1>10, <1>12, <1>13, <1>14

LEMMA HexStep ==
  ASSUME NEW n \in Nat, NEW s, DOMAIN s = 1..n + 1, \A k \in 1..n + 1 : IS_HEX(s[k]),
         NEW t, t = [k \in 1..n |-> s[k]]
  PROVE  /\ HexOf(t) \in Nat /\ HexOf(s) = 16 * HexOf(t) + HexValue(s[n + 1])
         /\ n = 0 => HexOf(t) = 0
<1>1. \A k \in 1..n + 1 : HexValue(s[k]) \in Nat
  <2> SUFFICES ASSUME NEW k \in 1..n + 1 PROVE HexValue(s[k]) \in Nat
    OBVIOUS
  <2>1. HexValue(s[k]) \in 0..15
    BY HexRange
  <2> QED
    BY <2>1
<1>2. DOMAIN t = 1..n /\ \A k \in 1..n : t[k] = s[k] /\ HexValue(t[k]) \in Nat
  BY <1>1
<1>3. PICK m \in Nat : m = n + 1
  OBVIOUS
<1>4. FoldedTo(16, HexDigitsOf(s), n + 1, HexOf(s))
  <2>1. DOMAIN s = 1..m /\ \A k \in 1..m : HexValue(s[k]) \in Nat
    BY <1>1, <1>3
  <2>2. FoldedTo(16, HexDigitsOf(s), m, HexOf(s))
    BY <2>1, HexTable
  <2> QED
    BY <1>3, <2>2, Zenon
<1>5. FoldedTo(16, HexDigitsOf(t), n, HexOf(t))
  BY <1>2, HexTable
<1>6. PICK D : D = HexDigitsOf(s)
  OBVIOUS
<1>7. PICK E : E = HexDigitsOf(t)
  OBVIOUS
<1>8. \A k \in 1..n + 1 : D[k] \in Nat /\ D[k] = HexValue(s[k])
  BY <1>1, <1>6 DEF HexDigitsOf
<1>9. \A k \in 1..n : E[k] = D[k]
  <2>1. \A k \in 1..n : E[k] = HexValue(t[k]) /\ k \in 1..n + 1
    BY <1>2, <1>7 DEF HexDigitsOf
  <2> QED
    BY <1>2, <1>8, <2>1
<1>10. PICK b \in Nat : b = 16
  OBVIOUS
<1>11. FoldedTo(b, D, n + 1, HexOf(s)) /\ FoldedTo(b, E, n, HexOf(t))
  BY <1>4, <1>5, <1>6, <1>7, <1>10, Zenon
<1>12. HexOf(s) = b * HexOf(t) + D[n + 1] /\ HexOf(t) \in Nat
  BY <1>8, <1>9, <1>11, FoldedStep
<1>13. ASSUME n = 0 PROVE HexOf(t) = 0
  <2>1. FoldedTo(b, E, 0, HexOf(t))
    BY <1>11, <1>13, Zenon
  <2> QED
    BY <2>1, FoldedNone
<1>14. D[n + 1] = HexValue(s[n + 1])
  BY <1>8
<1> QED
  BY <1>10, <1>12, <1>13, <1>14

-----------------------------------------------------------------------------
(* Numbers in the stream. *)

LEMMA LoweredDigit ==
  ASSUME NEW c, IS_NUM(c) PROVE Lowered(c) = c
<1>1. c \in {"0", "1", "2", "3", "4", "5", "6", "7", "8", "9"}
  BY DigitNames
<1>2. ASSUME NEW i \in DOMAIN Lowercase PROVE Lowercase[i] # c
  BY <1>1 DEF Lowercase
<1>3. ASSUME NEW i \in DOMAIN Uppercase PROVE Uppercase[i] # c
  BY <1>1 DEF Uppercase
<1> QED
  BY <1>2, <1>3 DEF Lowered, IS_ALPHA, LetterSet, Range

LEMMA DecimalText ==
  ASSUME NEW first \in Nat, NEW to \in Nat, first <= to, \A k \in first..to : IS_NUM(stream[k])
  PROVE  /\ Decimal(TextIn(first, to)) \in Nat
         /\ first = to => Decimal(TextIn(first, to)) = DigitValue(stream[to])
         /\ first < to => /\ Decimal(TextIn(first, to - 1)) \in Nat
                          /\ Decimal(TextIn(first, to))
                             = 10 * Decimal(TextIn(first, to - 1)) + DigitValue(stream[to])
<1>1. PICK n \in Nat : n = to - first
  OBVIOUS
<1>2. PICK s : s = TextIn(first, to)
  OBVIOUS
<1>3. DOMAIN s = 1..n + 1 /\ \A k \in 1..n + 1 : s[k] = Lowered(stream[first + k - 1])
  <2>1. to + 1 - first = n + 1
    BY <1>1
  <2> QED
    BY <1>2, <2>1 DEF TextIn
<1>4. ASSUME NEW k \in 1..n + 1 PROVE s[k] = stream[first + k - 1] /\ IS_NUM(s[k])
  <2>1. first + k - 1 \in first..to
    BY <1>1
  <2> QED
    BY <1>3, <2>1, LoweredDigit
<1>5. PICK t : t = [k \in 1..n |-> s[k]]
  OBVIOUS
<1>6. /\ Decimal(t) \in Nat /\ Decimal(s) = 10 * Decimal(t) + DigitValue(s[n + 1])
      /\ n = 0 => Decimal(t) = 0
  <2>1. DOMAIN s = 1..n + 1
    BY <1>3
  <2>2. \A k \in 1..n + 1 : IS_NUM(s[k])
    BY <1>4
  <2> QED
    BY <1>5, <2>1, <2>2, DecimalStep
<1>7. s[n + 1] = stream[to] /\ DigitValue(s[n + 1]) \in Nat
  <2>1. first + (n + 1) - 1 = to /\ n + 1 \in 1..n + 1
    BY <1>1
  <2> QED
    BY <1>4, <2>1, DigitRange
<1>8. t = TextIn(first, to - 1)
  <2>1. (to - 1) + 1 - first = n
    BY <1>1
  <2>2. TextIn(first, to - 1) = [k \in 1..n |-> Lowered(stream[first + k - 1])]
    BY <2>1 DEF TextIn
  <2>3. \A k \in 1..n : s[k] = Lowered(stream[first + k - 1])
    BY <1>3
  <2> QED
    BY <1>5, <2>2, <2>3
<1>9. first = to => n = 0
  BY <1>1
<1>10. Decimal(s) \in Nat
  BY <1>6, <1>7
<1>11. first = to => Decimal(s) = DigitValue(stream[to])
  BY <1>6, <1>7, <1>9
<1> QED
  BY <1>2, <1>6, <1>7, <1>8, <1>10, <1>11

LEMMA HexText ==
  ASSUME stream \in Streams, NEW first \in Nat \ {0}, NEW to \in Nat, first <= to,
         to <= Len(stream), \A k \in first..to : IS_HEX(stream[k])
  PROVE  /\ HexOf(SubSeq(stream, first, to)) \in Nat
         /\ first = to => HexOf(SubSeq(stream, first, to)) = HexValue(stream[to])
         /\ first < to => /\ HexOf(SubSeq(stream, first, to - 1)) \in Nat
                          /\ HexOf(SubSeq(stream, first, to))
                             = 16 * HexOf(SubSeq(stream, first, to - 1)) + HexValue(stream[to])
<1>1. PICK n \in Nat : n = to - first
  OBVIOUS
<1>2. PICK s : s = SubSeq(stream, first, to)
  OBVIOUS
<1>3. DOMAIN s = 1..n + 1 /\ \A k \in 1..n + 1 : s[k] = stream[first + k - 1]
  <2>1. stream \in Seq(STRING) /\ Len(stream) \in Nat
    BY StreamLength
  <2>2. Len(s) = n + 1 /\ DOMAIN s = 1..Len(s) /\ \A k \in 1..Len(s) : s[k] = stream[first + k - 1]
    BY <1>1, <1>2, <2>1
  <2> QED
    BY <2>2
<1>4. ASSUME NEW k \in 1..n + 1 PROVE IS_HEX(s[k])
  <2>1. first + k - 1 \in first..to
    BY <1>1
  <2> QED
    BY <1>3, <2>1
<1>5. PICK t : t = [k \in 1..n |-> s[k]]
  OBVIOUS
<1>6. /\ HexOf(t) \in Nat /\ HexOf(s) = 16 * HexOf(t) + HexValue(s[n + 1])
      /\ n = 0 => HexOf(t) = 0
  <2>1. DOMAIN s = 1..n + 1
    BY <1>3
  <2>2. \A k \in 1..n + 1 : IS_HEX(s[k])
    BY <1>4
  <2> QED
    BY <1>5, <2>1, <2>2, HexStep
<1>7. s[n + 1] = stream[to] /\ HexValue(s[n + 1]) \in Nat
  <2>1. first + (n + 1) - 1 = to /\ n + 1 \in 1..n + 1
    BY <1>1
  <2> QED
    <3>1. s[n + 1] = stream[to] /\ IS_HEX(s[n + 1])
      BY <1>3, <1>4, <2>1
    <3>2. HexValue(s[n + 1]) \in 0..15
      BY <3>1, HexRange
    <3> QED
      BY <3>1, <3>2
<1>8. t = SubSeq(stream, first, to - 1)
  <2>1. PICK u : u = SubSeq(stream, first, to - 1)
    OBVIOUS
  <2>2. stream \in Seq(STRING) /\ Len(stream) \in Nat
    BY StreamLength
  <2>3. to - 1 \in Int /\ \A k \in first..to - 1 : stream[k] \in STRING
    BY <2>2
  <2>4. u \in Seq(STRING) /\ Len(u) = n /\ \A k \in 1..n : u[k] = stream[first + k - 1]
    <3>1. /\ u \in Seq(STRING)
          /\ Len(u) = IF first <= to - 1 THEN (to - 1) - first + 1 ELSE 0
          /\ \A k \in 1..(to - 1) - first + 1 : u[k] = stream[first + k - 1]
      BY <2>1, <2>3, SubSeqProperties
    <3>2. (to - 1) - first + 1 = n
      BY <1>1
    <3>3. \A k \in 1..n : u[k] = stream[first + k - 1]
      BY <3>1, <3>2
    <3>4. Len(u) = n
      BY <1>1, <3>1
    <3> QED
      BY <3>1, <3>3, <3>4
  <2>5. \A k \in 1..n : s[k] = stream[first + k - 1]
    BY <1>3
  <2>6. u = [k \in 1..n |-> u[k]]
    BY <2>4
  <2>7. t = u
    BY <1>5, <2>4, <2>5, <2>6
  <2> QED
    BY <2>1, <2>7
<1>9. first = to => n = 0
  BY <1>1
<1>10. HexOf(s) \in Nat
  BY <1>6, <1>7
<1>11. first = to => HexOf(s) = HexValue(stream[to])
  BY <1>6, <1>7, <1>9
<1> QED
  BY <1>2, <1>6, <1>7, <1>8, <1>10, <1>11

-----------------------------------------------------------------------------
(* What a callback does to the entries before it. *)

LEMMA RecordGrown ==
  ASSUME log \in History, NEW data \in CallbackNames, NEW at, NEW to, NEW l, l = Record(data, at, to),
         NEW b, b = Before(log, data, at)
  PROVE  /\ Len(log) \in Nat /\ b \in Nat /\ b <= Len(log) /\ Len(log) <= b + 1
         /\ Joins(log, data, at) => Len(log) = b + 1
         /\ ~Joins(log, data, at) => Len(log) = b
         /\ Len(l) = b + 1 /\ l[b + 1].callback = data
         /\ l[b + 1].from = Began(log, data, at) /\ l[b + 1].to = to
         /\ \A k \in 1..b : l[k] = log[k]
<1>1. Len(log) \in Nat /\ (Len(log) = 0 => LastOf(log) = "none") /\ (log = <<>> <=> Len(log) = 0)
      /\ (Len(log) # 0 => LastOf(log) = log[Len(log)].callback /\ Last(log) = log[Len(log)])
  BY LastEntry, EmptySeq DEF History, Last
<1> DEFINE Entry == [callback : CallbackNames, from : Nat, to : Nat]
           n == Len(log)
           e == [log[n] EXCEPT !.to = to]
           f == [callback |-> data, from |-> at, to |-> to]
           S == Entry \cup {e, f}
<1>2. log \in Seq(S)
  <2>1. log \in Seq(Entry)
    BY DEF History
  <2> HIDE DEF Entry, e, f
  <2> QED
    BY <2>1
<1>3. CASE log # <<>> /\ Last(log).callback = data /\ Last(log).to + 1 = at
  <2>1. l = [log EXCEPT ![n] = e]
    BY <1>3 DEF Record
  <2>2. n \in 1..Len(log) /\ log[n].callback = data /\ log[n].to + 1 = at
    BY <1>1, <1>3
  <2>3. log[n] \in Entry
    BY <2>2, ElementOfSeq DEF History
  <2>4. e.callback = data /\ e.from = log[n].from /\ e.to = to /\ e \in S
    BY <2>2, <2>3
  <2>5. Joins(log, data, at)
    BY <1>1, <2>2 DEF Joins
  <2> HIDE DEF Entry, e, f, S
  <2>6. Len(l) = n /\ l[n] = e /\ \A k \in 1..n : k # n => l[k] = log[k]
    BY <1>2, <2>1, <2>2, <2>4
  <2> QED
    BY <1>1, <2>2, <2>4, <2>5, <2>6 DEF Before, Began
<1>4. CASE ~(log # <<>> /\ Last(log).callback = data /\ Last(log).to + 1 = at)
  <2>1. l = Append(log, f)
    BY <1>4 DEF Record
  <2>2. ~Joins(log, data, at)
    <3>1. Len(log) # 0 => ~(log[n].callback = data /\ log[n].to + 1 = at)
      BY <1>1, <1>4
    <3>2. data # "none"
      BY DEF CallbackNames, CallbackErrors
    <3> QED
      BY <1>1, <3>1, <3>2 DEF Joins
  <2>3. f \in S
    OBVIOUS
  <2> HIDE DEF Entry, e, S
  <2>4. Len(l) = n + 1 /\ l[n + 1] = f /\ \A k \in 1..n : l[k] = log[k]
    <3> HIDE DEF f
    <3> QED
      BY <1>2, <2>1, <2>3
  <2> QED
    BY <1>1, <2>2, <2>4 DEF Before, Began
<1> QED
  BY <1>3, <1>4

\* A callback of the message that is read is of the same message.
LEMMA SameBegin ==
  ASSUME log \in History, NEW data \in CallbackNames, data # "message_begin", NEW at, NEW to,
         NEW l, l = Record(data, at, to)
  PROVE  BeginIn(l, Len(l)) = BeginIn(log, Len(log))
<1>1. /\ Len(log) \in Nat
      /\ \A k \in 1..Len(log) : l[k].callback = log[k].callback
      /\ \/ Len(l) = Len(log) + 1 /\ l[Len(l)].callback = data
         \/ Len(l) = Len(log)
  <2>1. /\ Len(log) \in Nat
        /\ \A k \in 1..Len(log) : l[k].callback = log[k].callback /\ l[k].from = log[k].from
        /\ \/ /\ Len(l) = Len(log) + 1
              /\ l[Len(l)] = [callback |-> data, from |-> at, to |-> to]
              /\ \A k \in 1..Len(log) : l[k] = log[k]
           \/ /\ Len(l) = Len(log) /\ LastOf(log) = data
              /\ \A k \in 1..Len(log) : k # Len(log) => l[k] = log[k]
              /\ Len(log) # 0 /\ log[Len(log)].callback = data
    BY RecordShape
  <2> QED
    BY <2>1
<1>2. BeginIn(l, Len(log)) = BeginIn(log, Len(log))
  BY <1>1, BeginSame
<1>3. CASE Len(l) = Len(log) + 1 /\ l[Len(l)].callback = data
  <2>1. BeginIn(l, Len(log) + 1) = BeginIn(l, Len(log))
    BY <1>1, <1>3, BeginBefore
  <2> QED
    BY <1>2, <1>3, <2>1
<1> QED
  BY <1>1, <1>2, <1>3

LEMMA NameKept ==
  ASSUME log \in History, NEW data \in CallbackNames, data # "message_begin", NEW at, NEW to,
         NEW l, l = Record(data, at, to), NEW i \in 1..Before(log, data, at), NameAt(log, i)
  PROVE  NameAt(l, i)
<1>1. PICK b : b = Before(log, data, at)
  OBVIOUS
<1>2. b \in Nat /\ b <= Len(log) /\ Len(l) = b + 1 /\ Len(log) \in Nat /\ \A k \in 1..b : l[k] = log[k]
  BY <1>1, RecordGrown
<1>3. l[i] = log[i] /\ i \in 1..Len(l)
  BY <1>1, <1>2
<1>4. BeginIn(l, Len(l)) = BeginIn(log, Len(log))
  BY SameBegin
<1> QED
  BY <1>3, <1>4 DEF NameAt

LEMMA StatementKept ==
  ASSUME log \in History, NEW data \in CallbackNames, data # "message_begin", NEW at, NEW to,
         NEW l, l = Record(data, at, to), NEW i, i \in 1..Len(log),
         i + 1 <= Before(log, data, at), NEW v, States_(log, i, v)
  PROVE  States_(l, i, v) /\ i + 1 < Len(l) /\ i \in 1..Len(l)
<1>1. PICK b : b = Before(log, data, at)
  OBVIOUS
<1>2. b \in Nat /\ b <= Len(log) /\ Len(l) = b + 1 /\ Len(log) \in Nat /\ \A k \in 1..b : l[k] = log[k]
  BY <1>1, RecordGrown
<1>3. i \in 1..b /\ i + 1 \in 1..b
  BY <1>1, <1>2
<1>4. NameAt(l, i)
  BY <1>1, <1>3, NameKept DEF States_
<1>5. l[i + 1] = log[i + 1]
  BY <1>2, <1>3
<1> QED
  BY <1>2, <1>3, <1>4, <1>5 DEF States_

\* A value that is logged after the name of a length states one.
LEMMA StatementMade ==
  ASSUME log \in History, NEW at, NEW to, NEW l, l = Record("header_value", at, to),
         NEW b, b = Before(log, "header_value", at), NameAt(log, b),
         NEW v, NEW d \in Began(log, "header_value", at)..to,
         Numeral(Began(log, "header_value", at), d, to, v)
  PROVE  States_(l, b, v) /\ b + 1 = Len(l) /\ b \in 1..Len(l) /\ l[b + 1].to = to
<1>0. "header_value" \in CallbackNames
  BY DEF CallbackNames, CallbackErrors
<1>1. /\ b \in Nat /\ b <= Len(log) /\ Len(l) = b + 1 /\ Len(log) \in Nat
      /\ l[b + 1].callback = "header_value" /\ l[b + 1].to = to
      /\ l[b + 1].from = Began(log, "header_value", at)
  BY <1>0, RecordGrown
<1>2. b \in 1..b
  BY <1>1 DEF NameAt
<1>3. NameAt(l, b)
  BY <1>0, <1>2, NameKept
<1>4. \E e \in l[b + 1].from..l[b + 1].to : Numeral(l[b + 1].from, e, l[b + 1].to, v)
  BY <1>1
<1> QED
  BY <1>1, <1>2, <1>3, <1>4 DEF States_

\* The name of a length that is logged.
LEMMA NameMade ==
  ASSUME log \in History, NEW at, NEW to, NEW l, l = Record("header_field", at, to), Grounded(l),
         NEW first, first = Began(log, "header_field", at), TextIn(first, to) = LengthName
  PROVE  NameAt(l, Len(l))
<1>0. "header_field" \in CallbackNames
  BY DEF CallbackNames, CallbackErrors
<1>1. PICK b : b = Before(log, "header_field", at)
  OBVIOUS
<1>2. /\ b \in Nat /\ Len(l) = b + 1
      /\ l[b + 1].callback = "header_field" /\ l[b + 1].to = to /\ l[b + 1].from = first
  BY <1>0, <1>1, RecordGrown
<1>3. BeginIn(l, Len(l)) <= Len(l)
  BY <1>2 DEF Grounded
<1> QED
  BY <1>2, <1>3 DEF NameAt

-----------------------------------------------------------------------------
(* What a step has to show. *)

\* The states of which nothing is asked.
QuietStates == StartStates \cup {"s_body_identity", "s_body_identity_eof", "s_message_done",
                                 "s_chunk_data_almost_done", "s_chunk_data_done"}

LEMMA QuietHolds ==
  ASSUME NEW q, NEW x, NEW l, q.state \in QuietStates
  PROVE  LengthInv(q, x, l)
BY DEF LengthInv, NoLengthYet, FirstLineStates, SizeRead, Held, NameRead, NameFound, ValueRead,
       ChunkStated, QuietStates, StartStates, BeginStates, UrlStates, UrlEndStates, LengthStates,
       ValueEndStates, LineStartStates, DiscardStates

\* After an error nothing is asked either.
LEMMA ErrorHolds ==
  ASSUME NEW q, NEW x, NEW l, q.errno # "OK", q.state # "s_chunk_data"
  PROVE  LengthInv(q, x, l)
BY DEF LengthInv, ChunkStated

LEMMA FirstLineHolds ==
  ASSUME NEW q, NEW x, NEW l, "F_CONTENTLENGTH" \notin q.flags,
         q.state \in FirstLineStates \cup LineStartStates
  PROVE  LengthInv(q, x, l)
BY DEF LengthInv, NoLengthYet, FirstLineStates, SizeRead, Held, NameRead, NameFound, ValueRead,
       ChunkStated, BeginStates, UrlStates, UrlEndStates, LengthStates,
       ValueEndStates, LineStartStates, DiscardStates

LEMMA HeadHolds ==
  ASSUME NEW q, NEW x, NEW l, q.state \in LengthStates,
         "F_TRAILING" \notin q.flags => Held(q, x, l),
         q.state = "s_headers_done" => l[Len(l)].to + 1 = x.p + 1
  PROVE  LengthInv(q, x, l)
BY DEF LengthInv, NoLengthYet, FirstLineStates, SizeRead,
       ChunkStated, BeginStates, UrlStates, UrlEndStates, LengthStates,
       ValueEndStates, LineStartStates, DiscardStates

LEMMA SizeHolds ==
  ASSUME NEW q, NEW x, NEW l, q.state \in SizeStates, SizeRead(q, x, l)
  PROVE  LengthInv(q, x, l)
BY DEF LengthInv, NoLengthYet, FirstLineStates, Held, NameRead, NameFound, ValueRead,
       ChunkStated, BeginStates, UrlStates, UrlEndStates, LengthStates, SizeStates,
       ValueEndStates, LineStartStates, DiscardStates

\* What is asked of a struct depends on the rest of it and on the place only so far.
SameLength(q, r) ==
  /\ q.state = r.state /\ q.header_state = r.header_state /\ q.index = r.index
  /\ q.flags = r.flags /\ q.content_length = r.content_length
SamePlace(x, y) ==
  /\ x.p = y.p
  /\ y.marks["body"] = 0 => x.marks["body"] = 0
  /\ Cur(x, "header_field") = Cur(y, "header_field")
  /\ Cur(x, "header_value") = Cur(y, "header_value")

LEMMA PlaceHolds ==
  ASSUME NEW q, NEW x, NEW r, NEW y, NEW l, SameLength(q, r), SamePlace(x, y),
         r.errno = "OK" => q.errno = "OK", LengthInv(q, x, l)
  PROVE  LengthInv(r, y, l)
<1>1. NoLengthYet(q) => NoLengthYet(r)
  BY DEF SameLength, NoLengthYet
<1>2. SizeRead(q, x, l) => SizeRead(r, y, l)
  BY DEF SameLength, SamePlace, SizeRead
<1>3. NameRead(q, x, l) => NameRead(r, y, l)
  BY DEF SameLength, SamePlace, NameRead
<1>4. NameFound(q, l) => NameFound(r, l)
  BY DEF SameLength, NameFound
<1>5. ValueRead(q, x, l) => ValueRead(r, y, l)
  BY DEF SameLength, SamePlace, ValueRead, Reading, Stated
<1>6. ChunkStated(q, x, l) => ChunkStated(r, y, l)
  BY DEF SameLength, SamePlace, ChunkStated
<1> QED
  BY <1>1, <1>2, <1>3, <1>4, <1>5, <1>6 DEF LengthInv, Held, SameLength

\* A length that has been stated is asked for in other states as well.
LEMMA StatedHeld ==
  ASSUME NEW q, NEW x, NEW l, q.state \in LengthStates \ {"s_header_field"},
         q.state \in DiscardStates \cup ValueEndStates \cup {"s_header_value"} =>
           q.header_state # "h_content_length",
         q.state = "s_header_value" => q.header_state # "h_content_length_num",
         "F_CONTENTLENGTH" \in q.flags => Stated(q, x, l)
  PROVE  Held(q, x, l)
BY DEF Held, NameRead, NameFound, ValueRead, DiscardStates, LengthStates, ValueEndStates, LineStartStates

-----------------------------------------------------------------------------
(* The start of a message and its first line. *)

LengthNext == LengthInv(parser', exec', log')

\* A struct of which no length is asked, whatever the call has come to.
Early(q) ==
  \/ q.state \in QuietStates
  \/ q.state \in FirstLineStates \cup LineStartStates /\ "F_CONTENTLENGTH" \notin q.flags
Knows(q) == {"state", "header_state", "index", "flags", "content_length", "errno"} \subseteq DOMAIN q

LEMMA EarlyHolds ==
  ASSUME NEW q, Early(q), NEW x, NEW l PROVE LengthInv(q, x, l)
BY QuietHolds, FirstLineHolds DEF Early

LEMMA NextHolds ==
  ASSUME Early(parser') \/ (parser'.errno # "OK" /\ parser'.state # "s_chunk_data")
  PROVE  LengthNext
BY EarlyHolds, ErrorHolds DEF LengthNext

LEMMA FailedNext ==
  ASSUME NEW q, Knows(q), q.state # "s_chunk_data", \E x, error : error # "OK" /\ Fail(q, x, error)
  PROVE  LengthNext
<1>1. parser'.errno # "OK" /\ parser'.state = q.state
  BY DEF Fail, RETURN, Knows
<1> QED
  BY <1>1, NextHolds

\* A struct that a step leaves behind, but for the count and an error.
Left(q) == parser'.state = q.state /\ parser'.flags = q.flags

LEMMA EndsLeave ==
  ASSUME NEW q, Knows(q)
  PROVE  /\ \A x : Advance(q, x) => Left(q)
         /\ \A x : REEXECUTE(q, x) => Left(q)
         /\ \A x, next : RETURN(q, x, next) => Left(q)
         /\ \A x, c, answer, next : Stop(q, x, c, answer, next) => Left(q)
<1>1. ASSUME NEW x, NEW c, NEW answer, NEW next, Stop(q, x, c, answer, next) PROVE Left(q)
  BY <1>1 DEF Stop, Left, Knows
<1> QED
  BY <1>1 DEF Advance, REEXECUTE, RETURN, Left, Knows

LEMMA EarlyNext ==
  ASSUME NEW q, Knows(q), Early(q),
         \/ \E x : Break(q, x) \/ Again(q, x)
         \/ \E x, c, next : CALLBACK_NOTIFY(q, x, c, next, Advance)
         \/ \E x, c, next : CALLBACK_NOTIFY(q, x, c, next, REEXECUTE)
         \/ \E x, c, next : CALLBACK_NOTIFY(q, x, c, next, Leave)
         \/ \E x, data, to, next : CALLBACK_DATA(q, x, data, to, next, Advance)
         \/ \E x, data, to, next : CALLBACK_DATA(q, x, data, to, next, REEXECUTE)
  PROVE  LengthNext
<1> USE EndsLeave
<1>1. Left(q)
  <2>1. CASE \E x : Break(q, x) \/ Again(q, x)
    BY <2>1 DEF Break, Again
  <2>2. CASE \/ \E x, c, next : CALLBACK_NOTIFY(q, x, c, next, Advance)
             \/ \E x, c, next : CALLBACK_NOTIFY(q, x, c, next, REEXECUTE)
             \/ \E x, c, next : CALLBACK_NOTIFY(q, x, c, next, Leave)
    BY <2>2 DEF CALLBACK_NOTIFY, Leave
  <2>3. CASE \/ \E x, data, to, next : CALLBACK_DATA(q, x, data, to, next, Advance)
             \/ \E x, data, to, next : CALLBACK_DATA(q, x, data, to, next, REEXECUTE)
    BY <2>3 DEF CALLBACK_DATA
  <2> QED
    BY <2>1, <2>2, <2>3
<1>2. Early(parser')
  BY <1>1 DEF Left, Early
<1> QED
  BY <1>2, NextHolds

LEMMA StructKnown ==
  ASSUME IInv
  PROVE  /\ Knows(parser) /\ Knows(NewMessage(parser)) /\ NewMessage(parser).flags = {}
         /\ NewMessage(parser).state = parser.state
         /\ \A s : Knows(To(s)) /\ To(s).state = s /\ To(s).flags = parser.flags
BY DEF IInv, Inv, IsStruct, Knows, NewMessage, To

LEMMA StartNext ==
  ASSUME IInv, Dead \/ StartReqOrRes \/ StartRes \/ StartReq PROVE LengthNext
<1> USE StructKnown, EarlyNext, FailedNext
<1>1. /\ parser.state \in StartStates /\ Early(parser) /\ Early(NewMessage(parser))
      /\ parser.state # "s_chunk_data" /\ NewMessage(parser).state # "s_chunk_data"
  BY DEF Dead, StartReqOrRes, StartRes, StartReq, At_, StartStates, Early, QuietStates
<1>2. ASSUME Dead PROVE LengthNext
  BY <1>1, <1>2 DEF Dead
<1>3. ASSUME StartReqOrRes PROVE LengthNext
  <2> DEFINE q == [NewMessage(parser) EXCEPT !.state = "s_res_or_resp_H"]
             r == [NewMessage(parser) EXCEPT !.type = "REQUEST", !.state = "s_start_req"]
  <2>1. Knows(q) /\ q.state = "s_res_or_resp_H" /\ q.flags = {}
        /\ Knows(r) /\ r.state = "s_start_req"
    BY DEF Knows
  <2>2. Early(q) /\ Early(r)
    BY <2>1 DEF Early, QuietStates, StartStates, FirstLineStates, BeginStates
  <2>3. Break(parser, exec) \/ CALLBACK_NOTIFY(q, exec, "message_begin", exec.p + 1, Advance)
        \/ Again(r, exec)
    BY <1>3 DEF StartReqOrRes
  <2> HIDE DEF q, r
  <2> QED
    BY <1>1, <2>1, <2>2, <2>3
<1>4. ASSUME StartRes PROVE LengthNext
  <2> DEFINE q == [NewMessage(parser) EXCEPT !.state = "s_res_H"]
  <2>1. Knows(q) /\ q.state = "s_res_H" /\ q.flags = {}
    BY DEF Knows
  <2>2. Early(q)
    BY <2>1 DEF Early, FirstLineStates, BeginStates
  <2>3. Break(parser, exec) \/ CALLBACK_NOTIFY(q, exec, "message_begin", exec.p + 1, Advance)
        \/ Fail(NewMessage(parser), exec, "INVALID_CONSTANT")
    BY <1>4 DEF StartRes
  <2> HIDE DEF q
  <2> QED
    BY <1>1, <2>1, <2>2, <2>3
<1>5. ASSUME StartReq PROVE LengthNext
  <2> DEFINE n == [NewMessage(parser) EXCEPT !.index = 1]
             q == [n EXCEPT !.method = MethodOfLetter[ch], !.state = "s_req_method"]
  <2>1. Knows(q) /\ q.state = "s_req_method" /\ q.flags = {}
    BY DEF Knows
  <2>2. Early(q)
    BY <2>1 DEF Early, FirstLineStates, BeginStates
  <2>3. Break(parser, exec) \/ CALLBACK_NOTIFY(q, exec, "message_begin", exec.p + 1, Advance)
        \/ Fail(NewMessage(parser), exec, "INVALID_METHOD")
    BY <1>5 DEF StartReq
  <2> HIDE DEF q
  <2> QED
    BY <1>1, <2>1, <2>2, <2>3
<1> QED
  BY <1>2, <1>3, <1>4, <1>5

LEMMA InFirstLine ==
  ASSUME IInv, LengthsInv, exec.pc = "switch", parser.state \in FirstLineStates
  PROVE  /\ Knows(parser) /\ Early(parser) /\ parser.state # "s_chunk_data"
         /\ \A s \in FirstLineStates \cup LineStartStates \cup {"s_dead"} : Early(To(s))
<1>1. "F_CONTENTLENGTH" \notin parser.flags
  BY InSwitch DEF LengthsInv, LengthInv, NoLengthYet
<1>2. \A s : Knows(To(s)) /\ To(s).state = s /\ To(s).flags = parser.flags
  BY StructKnown
<1>3. "s_dead" \in QuietStates
  BY DEF QuietStates, StartStates
<1> QED
  BY <1>1, <1>2, <1>3, StructKnown
     DEF Early, FirstLineStates, BeginStates, UrlStates, UrlEndStates

LEMMA FirstLineNext ==
  ASSUME IInv, LengthsInv,
         \/ ResOrRespH \/ Version \/ FirstStatusCode \/ StatusCode \/ StatusStart \/ Status
         \/ Method \/ SpacesBeforeUrl \/ Url \/ HttpStart \/ HttpEnd
  PROVE  LengthNext
<1>1. exec.pc = "switch" /\ parser.state \in FirstLineStates
  BY DEF ResOrRespH, Version, FirstStatusCode, StatusCode, StatusStart, Status, Method,
         SpacesBeforeUrl, Url, HttpStart, HttpEnd, At_, FirstLineStates, BeginStates, UrlEndStates
<1>2. /\ Knows(parser) /\ Early(parser) /\ parser.state # "s_chunk_data"
      /\ \A s \in FirstLineStates \cup LineStartStates \cup {"s_dead"} : Early(To(s))
  BY <1>1, InFirstLine
<1>3. \A s : Knows(To(s)) /\ To(s).state = s /\ To(s).flags = parser.flags
  BY StructKnown
<1> DEFINE ToNext(s) == Knows(To(s)) /\ Early(To(s)) /\ To(s).state # "s_chunk_data"
<1>4. \A s \in FirstLineStates \cup LineStartStates \cup {"s_dead"} : ToNext(s)
  BY <1>2, <1>3 DEF FirstLineStates, LineStartStates, BeginStates, UrlStates, UrlEndStates
<1>5. ASSUME NEW s \in FirstLineStates \cup LineStartStates \cup {"s_dead"},
             NEW q, Knows(q), q.state = s, q.flags = parser.flags
      PROVE  Early(q)
  BY <1>4, <1>5, <1>3 DEF Early
<1> HIDE DEF ToNext
<1>6. /\ \A s \in BeginStates \cup UrlStates \cup UrlEndStates \cup LineStartStates
                  \cup {"s_dead", "s_res_status", "s_res_line_almost_done"} : ToNext(s)
  BY <1>4 DEF FirstLineStates
<1>7. ToNext("s_header_field_start") /\ ToNext("s_res_line_almost_done")
      /\ ToNext("s_res_status_start") /\ ToNext("s_req_http_start") /\ ToNext("s_req_http_H")
      /\ ToNext("s_req_http_I") /\ ToNext("s_req_line_almost_done") /\ ToNext("s_dead")
  BY <1>6 DEF BeginStates, UrlEndStates, LineStartStates
<1> USE EarlyNext, FailedNext DEF ToNext
<1>8. ASSUME ResOrRespH PROVE LengthNext
  <2> DEFINE q == [To("s_res_HT") EXCEPT !.type = "RESPONSE"]
             r == [To("s_req_method") EXCEPT !.type = "REQUEST", !.method = "HEAD", !.index = 2]
  <2>1. Break(q, exec) \/ Break(r, exec) \/ Fail(parser, exec, "INVALID_CONSTANT")
    BY <1>8 DEF ResOrRespH
  <2>2. /\ Knows(q) /\ q.state = "s_res_HT" /\ q.flags = parser.flags
        /\ Knows(r) /\ r.state = "s_req_method" /\ r.flags = parser.flags
    BY <1>3 DEF Knows
  <2> HIDE DEF q, r
  <2>3. Early(q) /\ Early(r)
    BY <1>5, <2>2 DEF FirstLineStates, BeginStates
  <2> QED
    BY <1>2, <2>1, <2>2, <2>3
<1>9. ASSUME Version PROVE LengthNext
  <2> DEFINE q(s) == [To(s) EXCEPT !.http_major = DigitValue(ch)]
             r(s) == [To(s) EXCEPT !.http_minor = DigitValue(ch)]
  <2>1. \/ Break(q("s_res_http_dot"), exec) \/ Break(r("s_res_http_end"), exec)
        \/ Break(q("s_req_http_dot"), exec) \/ Break(r("s_req_http_end"), exec)
        \/ Fail(parser, exec, "INVALID_VERSION")
    BY <1>9 DEF Version
  <2>2. \A s : /\ Knows(q(s)) /\ q(s).state = s /\ q(s).flags = parser.flags
               /\ Knows(r(s)) /\ r(s).state = s /\ r(s).flags = parser.flags
    BY <1>3 DEF Knows
  <2> HIDE DEF q, r
  <2>3. /\ Early(q("s_res_http_dot")) /\ Early(r("s_res_http_end"))
        /\ Early(q("s_req_http_dot")) /\ Early(r("s_req_http_end"))
    BY <1>5, <2>2 DEF FirstLineStates, BeginStates, UrlEndStates
  <2> QED
    BY <1>2, <2>1, <2>2, <2>3
<1>10. ASSUME FirstStatusCode PROVE LengthNext
  <2> DEFINE q == [To("s_res_status_code") EXCEPT !.status_code = DigitValue(ch)]
  <2>1. Break(q, exec) \/ Break(parser, exec) \/ Fail(parser, exec, "INVALID_STATUS")
    BY <1>10 DEF FirstStatusCode
  <2>2. Knows(q) /\ q.state = "s_res_status_code" /\ q.flags = parser.flags
    BY <1>3 DEF Knows
  <2> HIDE DEF q
  <2>3. Early(q)
    BY <1>5, <2>2 DEF FirstLineStates, BeginStates
  <2> QED
    BY <1>2, <2>1, <2>2, <2>3
<1>11. ASSUME StatusCode PROVE LengthNext
  <2> DEFINE code == parser.status_code * 10 + DigitValue(ch)
             q == [parser EXCEPT !.status_code = code]
             r == To("s_res_status_start")
  <2>1. Break(q, exec) \/ Break(r, exec) \/ Again(r, exec) \/ Fail(parser, exec, "INVALID_STATUS")
    BY <1>11 DEF StatusCode
  <2> HIDE DEF code
  <2>2. Knows(q) /\ q.state = parser.state /\ q.flags = parser.flags
    BY <1>2 DEF Knows
  <2> HIDE DEF q
  <2>3. Early(q)
    BY <1>1, <1>5, <2>2
  <2> QED
    BY <1>2, <1>7, <2>1, <2>2, <2>3
<1>12. ASSUME StatusStart PROVE LengthNext
  <2> DEFINE q == [To("s_res_status") EXCEPT !.index = 0]
             x == MARK(exec, "status")
  <2>1. Again(q, x) \/ Break(q, x)
    BY <1>12 DEF StatusStart
  <2>2. Knows(q) /\ q.state = "s_res_status" /\ q.flags = parser.flags
    BY <1>3 DEF Knows
  <2> HIDE DEF q, x
  <2>3. Early(q)
    BY <1>5, <2>2 DEF FirstLineStates
  <2> QED
    BY <2>1, <2>2, <2>3
<1>13. ASSUME Status PROVE LengthNext
  <2>1. \/ CALLBACK_DATA(To("s_res_line_almost_done"), exec, "status", exec.p - 1, exec.p + 1, Advance)
        \/ CALLBACK_DATA(To("s_header_field_start"), exec, "status", exec.p - 1, exec.p + 1, Advance)
        \/ Break(parser, exec)
    BY <1>13 DEF Status
  <2> QED
    BY <1>2, <1>7, <2>1
<1>14. ASSUME Method PROVE LengthNext
  <2> DEFINE next == [parser EXCEPT !.index = @ + 1]
             q == [next EXCEPT !.state = "s_req_spaces_before_url"]
             r(m) == [next EXCEPT !.method = m]
  <2>1. \/ Break(q, exec) \/ Break(next, exec) \/ Fail(parser, exec, "INVALID_METHOD")
        \/ \E m : Break(r(m), exec)
    BY <1>14 DEF Method
  <2>2. Knows(next) /\ next.state = parser.state /\ next.flags = parser.flags
    BY <1>2 DEF Knows
  <2> HIDE DEF next
  <2>3. /\ Knows(q) /\ q.state = "s_req_spaces_before_url" /\ q.flags = parser.flags
        /\ \A m : Knows(r(m)) /\ r(m).state = parser.state /\ r(m).flags = parser.flags
    BY <2>2 DEF Knows
  <2> HIDE DEF q, r
  <2>4. Early(q)
    BY <1>5, <2>3 DEF FirstLineStates, BeginStates
  <2>5. Early(next) /\ \A m : Early(r(m))
    BY <1>1, <1>5, <2>2, <2>3
  <2> QED
    BY <1>2, <2>1, <2>2, <2>3, <2>4, <2>5
<1>15. ASSUME SpacesBeforeUrl PROVE LengthNext
  <2> DEFINE start == IF parser.method = "CONNECT" THEN "s_req_server_start"
                      ELSE "s_req_spaces_before_url"
             s == parse_url_char(start, ch)
             x == MARK(exec, "url")
  <2>1. s \in UrlStates \cup {"s_dead"}
    BY UrlCharStates
  <2>2. Break(parser, exec) \/ Fail(To("s_dead"), x, "INVALID_URL") \/ Break(To(s), x)
    BY <1>15 DEF SpacesBeforeUrl
  <2> HIDE DEF s, x
  <2>3. ToNext(s)
    BY <1>6, <2>1
  <2> QED
    BY <1>2, <1>7, <2>2, <2>3
<1>16. ASSUME Url PROVE LengthNext
  <2> DEFINE q == [To("s_req_line_almost_done") EXCEPT !.http_major = 0, !.http_minor = 9]
             r == [To("s_header_field_start") EXCEPT !.http_major = 0, !.http_minor = 9]
             s == parse_url_char(parser.state, ch)
  <2>1. s \in UrlStates \cup {"s_dead"}
    BY UrlCharStates
  <2>2. \/ \E after \in {To("s_req_http_start"), q, r} :
             CALLBACK_DATA(after, exec, "url", exec.p - 1, exec.p + 1, Advance)
        \/ Fail(parser, exec, "INVALID_URL") \/ Fail(To("s_dead"), exec, "INVALID_URL")
        \/ Break(To(s), exec)
    BY <1>16 DEF Url
  <2>3. /\ Knows(q) /\ q.state = "s_req_line_almost_done" /\ q.flags = parser.flags
        /\ Knows(r) /\ r.state = "s_header_field_start" /\ r.flags = parser.flags
    BY <1>3 DEF Knows
  <2> HIDE DEF q, r, s
  <2>4. Early(q) /\ Early(r)
    BY <1>5, <2>3 DEF FirstLineStates, UrlEndStates, LineStartStates
  <2>5. ToNext(s)
    BY <1>6, <2>1
  <2> QED
    BY <1>2, <1>7, <2>2, <2>3, <2>4, <2>5
<1>17. ASSUME HttpStart PROVE LengthNext
  BY <1>2, <1>7, <1>17 DEF HttpStart
<1>18. ASSUME HttpEnd PROVE LengthNext
  BY <1>2, <1>7, <1>18 DEF HttpEnd
<1> QED
  BY <1>8, <1>9, <1>10, <1>11, <1>12, <1>13, <1>14, <1>15, <1>16, <1>17, <1>18

-----------------------------------------------------------------------------
(* What the steps of the headers have in common. *)

LEMMA InHeader ==
  ASSUME IInv, LengthsInv, exec.pc \in {"switch", "loop"}
  PROVE  /\ parser.errno = "OK" /\ log \in History /\ Len(log) \in Nat /\ Knows(parser)
         /\ stream \in Streams /\ Len(stream) \in Nat
         /\ IsStruct(parser) /\ IsLocals(exec) /\ Settled(parser, LastOf(log))
         /\ exec.p \in Nat \ {0} /\ exec.end \in Nat
         /\ "F_TRAILING" \notin parser.flags => Held(parser, exec, log)
<1>1. exec.pc \in CallPcs
  BY DEF CallPcs
<1>2. parser.errno = "OK" /\ log \in History /\ Settled(parser, LastOf(log))
  BY <1>1, CallSettled
<1>3. "F_TRAILING" \notin parser.flags => Held(parser, exec, log)
  BY <1>2 DEF LengthsInv, LengthInv
<1>4. stream \in Streams /\ IsStruct(parser) /\ IsLocals(exec) /\ Len(stream) \in Nat
  BY InCall
<1> QED
  BY <1>2, <1>3, <1>4, StructKnown, LastEntry DEF IsLocals

\* A length that has been stated does not depend on where the call stands, but
\* while the entry of its value may be the last.
LEMMA StatedFree ==
  ASSUME NEW q, NEW x, NEW l, Stated(q, x, l), NEW r, NEW y,
         r.content_length = q.content_length,
         r.state \notin {"s_header_almost_done", "s_header_value_lws", "s_header_value_start",
                         "s_header_value"}
  PROVE  Stated(r, y, l)
BY DEF Stated

\* Nor does a callback change it.
LEMMA StatedAfter ==
  ASSUME log \in History, NEW q, NEW x, Stated(q, x, log),
         NEW data \in CallbackNames, data # "message_begin", NEW at, NEW to,
         NEW l, l = Record(data, at, to),
         Joins(log, data, at) /\ data = "header_value" =>
           q.state = "s_header_value" /\ Cur(x, "header_value") = at,
         NEW r, NEW y, r.content_length = q.content_length
  PROVE  Stated(r, y, l)
<1>0. PICK v : v = q.content_length
  OBVIOUS
<1>1. PICK i \in 1..Len(log) :
        /\ States_(log, i, v)
        /\ i + 1 = Len(log) /\ q.state = "s_header_value" =>
             log[i + 1].to + 1 < Cur(x, "header_value")
  BY <1>0 DEF Stated
<1>2. Len(log) \in Nat /\ (Len(log) # 0 => LastOf(log) = log[Len(log)].callback)
  BY LastEntry
<1>3. i + 1 \in 1..Len(log) /\ log[i + 1].callback = "header_value"
  BY <1>1 DEF States_
<1>4. i + 1 <= Before(log, data, at)
  <2>1. CASE ~Joins(log, data, at)
    BY <1>3, <2>1 DEF Before
  <2>2. CASE Joins(log, data, at) /\ data # "header_value"
    <3>1. i + 1 # Len(log)
      BY <1>2, <1>3, <2>2 DEF Joins
    <3> QED
      BY <1>2, <1>3, <2>2, <3>1 DEF Before
  <2>3. CASE Joins(log, data, at) /\ data = "header_value"
    <3>1. log[Len(log)].to + 1 = at /\ at = Cur(x, "header_value") /\ q.state = "s_header_value"
      BY <2>3 DEF Joins
    <3>2. log[Len(log)].to \in Nat
      BY <1>2, <1>3, EntryOf
    <3>3. i + 1 # Len(log)
      BY <1>1, <3>1, <3>2
    <3> QED
      BY <1>2, <1>3, <2>3, <3>3 DEF Before
  <2> QED
    BY <2>1, <2>2, <2>3
<1>5. States_(l, i, v) /\ i + 1 < Len(l) /\ i \in 1..Len(l)
  BY <1>1, <1>4, StatementKept
<1>6. i + 1 # Len(l)
  BY <1>5
<1> QED
  BY <1>0, <1>5, <1>6 DEF Stated

LEMMA HeldNext ==
  ASSUME NEW q, NEW y, parser' = q, exec' = y, q.state \in LengthStates \ {"s_headers_done"},
         "F_TRAILING" \notin q.flags => Held(q, y, log')
  PROVE  LengthNext
BY HeadHolds DEF LengthNext

LEMMA StoppedNext ==
  ASSUME NEW q, Knows(q), q.state # "s_chunk_data", NEW x, NEW c \in CallbackNames, NEW next,
         Stopped(q, x, c, next)
  PROVE  LengthNext
<1>1. CallbackErrors[c] # "OK"
  BY DEF CallbackNames, CallbackErrors
<1>2. parser'.errno # "OK" /\ parser'.state = q.state
  BY <1>1 DEF Stopped, Stop, Knows
<1> QED
  BY <1>2, NextHolds

\* Marked data is passed on.
LEMMA DataPassed ==
  ASSUME NEW q, NEW x, NEW data, x.marks[data] # 0, NEW to, NEW next
  PROVE  /\ CALLBACK_DATA(q, x, data, to, next, Advance) =>
              /\ log' = Record(data, x.marks[data], to)
              /\ Stopped(q, x, data, next) \/ Advance(q, Unmark(x, data))
         /\ CALLBACK_DATA(q, x, data, to, next, REEXECUTE) =>
              /\ log' = Record(data, x.marks[data], to)
              /\ Stopped(q, x, data, next) \/ REEXECUTE(q, Unmark(x, data))
BY DEF CALLBACK_DATA, Stopped, Unmark

LEMMA HeldBy ==
  ASSUME NEW q, NEW x, NEW l, q.state \in LengthStates \ {"s_header_field", "s_header_value"},
         "F_CONTENTLENGTH" \in q.flags => Stated(q, x, l),
         q.state \in DiscardStates /\ q.header_state = "h_content_length" => NameAt(l, Len(l)),
         q.state \in ValueEndStates \cup {"s_header_value"} => q.header_state # "h_content_length"
  PROVE  Held(q, x, l)
BY DEF Held, NameRead, NameFound, ValueRead

-----------------------------------------------------------------------------
(* Header fields. *)

LEMMA StatedOn ==
  ASSUME IInv, LengthsInv, exec.pc \in {"switch", "loop"}, "F_TRAILING" \notin parser.flags,
         parser.state \in LengthStates \ {"s_header_value"},
         "F_CONTENTLENGTH" \in parser.flags
  PROVE  Stated(parser, exec, log)
BY InHeader DEF Held, ValueRead

LEMMA LiteralNextHolds ==
  ASSUME IInv, LengthsInv, Literal PROVE LengthNext
<1>1. exec.pc = "switch" /\ parser.state \in DOMAIN Literals
  BY DEF Literal, At_
<1> DEFINE s == parser.state
           next == Literals[s].next
           q == To(next)
           y == [exec EXCEPT !.pc = "fetch", !.p = @ + 1]
<1>2. /\ parser.errno = "OK" /\ log \in History /\ Len(log) \in Nat /\ Knows(parser)
      /\ IsStruct(parser) /\ exec.p \in Nat /\ IsLocals(exec)
      /\ "F_TRAILING" \notin parser.flags => Held(parser, exec, log)
  BY <1>1, InHeader
<1>3. Knows(q) /\ q.state = next /\ q.flags = parser.flags
      /\ q.header_state = parser.header_state /\ q.content_length = parser.content_length
  BY <1>2, StructKnown DEF To, Knows
<1>4. Break(q, exec) \/ Fail(parser, exec, Literals[s].error)
  BY DEF Literal
<1>5. Literals[s].error # "OK" /\ s # "s_chunk_data"
  BY <1>1, LiteralError, LiteralNames
<1>6. \/ s \in BeginStates /\ next \in BeginStates
      \/ s \in UrlEndStates /\ next \in UrlEndStates \cup {"s_header_field_start"}
      \/ s = "s_res_line_almost_done" /\ next = "s_header_field_start"
      \/ s = "s_header_almost_done" /\ next = "s_header_value_lws"
      \/ s = "s_header_value_discard_ws_almost_done" /\ next = "s_header_value_discard_lws"
  BY <1>1, LiteralStates
<1>7. CASE Fail(parser, exec, Literals[s].error)
  BY <1>2, <1>5, <1>7, FailedNext
<1>8. CASE Break(q, exec) /\ s \notin {"s_header_almost_done", "s_header_value_discard_ws_almost_done"}
  <2>1. s \in FirstLineStates /\ next \in FirstLineStates \cup LineStartStates
    BY <1>6, <1>8 DEF FirstLineStates, LineStartStates
  <2>2. Early(q)
    BY <1>1, <2>1, InFirstLine
  <2> QED
    BY <1>3, <1>8, <2>2, EarlyNext
<1>9. CASE Break(q, exec) /\ s \in {"s_header_almost_done", "s_header_value_discard_ws_almost_done"}
  <2>1. parser' = q /\ exec' = y /\ log' = log /\ y.p = exec.p + 1
    BY <1>2, <1>9 DEF Break, Advance, IsLocals
  <2>2. next \in {"s_header_value_lws", "s_header_value_discard_lws"}
        /\ s \in LengthStates \ {"s_header_value", "s_header_field"}
    BY <1>6, <1>9 DEF BeginStates, UrlEndStates, LengthStates, ValueEndStates, DiscardStates
  <2>3. next \in LengthStates \ {"s_headers_done", "s_header_field", "s_header_value"}
    BY <2>2 DEF LengthStates, ValueEndStates, DiscardStates
  <2> HIDE DEF q, y
  <2>4. ASSUME "F_TRAILING" \notin q.flags PROVE Held(q, y, log)
    <3>1. Held(parser, exec, log)
      BY <1>2, <1>3, <2>4
    <3>2. "F_CONTENTLENGTH" \in q.flags => Stated(q, y, log)
      <4>1. SUFFICES ASSUME "F_CONTENTLENGTH" \in q.flags PROVE Stated(q, y, log)
        OBVIOUS
      <4>2. Stated(parser, exec, log)
        BY <1>1, <1>3, <2>2, <2>4, <4>1, StatedOn
      <4>3. CASE next = "s_header_value_discard_lws"
        BY <1>3, <4>2, <4>3, StatedFree
      <4>4. CASE next = "s_header_value_lws"
        <5>1. s = "s_header_almost_done"
          BY <1>6, <1>9, <4>4 DEF BeginStates, UrlEndStates
        <5>2. PICK i \in 1..Len(log) :
                /\ States_(log, i, parser.content_length)
                /\ i + 1 = Len(log) => log[i + 1].to + 1 <= exec.p
          BY <4>2, <5>1 DEF Stated
        <5>3. i + 1 = Len(log) => log[i + 1].to + 1 < y.p
          <6>1. SUFFICES ASSUME i + 1 = Len(log) PROVE log[i + 1].to + 1 < y.p
            OBVIOUS
          <6>2. log[i + 1].to \in Nat
            BY <1>2, <6>1, EntryOf
          <6> QED
            BY <1>2, <2>1, <5>2, <6>1, <6>2
        <5> QED
          BY <1>3, <4>4, <5>2, <5>3 DEF Stated
      <4> QED
        BY <2>2, <4>3, <4>4
    <3>3. q.state \in DiscardStates /\ q.header_state = "h_content_length" => NameAt(log, Len(log))
      <4>1. SUFFICES ASSUME q.state \in DiscardStates, q.header_state = "h_content_length"
                     PROVE  NameAt(log, Len(log))
        OBVIOUS
      <4>2. s \in DiscardStates
        BY <1>3, <1>6, <1>9, <4>1 DEF DiscardStates, BeginStates, UrlEndStates
      <4> QED
        BY <1>3, <3>1, <4>1, <4>2 DEF Held, NameFound
    <3>4. q.state \in ValueEndStates \cup {"s_header_value"} => q.header_state # "h_content_length"
      <4>1. SUFFICES ASSUME q.state \in ValueEndStates \cup {"s_header_value"}
                     PROVE  q.header_state # "h_content_length"
        OBVIOUS
      <4>2. s \in ValueEndStates
        BY <1>3, <1>6, <1>9, <4>1 DEF ValueEndStates, BeginStates, UrlEndStates
      <4> QED
        BY <1>3, <3>1, <4>2 DEF Held, NameFound
    <3> QED
      BY <1>3, <2>3, <3>2, <3>3, <3>4, HeldBy
  <2> QED
    BY <1>3, <2>1, <2>3, <2>4, HeldNext
<1> QED
  BY <1>4, <1>7, <1>8, <1>9

\* Data that begins at the byte at hand.
LEMMA MarkHere ==
  ASSUME IInv, exec.pc = "switch", parser.state \notin MarkStates, NEW data \in DataKinds,
         NEW x, x = MARK(exec, data)
  PROVE  /\ x.p = exec.p /\ x.marks[data] = exec.p /\ x.pc = exec.pc /\ x.end = exec.end
         /\ {"pc", "p", "marks"} \subseteq DOMAIN x
         /\ \A m \in DataKinds \ {data} : x.marks[m] = 0
<1>1. \A m \in DataKinds : exec.marks[m] = 0
  BY NothingMarked
<1>2. IsLocals(exec) /\ exec.marks[data] = 0
  BY <1>1, InSwitch
<1>3. x = [exec EXCEPT !.marks[data] = exec.p]
  BY <1>2 DEF MARK
<1>4. DOMAIN exec.marks = DataKinds
  BY <1>2 DEF IsLocals
<1> QED
  BY <1>1, <1>2, <1>3, <1>4 DEF IsLocals

LEMMA LengthWord ==
  /\ Len(LengthName) \in 5..31 /\ LengthName \in Seq(STRING)
  /\ LengthName[1] = "c" /\ LengthName[2] = "o" /\ LengthName[3] = "n" /\ LengthName[4] = "t"
  /\ FieldWords["h_matching_content_length"].word = LengthName
  /\ "h_matching_content_length" \in DOMAIN FieldWords
<1>1. /\ FieldWords["h_matching_content_length"].word = LengthName
      /\ "h_matching_content_length" \in DOMAIN FieldWords
  BY DEF FieldWords, Keyword, LengthName
<1>2. Len(LengthName) \in 5..31 /\ LengthName \in Seq(STRING)
  BY <1>1, CharsAssumption
<1>3. PICK t : t = SubSeq(LengthName, 1, 4)
  OBVIOUS
<1>4. t = <<"c", "o", "n", "t">>
  BY <1>3, CharsAssumption, Zenon DEF LengthName
<1>5. t[1] = "c" /\ t[2] = "o" /\ t[3] = "n" /\ t[4] = "t"
  BY <1>4
<1>6. t[1] = LengthName[1] /\ t[2] = LengthName[2] /\ t[3] = LengthName[3] /\ t[4] = LengthName[4]
  BY <1>2, <1>3
<1> QED
  BY <1>1, <1>2, <1>5, <1>6

LEMMA FieldStartNext ==
  ASSUME IInv, LengthsInv, HeaderFieldStart PROVE LengthNext
<1>1. exec.pc = "switch" /\ parser.state = "s_header_field_start"
  BY DEF HeaderFieldStart, At_
<1> DEFINE first == [c |-> "h_C", p |-> "h_matching_proxy_connection",
                     t |-> "h_matching_transfer_encoding", u |-> "h_matching_upgrade"]
           s == IF Lowered(ch) \in DOMAIN first THEN first[Lowered(ch)] ELSE "h_general"
           r == To("s_headers_almost_done")
           q == [To("s_header_field") EXCEPT !.index = 0, !.header_state = s]
           x == MARK(exec, "header_field")
           y == [x EXCEPT !.pc = "fetch", !.p = @ + 1]
<1>2. /\ parser.errno = "OK" /\ log \in History /\ Len(log) \in Nat /\ Knows(parser)
      /\ IsLocals(exec) /\ exec.p \in Nat \ {0} /\ Settled(parser, LastOf(log))
      /\ "F_TRAILING" \notin parser.flags => Held(parser, exec, log)
  BY <1>1, InHeader
<1>3. /\ Knows(r) /\ r.state = "s_headers_almost_done" /\ r.flags = parser.flags
      /\ r.content_length = parser.content_length
      /\ Knows(q) /\ q.state = "s_header_field" /\ q.flags = parser.flags
      /\ q.content_length = parser.content_length /\ q.index = 0 /\ q.header_state = s
  BY <1>2, StructKnown DEF To, Knows
<1>4. \/ Break(r, exec) \/ Again(r, exec) \/ Break(q, x)
      \/ Fail(parser, exec, "INVALID_HEADER_TOKEN")
  BY DEF HeaderFieldStart
<1>5. CASE Fail(parser, exec, "INVALID_HEADER_TOKEN")
  BY <1>1, <1>2, <1>5, FailedNext
<1>6. ASSUME NEW z, parser' = r, exec' = z, log' = log PROVE LengthNext
  <2> HIDE DEF r
  <2>1. parser.state \in LengthStates /\ r.state \in LengthStates
    BY <1>1, <1>3 DEF LengthStates, LineStartStates
  <2>2. r.state \notin DiscardStates \cup ValueEndStates
    BY <1>3 DEF DiscardStates, ValueEndStates
  <2>3. ASSUME "F_TRAILING" \notin r.flags PROVE Held(r, z, log)
    <3>1. "F_CONTENTLENGTH" \in r.flags => Stated(r, z, log)
      BY <1>1, <1>3, <2>1, <2>3, StatedOn, StatedFree
    <3> QED
      BY <1>3, <2>1, <2>2, <3>1, HeldBy
  <2> QED
    BY <1>3, <1>6, <2>1, <2>3, HeldNext
<1>7. CASE Break(r, exec) \/ Again(r, exec)
  BY <1>6, <1>7 DEF Break, Again, Advance, REEXECUTE
<1>8. CASE Break(q, x)
  <2>1. parser' = q /\ exec' = y /\ log' = log
    BY <1>8 DEF Break, Advance
  <2>2. x.p = exec.p /\ x.marks["header_field"] = exec.p /\ {"pc", "p", "marks"} \subseteq DOMAIN x
    BY <1>1, MarkHere, InLineStart DEF DataKinds, LineStartStates
  <2>3. y.p = exec.p + 1 /\ y.marks["header_field"] = exec.p
    BY <2>2
  <2>4. s \in LengthNameStates => s = "h_C" /\ Lowered(ch) = "c"
    BY DEF LengthNameStates
  <2> HIDE DEF q, s, x, y
  <2>5. parser.state \in LengthStates /\ q.state \in LengthStates
    BY <1>1, <1>3 DEF LengthStates, LineStartStates
  <2>6. ASSUME "F_TRAILING" \notin q.flags PROVE Held(q, y, log)
    <3>1. "F_CONTENTLENGTH" \in q.flags => Stated(q, y, log)
      BY <1>1, <1>3, <2>5, <2>6, StatedOn, StatedFree
    <3>2. Began(log, "header_field", Cur(y, "header_field")) = exec.p
      <4>1. LastOf(log) # "header_field"
        BY <1>1, <1>2 DEF Settled, Order, LineStartStates, BeforeLine
      <4>2. Cur(y, "header_field") = exec.p
        BY <1>2, <2>3 DEF Cur
      <4> QED
        BY <4>1, <4>2 DEF Began, Joins
    <3>3. NameRead(q, y, log)
      <4>1. SUFFICES ASSUME s \in LengthNameStates PROVE NameRead(q, y, log)
        BY <1>3 DEF NameRead
      <4>2. s = "h_C" /\ Lowered(stream[exec.p]) = LengthName[1]
        BY <2>4, <4>1, LengthWord DEF ch
      <4>3. exec.p # 0 /\ y.p - exec.p = q.index + 1 /\ q.header_state = "h_C"
        BY <1>2, <1>3, <2>3, <4>2
      <4>4. \A k \in 0..q.index : Lowered(stream[exec.p + k]) = LengthName[k + 1]
        <5>1. SUFFICES ASSUME NEW k \in 0..0 PROVE Lowered(stream[exec.p + k]) = LengthName[k + 1]
          BY <1>3
        <5>2. exec.p + k = exec.p /\ k + 1 = 1
          BY <1>2
        <5> QED
          BY <4>2, <5>2
      <4> QED
        BY <3>2, <4>3, <4>4 DEF NameRead
    <3>4. q.state \notin DiscardStates \cup ValueEndStates \cup {"s_header_value"}
      BY <1>3 DEF DiscardStates, ValueEndStates
    <3> QED
      BY <1>3, <3>1, <3>3, <3>4 DEF Held, NameFound, ValueRead
  <2> QED
    BY <1>3, <2>1, <2>5, <2>6, HeldNext
<1> QED
  BY <1>4, <1>5, <1>7, <1>8

\* A letter of the name of a content length, and what comes before it.
LEMMA FieldLetter ==
  ASSUME NEW q, IsStruct(q), q.state = "s_header_field", Words(q), NEW c,
         NEW r, r = FieldCharacter(q, c), r.header_state \in LengthNameStates
  PROVE  /\ q.header_state \in LengthNameStates /\ r.index = q.index + 1
         /\ c = LengthName[q.index + 2]
         /\ r.header_state = "h_content_length" => r.index + 1 = Len(LengthName)
<1>1. q.index \in 0..31 /\ q.header_state \in NameStates
  BY DEF IsStruct, Words
<1> DEFINE Moved(s) == [q EXCEPT !.index = @ + 1, !.header_state = s]
<1>2. \A s : Moved(s).index = q.index + 1 /\ Moved(s).header_state = s
  BY DEF IsStruct
<1>3. CASE q.header_state = "h_C"
  <2>1. r = Moved(IF c = "o" THEN "h_CO" ELSE "h_general") /\ q.index = 0
    BY <1>3, FieldWordNames DEF FieldCharacter, Words
  <2> HIDE DEF Moved
  <2>2. r.header_state = IF c = "o" THEN "h_CO" ELSE "h_general"
    BY <1>2, <2>1
  <2>3. c = "o" /\ r.header_state = "h_CO"
    BY <2>2 DEF LengthNameStates
  <2> QED
    BY <1>2, <1>3, <2>1, <2>3, LengthWord DEF LengthNameStates
<1>4. CASE q.header_state = "h_CO"
  <2>1. r = Moved(IF c = "n" THEN "h_CON" ELSE "h_general") /\ q.index = 1
    BY <1>4, FieldWordNames DEF FieldCharacter, Words
  <2> HIDE DEF Moved
  <2>2. r.header_state = IF c = "n" THEN "h_CON" ELSE "h_general"
    BY <1>2, <2>1
  <2>3. c = "n" /\ r.header_state = "h_CON"
    BY <2>2 DEF LengthNameStates
  <2> QED
    BY <1>2, <1>4, <2>1, <2>3, LengthWord DEF LengthNameStates
<1>5. CASE q.header_state = "h_CON"
  <2> DEFINE t == CASE c = "n" -> "h_matching_connection"
                    [] c = "t" -> "h_matching_content_length"
                    [] OTHER -> "h_general"
  <2>1. r = Moved(t) /\ q.index = 2
    BY <1>5, FieldWordNames DEF FieldCharacter, Words
  <2>2. t \in LengthNameStates => c = "t" /\ t = "h_matching_content_length"
    BY DEF LengthNameStates
  <2> HIDE DEF Moved, t
  <2>3. r.header_state = t /\ r.index = q.index + 1
    BY <1>2, <2>1
  <2> QED
    BY <1>5, <2>1, <2>2, <2>3, LengthWord DEF LengthNameStates
<1>6. CASE q.header_state \in DOMAIN FieldWords
  <2> DEFINE h == q.header_state
             compared == Compared(q, FieldWords[h], c, "h_general")
  <2>1. r = [compared EXCEPT !.uses_transfer_encoding =
               @ \/ compared.header_state = "h_transfer_encoding"]
    BY <1>6, FieldWordNames DEF FieldCharacter
  <2>2. /\ compared.index = q.index + 1 /\ {"index", "header_state"} \subseteq DOMAIN compared
        /\ compared.header_state = CASE c # At(FieldWords[h].word, q.index + 1) -> "h_general"
             [] c = At(FieldWords[h].word, q.index + 1)
                /\ q.index + 1 = Len(FieldWords[h].word) - 1 -> FieldWords[h].found
             [] OTHER -> h
    BY DEF Compared, IsStruct
  <2> HIDE DEF compared
  <2>3. r.index = q.index + 1 /\ r.header_state = compared.header_state
    BY <2>1, <2>2
  <2>4. /\ FieldWords["h_matching_connection"].found = "h_connection"
        /\ FieldWords["h_matching_proxy_connection"].found = "h_connection"
        /\ FieldWords["h_matching_transfer_encoding"].found = "h_transfer_encoding"
        /\ FieldWords["h_matching_upgrade"].found = "h_upgrade"
        /\ FieldWords["h_matching_content_length"].found = "h_content_length"
    BY DEF FieldWords, Keyword
  <2>5. c = At(FieldWords[h].word, q.index + 1) /\ r.header_state \in {h, FieldWords[h].found}
        /\ (r.header_state = h \/ q.index + 1 = Len(FieldWords[h].word) - 1)
    BY <2>2, <2>3 DEF LengthNameStates
  <2>6. h = "h_matching_content_length"
    BY <1>6, <2>4, <2>5, FieldWordNames DEF LengthNameStates
  <2>7. c = At(LengthName, q.index + 1)
        /\ (r.header_state = h \/ q.index + 1 = Len(LengthName) - 1)
    BY <2>5, <2>6, LengthWord
  <2>8. q.index + 1 < Len(LengthName)
    BY <1>6, <2>6, LengthWord DEF Words
  <2>9. PICK n \in 5..31 : n = Len(LengthName)
    BY LengthWord
  <2>10. c = LengthName[q.index + 1 + 1]
    BY <2>7, <2>8 DEF At
  <2>11. q.index + 1 + 1 = q.index + 2
    BY <1>1
  <2>12. r.header_state = "h_content_length" => r.index + 1 = n
    BY <1>1, <2>3, <2>6, <2>7, <2>9
  <2>13. c = LengthName[q.index + 2]
    BY <2>10, <2>11
  <2>14. q.header_state \in LengthNameStates
    BY <2>6 DEF LengthNameStates
  <2> QED
    BY <2>3, <2>9, <2>12, <2>13, <2>14
<1>7. CASE q.header_state \notin {"h_C", "h_CO", "h_CON"} \cup DOMAIN FieldWords
  <2>1. r = [q EXCEPT !.header_state = "h_general"]
    BY <1>7 DEF FieldCharacter
  <2>2. r.header_state = "h_general"
    BY <2>1 DEF IsStruct
  <2> QED
    BY <2>2 DEF LengthNameStates
<1> QED
  BY <1>3, <1>4, <1>5, <1>6, <1>7

\* A loop that runs out leaves everything where it was.
LEMMA LoopRunsOutNext ==
  ASSUME IInv, LengthsInv, exec.pc \in {"switch", "loop"},
         parser.state \in {"s_header_field", "s_header_value"}, exec.p > exec.end, LoopRunsOut
  PROVE  LengthNext
<1> DEFINE n == exec.end - LoopStart
           x == [exec EXCEPT !.p = exec.end, !.start = 0]
           z == Counted(x, n)
           y == [z EXCEPT !.pc = "fetch", !.p = @ + 1]
<1>1. /\ IsLocals(exec) /\ exec.p \in 1..exec.end + 1 /\ exec.end \in Nat /\ Knows(parser)
  BY InRound, InHeader
<1>2. x.p = exec.end /\ x.marks = exec.marks /\ {"pc", "p", "nread", "marks"} \subseteq DOMAIN x
  BY <1>1 DEF IsLocals
<1> HIDE DEF x
<1>3. z.p = exec.end /\ z.marks = exec.marks /\ {"pc", "p", "marks"} \subseteq DOMAIN z
  BY <1>2 DEF Counted
<1>4. Fail(parser, x, "HEADER_OVERFLOW") \/ Break(parser, z)
  BY DEF LoopRunsOut, x
<1> HIDE DEF z
<1>5. CASE Fail(parser, x, "HEADER_OVERFLOW")
  BY <1>1, <1>5, FailedNext
<1>6. CASE Break(parser, z)
  <2>1. parser' = parser /\ exec' = y /\ log' = log
    BY <1>6 DEF Break, Advance
  <2>2. y.p = exec.p /\ y.marks = exec.marks
    BY <1>1, <1>3
  <2> HIDE DEF y
  <2>3. SamePlace(exec, y)
    BY <2>2 DEF SamePlace, Cur
  <2>4. SameLength(parser, parser)
    BY DEF SameLength
  <2>5. LengthInv(parser, exec, log)
    BY DEF LengthsInv
  <2>6. LengthInv(parser, y, log)
    BY <2>3, <2>4, <2>5, PlaceHolds
  <2> QED
    BY <2>1, <2>6 DEF LengthNext
<1> QED
  BY <1>4, <1>5, <1>6

\* One more round of a loop over a field, with the struct q.
LEMMA FieldRoundNext ==
  ASSUME IInv, LengthsInv, exec.pc \in {"switch", "loop"}, parser.state = "s_header_field",
         NEW q, q.state = "s_header_field", q.flags = parser.flags,
         q.content_length = parser.content_length, NEW next, Loop(q, next),
         NEW y, y = [exec EXCEPT !.pc = "loop", !.start = LoopStart, !.p = next],
         "F_TRAILING" \notin q.flags => NameRead(q, y, log)
  PROVE  LengthNext
<1>1. parser' = q /\ exec' = y /\ log' = log
  BY DEF Loop
<1>2. parser.state \in LengthStates /\ q.state \in LengthStates \ {"s_headers_done"}
  BY DEF LengthStates
<1>3. ASSUME "F_TRAILING" \notin q.flags PROVE Held(q, y, log)
  <2>1. "F_CONTENTLENGTH" \in q.flags => Stated(q, y, log)
    BY <1>2, <1>3, StatedOn, StatedFree
  <2>2. q.state \notin DiscardStates \cup ValueEndStates \cup {"s_header_value"}
    BY DEF DiscardStates, ValueEndStates
  <2> QED
    BY <1>3, <2>1, <2>2 DEF Held, NameFound, ValueRead
<1> QED
  BY <1>1, <1>2, <1>3, HeldNext

\* The name of a content length, passed on.
LEMMA NamePassed ==
  ASSUME IInv, LimitInv', LengthsInv, exec.pc \in {"switch", "loop"}, parser.state = "s_header_field",
         "F_TRAILING" \notin parser.flags, parser.header_state = "h_content_length",
         exec.marks["header_field"] # 0,
         log' = Record("header_field", exec.marks["header_field"], exec.p - 1)
  PROVE  NameAt(log', Len(log'))
<1> DEFINE at == exec.marks["header_field"]
           first == Began(log, "header_field", at)
<1>1. /\ log \in History /\ exec.p \in Nat /\ IsStruct(parser) /\ Held(parser, exec, log)
      /\ IsLocals(exec) /\ Len(log) \in Nat
  BY InHeader
<1>0. parser.index \in Nat
  <2>1. IsStruct(parser)
    BY <1>1
  <2>2. parser.index \in 0..31
    BY <2>1 DEF IsStruct
  <2> QED
    BY <2>2
<1>2. Cur(exec, "header_field") = at
  BY DEF Cur
<1>3. /\ first # 0 /\ exec.p - first = parser.index + 1
      /\ \A k \in 0..parser.index : Lowered(stream[first + k]) = LengthName[k + 1]
      /\ parser.index + 1 = Len(LengthName)
  BY <1>1, <1>2 DEF Held, NameRead, LengthNameStates
<1>4. first \in Nat
  <2>1. at \in Nat
    <3>1. "header_field" \in DataKinds
      BY DEF DataKinds
    <3> QED
      BY <1>1, <3>1, InCall DEF IsLocals
  <2>2. CASE ~Joins(log, "header_field", at)
    BY <2>1, <2>2 DEF Began
  <2>3. CASE Joins(log, "header_field", at)
    <3>1. Len(log) # 0
      BY <1>1, <2>3, LastEntry DEF Joins
    <3>2. log[Len(log)].from \in Nat
      BY <1>1, <3>1, EntryOf
    <3> QED
      BY <2>3, <3>2 DEF Began
  <2> QED
    BY <2>2, <2>3
<1>5. PICK n \in Nat : n = parser.index + 1 /\ exec.p = first + n /\ n = Len(LengthName)
  BY <1>0, <1>1, <1>3, <1>4
<1> HIDE DEF first
<1>6. TextIn(first, exec.p - 1) = LengthName
  <2>1. TextIn(first, exec.p - 1) = [k \in 1..n |-> Lowered(stream[first + k - 1])]
    <3>1. exec.p - 1 + 1 - first = n
      BY <1>1, <1>4, <1>5
    <3> QED
      BY <3>1 DEF TextIn
  <2>2. ASSUME NEW k \in 1..n PROVE Lowered(stream[first + k - 1]) = LengthName[k]
    <3>1. PICK i \in 0..parser.index : k = i + 1
      <4>1. k - 1 \in 0..parser.index /\ k = (k - 1) + 1
        BY <1>0, <1>5
      <4> QED
        BY <4>1
    <3>2. Lowered(stream[first + i]) = LengthName[i + 1]
      BY <1>3
    <3>3. first + k - 1 = first + i
      BY <1>4, <3>1
    <3> QED
      BY <3>1, <3>2, <3>3
  <2>3. LengthName = [k \in 1..n |-> LengthName[k]]
    <3>1. LengthName \in Seq(STRING) /\ n = Len(LengthName)
      BY <1>5, LengthWord
    <3> HIDE DEF LengthName
    <3> QED
      BY <3>1
  <2> QED
    BY <2>1, <2>2, <2>3
<1>7. Grounded(log')
  BY DEF LimitInv
<1> QED
  BY <1>1, <1>6, <1>7, NameMade DEF first

\* A name whose next letter is that of a content length.
LEMMA NameGoesOn ==
  ASSUME IInv, LengthsInv, exec.pc \in {"switch", "loop"}, parser.state = "s_header_field",
         "F_TRAILING" \notin parser.flags, exec.marks["header_field"] # 0,
         NEW r, r = FieldCharacter(parser, Lowered(ch)),
         NEW y, y.p = exec.p + 1, y.marks = exec.marks
  PROVE  NameRead(r, y, log)
<1> DEFINE first == Began(log, "header_field", exec.marks["header_field"])
           i == parser.index
<1>1. /\ IsStruct(parser) /\ Held(parser, exec, log) /\ Words(parser) /\ exec.p \in Nat
      /\ log \in History /\ Len(log) \in Nat /\ IsLocals(exec)
  BY InHeader DEF Settled
<1>2. SUFFICES ASSUME r.header_state \in LengthNameStates PROVE NameRead(r, y, log)
  BY DEF NameRead
<1>3. /\ parser.header_state \in LengthNameStates /\ r.index = i + 1
      /\ Lowered(ch) = LengthName[i + 2]
      /\ r.header_state = "h_content_length" => r.index + 1 = Len(LengthName)
  BY <1>1, <1>2, FieldLetter
<1>4. Cur(exec, "header_field") = exec.marks["header_field"]
      /\ Cur(y, "header_field") = exec.marks["header_field"]
  BY DEF Cur
<1>5. /\ first # 0 /\ exec.p - first = i + 1
      /\ \A k \in 0..i : Lowered(stream[first + k]) = LengthName[k + 1]
  BY <1>1, <1>3, <1>4 DEF Held, NameRead
<1>6. i \in Nat
  <2>1. parser.index \in 0..31
    BY <1>1 DEF IsStruct
  <2> QED
    BY <2>1
<1>7. first \in Nat
  <2>1. exec.marks["header_field"] \in Nat
    <3>1. "header_field" \in DataKinds
      BY DEF DataKinds
    <3> QED
      BY <1>1, <3>1, InCall DEF IsLocals
  <2>2. CASE ~Joins(log, "header_field", exec.marks["header_field"])
    BY <2>1, <2>2 DEF Began
  <2>3. CASE Joins(log, "header_field", exec.marks["header_field"])
    <3>1. Len(log) # 0
      BY <1>1, <2>3, LastEntry DEF Joins
    <3>2. log[Len(log)].from \in Nat
      BY <1>1, <3>1, EntryOf
    <3> QED
      BY <2>3, <3>2 DEF Began
  <2> QED
    BY <2>2, <2>3
<1> HIDE DEF first, i
<1>8. exec.p = first + (i + 1)
  BY <1>1, <1>5, <1>6, <1>7
<1>9. ASSUME NEW k \in 0..i + 1 PROVE Lowered(stream[first + k]) = LengthName[k + 1]
  <2>1. CASE k \in 0..i
    BY <1>5, <2>1
  <2>2. CASE k = i + 1
    <3>1. first + k = exec.p /\ k + 1 = i + 2
      BY <1>6, <1>8, <2>2
    <3>2. Lowered(stream[exec.p]) = LengthName[i + 2]
      BY <1>3 DEF ch
    <3> QED
      BY <3>1, <3>2
  <2> QED
    BY <1>6, <2>1, <2>2
<1>10. y.p - first = (i + 1) + 1
  BY <1>6, <1>7, <1>8
<1> QED
  BY <1>3, <1>4, <1>5, <1>9, <1>10 DEF NameRead, first

\* The colon behind a name.
LEMMA ColonNext ==
  ASSUME IInv, LimitInv', LengthsInv, exec.pc \in {"switch", "loop"}, parser.state = "s_header_field",
         exec.marks["header_field"] # 0, exec.marks["header_field"] \in Nat,
         log' = Record("header_field", exec.marks["header_field"], exec.p - 1),
         NEW q, q = To("s_header_value_discard_ws"), NEW y, parser' = q, exec' = y
  PROVE  LengthNext
<1>1. /\ log \in History /\ IsStruct(parser) /\ Knows(parser)
      /\ "header_field" \in CallbackNames
  BY InHeader DEF CallbackNames, CallbackErrors
<1>2. /\ q.state = "s_header_value_discard_ws" /\ q.flags = parser.flags
      /\ q.content_length = parser.content_length /\ q.header_state = parser.header_state
  BY <1>1 DEF To, Knows
<1>3. /\ parser.state \in LengthStates \ {"s_header_value"}
      /\ q.state \in LengthStates \ {"s_headers_done", "s_header_field", "s_header_value"}
      /\ q.state \notin ValueEndStates
  BY <1>2 DEF LengthStates, DiscardStates, ValueEndStates
<1>4. ASSUME "F_TRAILING" \notin q.flags PROVE Held(q, y, log')
  <2>1. ASSUME "F_CONTENTLENGTH" \in q.flags PROVE Stated(q, y, log')
    <3>1. Stated(parser, exec, log)
      BY <1>2, <1>3, <1>4, <2>1, StatedOn
    <3>2. Stated(q, y, log')
      BY <1>1, <1>2, <3>1, StatedAfter
    <3> QED
      BY <3>2
  <2>2. q.header_state = "h_content_length" => NameAt(log', Len(log'))
    BY <1>2, <1>4, NamePassed
  <2> QED
    BY <1>2, <1>3, <2>1, <2>2, HeldBy
<1> QED
  BY <1>2, <1>3, <1>4, HeldNext

LEMMA FieldNext ==
  ASSUME IInv, LimitInv', LengthsInv, HeaderField PROVE LengthNext
<1>1. exec.pc \in {"switch", "loop"} /\ parser.state = "s_header_field"
  BY DEF HeaderField, InLoop
<1>2. /\ stream \in Streams /\ log \in History /\ IsStruct(parser) /\ IsLocals(exec)
      /\ Knows(parser) /\ Settled(parser, LastOf(log)) /\ exec.p \in Nat /\ exec.end \in Nat
      /\ LoopStart \in 1..exec.p
  BY <1>1, InHeader, InRound
<1> DEFINE n == exec.p - LoopStart
           x == Counted([exec EXCEPT !.start = 0], n)
           stops == {i \in exec.p + 1 .. LookAhead - 1 : ~TOKEN(stream[i])}
           jump == IF stops = {} THEN LookAhead ELSE Min(stops)
           far == IF jump > exec.p THEN jump ELSE exec.p + 1
           r == FieldCharacter(parser, Lowered(ch))
           q == To("s_header_value_discard_ws")
           next(to) == [exec EXCEPT !.pc = "loop", !.start = LoopStart, !.p = to]
<1>3. \/ exec.p > exec.end /\ LoopRunsOut
      \/ /\ exec.p <= exec.end
         /\ \/ parser.header_state = "h_general" /\ Loop(parser, far)
            \/ Loop(r, exec.p + 1)
            \/ Fail(parser, x, "HEADER_OVERFLOW")
            \/ Fail(parser, x, "INVALID_HEADER_TOKEN")
            \/ CALLBACK_DATA(q, x, "header_field", x.p - 1, x.p + 1, Advance)
  BY <1>2 DEF HeaderField
<1>4. CASE exec.p > exec.end /\ LoopRunsOut
  BY <1>1, <1>4, LoopRunsOutNext
<1>5. CASE parser.header_state = "h_general" /\ Loop(parser, far)
  <2> HIDE DEF far
  <2>1. PICK y : y = next(far)
    OBVIOUS
  <2>2. NameRead(parser, y, log)
    BY <1>5 DEF NameRead, LengthNameStates
  <2> QED
    BY <1>1, <1>5, <2>1, <2>2, FieldRoundNext
<1>6. exec.p <= exec.end => exec.marks["header_field"] # 0 /\ exec.marks["header_field"] \in Nat
  <2>1. "header_field" \in DataKinds
    BY DEF DataKinds
  <2>2. exec.marks["header_field"] \in Nat
    BY <1>2, <2>1, InCall DEF IsLocals
  <2>3. exec.marks["header_field"] # 0
    BY <1>1, InText, MarkNames DEF TextMarkStates
  <2> QED
    BY <2>2, <2>3
<1>7. CASE exec.p <= exec.end /\ Loop(r, exec.p + 1)
  <2>1. Words(parser)
    BY <1>2 DEF Settled
  <2>2. r.state = parser.state /\ r.flags = parser.flags /\ r.content_length = parser.content_length
    BY <1>1, <1>2, <2>1, FieldCharacterStep
  <2>3. PICK s : s = r
    OBVIOUS
  <2> HIDE DEF r
  <2>4. PICK y : y = next(exec.p + 1)
    OBVIOUS
  <2>5. y.p = exec.p + 1 /\ y.marks = exec.marks
    BY <1>2, <2>4 DEF IsLocals
  <2>6. ASSUME "F_TRAILING" \notin s.flags PROVE NameRead(s, y, log)
    <3>1. "F_TRAILING" \notin parser.flags /\ s = FieldCharacter(parser, Lowered(ch))
      BY <2>2, <2>3, <2>6 DEF r
    <3> QED
      BY <1>1, <1>6, <1>7, <2>5, <3>1, NameGoesOn
  <2> QED
    BY <1>1, <1>7, <2>2, <2>3, <2>4, <2>6, FieldRoundNext
<1>8. x.p = exec.p /\ x.marks = exec.marks
  <2>1. x = Counted([exec EXCEPT !.start = 0], n) /\ n \in Nat
    BY <1>2
  <2> HIDE DEF n, x
  <2> QED
    BY <1>2, <2>1, LoopLocals
<1> HIDE DEF x
<1>9. CASE Fail(parser, x, "HEADER_OVERFLOW") \/ Fail(parser, x, "INVALID_HEADER_TOKEN")
  BY <1>1, <1>2, <1>9, FailedNext
<1>10. CASE /\ exec.p <= exec.end
            /\ CALLBACK_DATA(q, x, "header_field", x.p - 1, x.p + 1, Advance)
  <2>1. /\ log' = Record("header_field", exec.marks["header_field"], exec.p - 1)
        /\ Stopped(q, x, "header_field", x.p + 1) \/ Advance(q, Unmark(x, "header_field"))
    BY <1>6, <1>8, <1>10, DataPassed
  <2>2. Knows(q) /\ q.state # "s_chunk_data" /\ "header_field" \in CallbackNames
    BY StructKnown DEF CallbackNames, CallbackErrors
  <2>3. CASE Stopped(q, x, "header_field", x.p + 1)
    <3> HIDE DEF q
    <3> QED
      BY <2>2, <2>3, StoppedNext
  <2>4. CASE Advance(q, Unmark(x, "header_field"))
    <3>1. parser' = q
      BY <2>4 DEF Advance
    <3> QED
      BY <1>1, <1>6, <1>10, <2>1, <3>1, ColonNext
  <2> QED
    BY <2>1, <2>3, <2>4
<1> QED
  BY <1>3, <1>4, <1>5, <1>7, <1>9, <1>10

-----------------------------------------------------------------------------
(* Header values. *)

\* The struct q with which a value begins to be read: a length, or no length.
ValueBegun(q) ==
  /\ Knows(q) /\ q.state = "s_header_value"
  /\ "F_TRAILING" \in q.flags <=> "F_TRAILING" \in parser.flags
LengthBegun(q) ==
  /\ IS_NUM(ch) /\ parser.header_state = "h_content_length"
  /\ q.header_state = "h_content_length_num" /\ q.content_length = DigitValue(ch)
OtherBegun(q) ==
  /\ q.header_state \notin {"h_content_length", "h_content_length_num"}
  /\ q.content_length = parser.content_length
  /\ "F_CONTENTLENGTH" \in q.flags <=> "F_CONTENTLENGTH" \in parser.flags

LEMMA ValuedFields ==
  ASSUME IsStruct(parser), NEW s
  PROVE  /\ Knows(Valued) /\ Valued.state = "s_header_value"
         /\ \A q \in {ValuedAs(s), ValuedUpgrade(s), ValuedLength(s)} :
              ValueBegun(q) /\ q.header_state = s
         /\ \A q \in {ValuedAs(s), ValuedUpgrade(s)} :
              /\ q.content_length = parser.content_length
              /\ "F_CONTENTLENGTH" \in q.flags <=> "F_CONTENTLENGTH" \in parser.flags
         /\ ValuedLength(s).content_length = DigitValue(ch)
<1>1. /\ Knows(Valued) /\ Valued.state = "s_header_value" /\ Valued.flags = parser.flags
      /\ Valued.content_length = parser.content_length
  BY DEF IsStruct, Knows, Valued
<1>2. /\ Knows(ValuedAs(s)) /\ ValuedAs(s).state = "s_header_value"
      /\ ValuedAs(s).flags = parser.flags /\ ValuedAs(s).header_state = s
      /\ ValuedAs(s).content_length = parser.content_length
  BY <1>1 DEF Knows, ValuedAs
<1>3. /\ Knows(ValuedUpgrade(s)) /\ ValuedUpgrade(s).state = "s_header_value"
      /\ ValuedUpgrade(s).flags = parser.flags \cup {"F_UPGRADE"}
      /\ ValuedUpgrade(s).header_state = s
      /\ ValuedUpgrade(s).content_length = parser.content_length
  BY <1>2 DEF Knows, ValuedUpgrade
<1>4. /\ Knows(ValuedLength(s)) /\ ValuedLength(s).state = "s_header_value"
      /\ ValuedLength(s).flags = parser.flags \cup {"F_CONTENTLENGTH"}
      /\ ValuedLength(s).header_state = s
      /\ ValuedLength(s).content_length = DigitValue(ch)
  BY <1>2 DEF Knows, ValuedLength
<1> QED
  BY <1>1, <1>2, <1>3, <1>4 DEF ValueBegun

LEMMA ValueKinds ==
  ASSUME IsStruct(parser), StartValue(parser), NEW x, x = MARK(exec, "header_value")
  PROVE  \/ Fail(Valued, x, "INVALID_CONTENT_LENGTH")
         \/ Fail(Valued, x, "UNEXPECTED_CONTENT_LENGTH")
         \/ \E q : Break(q, x) /\ ValueBegun(q) /\ (LengthBegun(q) \/ OtherBegun(q))
<1>1. PICK s : s = ValueStartState(parser)
  OBVIOUS
<1>2. s = "h_content_length_num" <=> parser.header_state = "h_content_length"
  <2>1. CASE parser.header_state = "h_transfer_encoding"
    BY <1>1, <2>1 DEF ValueStartState
  <2>2. CASE parser.header_state = "h_connection"
    <3>1. s = CASE LOWER(ch) = "k" -> "h_matching_connection_keep_alive"
                [] LOWER(ch) = "c" -> "h_matching_connection_close"
                [] LOWER(ch) = "u" -> "h_matching_connection_upgrade"
                [] OTHER -> "h_matching_connection_token"
      BY <1>1, <2>2 DEF ValueStartState
    <3> QED
      BY <2>2, <3>1
  <2>3. CASE parser.header_state \notin {"h_transfer_encoding", "h_connection"}
    BY <1>1, <2>3 DEF ValueStartState
  <2> QED
    BY <2>1, <2>2, <2>3
<1>3. s # "h_content_length"
  BY <1>1, ValueStartNames DEF ValueStarts
<1>4. \/ Fail(Valued, x, "INVALID_CONTENT_LENGTH")
      \/ Fail(Valued, x, "UNEXPECTED_CONTENT_LENGTH")
      \/ parser.header_state # "h_content_length" /\ Break(ValuedAs(s), x)
      \/ parser.header_state # "h_content_length" /\ Break(ValuedUpgrade(s), x)
      \/ parser.header_state = "h_content_length" /\ IS_NUM(ch) /\ Break(ValuedLength(s), x)
  BY <1>1, SMTT(60) DEF StartValue, Valued, ValuedAs, ValuedUpgrade, ValuedLength
<1>5. ASSUME parser.header_state # "h_content_length", NEW q \in {ValuedAs(s), ValuedUpgrade(s)}
      PROVE  ValueBegun(q) /\ OtherBegun(q)
  BY <1>2, <1>3, <1>5, ValuedFields DEF OtherBegun
<1>6. ASSUME parser.header_state = "h_content_length", IS_NUM(ch)
      PROVE  ValueBegun(ValuedLength(s)) /\ LengthBegun(ValuedLength(s))
  BY <1>2, <1>6, ValuedFields DEF LengthBegun
<1> QED
  BY <1>4, <1>5, <1>6

LEMMA StartValueNext ==
  ASSUME IInv, LengthsInv, exec.pc = "switch",
         parser.state \in {"s_header_value_discard_ws", "s_header_value_start"},
         StartValue(parser)
  PROVE  LengthNext
<1>1. PICK x : x = MARK(exec, "header_value")
  OBVIOUS
<1>2. /\ log \in History /\ Len(log) \in Nat /\ IsStruct(parser)
      /\ exec.p \in Nat \ {0} /\ Settled(parser, LastOf(log))
      /\ "F_TRAILING" \notin parser.flags => Held(parser, exec, log)
  BY InHeader
<1>3. \/ Fail(Valued, x, "INVALID_CONTENT_LENGTH") \/ Fail(Valued, x, "UNEXPECTED_CONTENT_LENGTH")
      \/ \E q : Break(q, x) /\ ValueBegun(q) /\ (LengthBegun(q) \/ OtherBegun(q))
  BY <1>1, <1>2, ValueKinds
<1>4. CASE Fail(Valued, x, "INVALID_CONTENT_LENGTH") \/ Fail(Valued, x, "UNEXPECTED_CONTENT_LENGTH")
  <2>1. Knows(Valued) /\ Valued.state # "s_chunk_data"
    BY <1>2, ValuedFields
  <2> HIDE DEF Valued
  <2> QED
    BY <1>4, <2>1, FailedNext
<1>5. x.p = exec.p /\ x.marks["header_value"] = exec.p /\ {"pc", "p", "marks"} \subseteq DOMAIN x
  <2>1. parser.state \in DiscardStates \/ parser.state \in ValueEndStates
    BY DEF DiscardStates, ValueEndStates
  <2>2. parser.state \notin MarkStates
    BY <2>1, InDiscard, InValueEnd
  <2> QED
    BY <1>1, <2>2, MarkHere DEF DataKinds
<1>6. ASSUME NEW q, Break(q, x), ValueBegun(q), LengthBegun(q) \/ OtherBegun(q)
      PROVE  LengthNext
  <2>1. PICK y : y = [x EXCEPT !.pc = "fetch", !.p = @ + 1]
    OBVIOUS
  <2>2. parser' = q /\ exec' = y /\ log' = log
    BY <1>6, <2>1 DEF Break, Advance
  <2>3. y.p = exec.p + 1 /\ Cur(y, "header_value") = exec.p
    BY <1>2, <1>5, <2>1 DEF Cur
  <2>4. Knows(q) /\ q.state = "s_header_value"
    BY <1>6 DEF ValueBegun
  <2>5. ASSUME "F_TRAILING" \notin q.flags PROVE Held(q, y, log)
    <3>1. "F_TRAILING" \notin parser.flags /\ Held(parser, exec, log)
      BY <1>2, <1>6, <2>5 DEF ValueBegun
    <3>2. CASE OtherBegun(q)
      <4>1. ASSUME "F_CONTENTLENGTH" \in q.flags PROVE Stated(q, y, log)
        <5>1. parser.state \in LengthStates \ {"s_header_value"}
          BY DEF LengthStates, DiscardStates, ValueEndStates
        <5>2. Stated(parser, exec, log)
          BY <3>1, <3>2, <4>1, <5>1, StatedOn DEF OtherBegun
        <5>3. PICK i \in 1..Len(log) :
                /\ States_(log, i, parser.content_length)
                /\ i + 1 = Len(log) /\ parser.state = "s_header_value_start" =>
                     log[i + 1].to + 1 < exec.p
          BY <5>2 DEF Stated
        <5>4. i + 1 = Len(log) => log[i + 1].to + 1 < exec.p
          <6>1. CASE parser.state = "s_header_value_start"
            BY <5>3, <6>1
          <6>2. CASE parser.state = "s_header_value_discard_ws"
            <7>1. LastOf(log) = "header_field"
              BY <1>2, <6>2 DEF Settled, Order, DiscardStates
            <7>2. i + 1 # Len(log)
              BY <5>3, <7>1, <1>2, LastEntry DEF States_
            <7> QED
              BY <7>2
          <6> QED
            BY <6>1, <6>2
        <5>5. q.content_length = parser.content_length
          BY <3>2 DEF OtherBegun
        <5> QED
          BY <2>3, <2>4, <5>3, <5>4, <5>5 DEF Stated
      <4>2. q.header_state \notin {"h_content_length", "h_content_length_num"}
        BY <3>2 DEF OtherBegun
      <4>3. q.state \notin DiscardStates /\ q.state # "s_header_field"
        BY <2>4 DEF DiscardStates
      <4> QED
        BY <2>4, <4>1, <4>2, <4>3 DEF Held, NameRead, NameFound, ValueRead
    <3>3. CASE LengthBegun(q)
      <4>1. parser.header_state = "h_content_length" /\ IS_NUM(stream[exec.p])
            /\ q.header_state = "h_content_length_num" /\ q.content_length = DigitValue(stream[exec.p])
        BY <3>3 DEF LengthBegun, ch
      <4>2. parser.state = "s_header_value_discard_ws"
        BY <3>1, <4>1 DEF Held, NameFound, ValueEndStates
      <4>3. NameAt(log, Len(log)) /\ LastOf(log) = "header_field"
        BY <1>2, <3>1, <4>1, <4>2 DEF Held, NameFound, DiscardStates, Settled, Order
      <4>4. ~Joins(log, "header_value", exec.p)
        BY <4>3 DEF Joins
      <4>5. Before(log, "header_value", exec.p) = Len(log) /\ Began(log, "header_value", exec.p) = exec.p
        BY <4>4 DEF Before, Began
      <4>6. y.p - 1 = exec.p
        BY <1>2, <2>3
      <4>7. Numeral(exec.p, exec.p, exec.p, q.content_length)
        <5>1. q.content_length \in 0..9 /\ q.content_length < MaxLength
          BY <4>1, DigitRange, ParserAssumption
        <5>2. \A k \in exec.p..exec.p : k = exec.p
          BY <1>2
        <5>3. Decimal(TextIn(exec.p, exec.p)) = DigitValue(stream[exec.p])
          <6>1. PICK b \in Nat : b = exec.p
            BY <1>2
          <6>2. b <= b /\ \A k \in b..b : IS_NUM(stream[k])
            BY <4>1, <5>2, <6>1
          <6>3. Decimal(TextIn(b, b)) = DigitValue(stream[b])
            BY <6>2, DecimalText
          <6> QED
            BY <6>1, <6>3
        <5>4. exec.p + 1..exec.p = {}
          BY <1>2
        <5>5. exec.p \in exec.p..exec.p
          BY <1>2
        <5> QED
          BY <1>2, <4>1, <5>1, <5>2, <5>3, <5>4, <5>5 DEF Numeral, Blank
      <4>8. Reading(q, y, log)
        BY <2>3, <4>1, <4>3, <4>5, <4>6, <4>7 DEF Reading
      <4>9. q.state \notin DiscardStates /\ q.state # "s_header_field"
        BY <2>4 DEF DiscardStates
      <4> QED
        BY <2>4, <4>1, <4>8, <4>9 DEF Held, NameRead, NameFound, ValueRead
    <3> QED
      BY <1>6, <3>2, <3>3
  <2>6. q.state \in LengthStates \ {"s_headers_done"}
    BY <2>4 DEF LengthStates
  <2> QED
    BY <2>2, <2>5, <2>6, HeldNext
<1> QED
  BY <1>3, <1>4, <1>6

LEMMA DiscardWsNext ==
  ASSUME IInv, LengthsInv, HeaderValueDiscardWs PROVE LengthNext
<1>1. exec.pc = "switch" /\ parser.state = "s_header_value_discard_ws"
  BY DEF HeaderValueDiscardWs, At_
<1>2. /\ log \in History /\ IsStruct(parser) /\ Knows(parser)
      /\ "F_TRAILING" \notin parser.flags => Held(parser, exec, log)
  BY <1>1, InHeader
<1> DEFINE a == To("s_header_value_discard_ws_almost_done")
           b == To("s_header_value_discard_lws")
<1>3. Break(parser, exec) \/ Break(a, exec) \/ Break(b, exec) \/ StartValue(parser)
  BY DEF HeaderValueDiscardWs
<1>4. CASE StartValue(parser)
  BY <1>1, <1>4, StartValueNext
<1>5. ASSUME NEW q \in {parser, a, b}, Break(q, exec) PROVE LengthNext
  <2>1. /\ q.state \in DiscardStates /\ q.flags = parser.flags
        /\ q.header_state = parser.header_state /\ q.content_length = parser.content_length
    BY <1>1, <1>2 DEF To, Knows, DiscardStates
  <2> HIDE DEF a, b
  <2>2. PICK y : parser' = q /\ exec' = y /\ log' = log
    BY <1>5 DEF Break, Advance
  <2>3. q.state \in LengthStates \ {"s_header_field", "s_header_value", "s_headers_done"}
        /\ q.state \notin ValueEndStates /\ parser.state \in LengthStates \ {"s_header_value"}
        /\ parser.state \in DiscardStates
    BY <1>1, <2>1 DEF LengthStates, DiscardStates, ValueEndStates
  <2>4. ASSUME "F_TRAILING" \notin q.flags PROVE Held(q, y, log)
    <3>1. Held(parser, exec, log)
      BY <1>2, <2>1, <2>4
    <3>2. "F_CONTENTLENGTH" \in q.flags => Stated(q, y, log)
      <4>1. SUFFICES ASSUME "F_CONTENTLENGTH" \in q.flags PROVE Stated(q, y, log)
        OBVIOUS
      <4>2. Stated(parser, exec, log)
        BY <1>1, <2>1, <2>3, <2>4, <4>1, StatedOn
      <4>3. q.state \notin {"s_header_almost_done", "s_header_value_lws", "s_header_value_start",
                            "s_header_value"}
        BY <2>3 DEF ValueEndStates
      <4> QED
        BY <2>1, <4>2, <4>3, StatedFree
    <3>3. q.header_state = "h_content_length" => NameAt(log, Len(log))
      BY <2>1, <2>3, <3>1 DEF Held, NameFound
    <3> QED
      BY <2>3, <3>2, <3>3, HeldBy
  <2> QED
    BY <2>2, <2>3, <2>4, HeldNext
<1> QED
  BY <1>3, <1>4, <1>5

\* The header_states of a length.
LengthValues == {"h_content_length", "h_content_length_num", "h_content_length_ws"}

\* The struct r reads on, and no length.
ReadsOn(q, r) ==
  /\ r.state = q.state /\ r.header_state \notin LengthValues
  /\ r.content_length = q.content_length
  /\ "F_CONTENTLENGTH" \in r.flags <=> "F_CONTENTLENGTH" \in q.flags

LEMMA OtherValueNames ==
  /\ DOMAIN ValueWords \cap LengthValues = {}
  /\ \A h \in DOMAIN ValueWords : ValueWords[h].found \notin LengthValues
  /\ {"h_matching_connection_token_start", "h_matching_transfer_encoding_token_start",
      "h_matching_transfer_encoding_token", "h_matching_connection_token", "h_general"}
       \cap LengthValues = {}
BY ValueWordNames DEF LengthValues

LEMMA HeaderStateReads ==
  ASSUME NEW q, IsStruct(q), NEW s, s \notin LengthValues, NEW r,
         r = WithHeaderState(q, s) \/ r = NextElement(q, s)
  PROVE  ReadsOn(q, r)
<1>1. CASE r = WithHeaderState(q, s)
  <2>1. /\ r.state = q.state /\ r.header_state = s /\ r.content_length = q.content_length
        /\ r.flags = q.flags
    BY <1>1 DEF IsStruct, WithHeaderState
  <2> QED
    BY <2>1 DEF ReadsOn
<1>2. CASE r = NextElement(q, s)
  <2>1. /\ r.state = q.state /\ r.header_state = s /\ r.content_length = q.content_length
        /\ r.flags = q.flags
    BY <1>2 DEF IsStruct, NextElement
  <2> QED
    BY <2>1 DEF ReadsOn
<1> QED
  BY <1>1, <1>2

LEMMA ElementReads ==
  ASSUME NEW q, IsStruct(q), NEW c, NEW words, NEW token, token \notin LengthValues,
         \A k \in DOMAIN words : words[k] \notin LengthValues,
         q.header_state \notin LengthValues, NEW r, r = ElementStart(q, c, words, token)
  PROVE  ReadsOn(q, r)
<1>1. \E s : s \notin LengthValues /\ r = WithHeaderState(q, s)
  <2>1. CASE c \in DOMAIN words
    <3>1. r = WithHeaderState(q, words[c])
      BY <2>1 DEF ElementStart, WithHeaderState
    <3> QED
      BY <2>1, <3>1
  <2>2. CASE c \notin DOMAIN words
    <3>1. \E s \in {token, "h_general", q.header_state} : r = WithHeaderState(q, s)
      BY <2>2 DEF ElementStart, WithHeaderState
    <3> QED
      BY <3>1, OtherValueNames
  <2> QED
    BY <2>1, <2>2
<1> QED
  BY <1>1, HeaderStateReads

\* The next character of a value that is no length.
LEMMA OtherCharacter ==
  ASSUME NEW q, ValueStruct(q), q.header_state \notin LengthValues,
         NEW r, r = ValueCharacter(q)
  PROVE  ReadsOn(q, r)
<1> DEFINE state == q.header_state
           c == LOWER(ch)
<1>1. IsStruct(q) /\ q.state = "s_header_value"
  BY DEF ValueStruct
<1>2. CASE r = q
  BY <1>2 DEF ReadsOn
<1>3. CASE state \in DOMAIN ValueWords
  <2>1. PICK otherwise \in {"h_matching_transfer_encoding_token", "h_matching_connection_token"} :
          r = Compared(q, ValueWords[state], c, otherwise)
    BY <1>3, ValueCharacterWord
  <2>2. PICK w : w = ValueWords[state]
    OBVIOUS
  <2>3. r.state = q.state /\ r.flags = q.flags /\ r.content_length = q.content_length
        /\ r.header_state \in {otherwise, w.found, q.header_state}
    BY <1>1, <2>1, <2>2 DEF Compared, IsStruct
  <2> QED
    BY <1>3, <2>1, <2>2, <2>3, OtherValueNames DEF ReadsOn
<1>4. CASE state \in {"h_matching_connection_token_start",
                      "h_matching_transfer_encoding_token_start"}
  <2> DEFINE encodings == [c |-> "h_matching_transfer_encoding_chunked"]
             connections == [k |-> "h_matching_connection_keep_alive",
                             c |-> "h_matching_connection_close",
                             u |-> "h_matching_connection_upgrade"]
  <2>1. \/ r = ElementStart(q, c, encodings, "h_matching_transfer_encoding_token")
        \/ r = ElementStart(q, c, connections, "h_matching_connection_token")
    BY <1>4, ValueCharacterStart
  <2>2. /\ \A k \in DOMAIN encodings : encodings[k] \in DOMAIN ValueWords
        /\ \A k \in DOMAIN connections : connections[k] \in DOMAIN ValueWords
    BY ValueWordNames
  <2> HIDE DEF encodings, connections
  <2>3. /\ \A k \in DOMAIN encodings : encodings[k] \notin LengthValues
        /\ \A k \in DOMAIN connections : connections[k] \notin LengthValues
    BY <2>2, OtherValueNames
  <2> QED
    BY <1>1, <2>1, <2>3, ElementReads, OtherValueNames
<1>5. CASE state \in {"h_matching_transfer_encoding_token", "h_matching_connection_token"}
  <2>1. \/ r = q
        \/ \E s \in {"h_matching_connection_token_start",
                     "h_matching_transfer_encoding_token_start"} : r = NextElement(q, s)
    BY <1>5, ValueCharacterToken
  <2> QED
    BY <1>1, <1>2, <2>1, HeaderStateReads, OtherValueNames
<1>6. CASE state = "h_transfer_encoding_chunked"
  <2>1. r = q \/ r = WithHeaderState(q, "h_matching_transfer_encoding_token")
    BY <1>6, ValueStatesKnown DEF ValueCharacter, WithHeaderState
  <2> QED
    BY <1>1, <1>2, <2>1, HeaderStateReads, OtherValueNames
<1>7. CASE state \in DOMAIN CONNECTION_FLAGS
  <2> DEFINE f == CONNECTION_FLAGS[state]
             s == "h_matching_connection_token_start"
  <2>1. \/ r = [NextElement(q, s) EXCEPT !.flags = @ \cup {f}]
        \/ r = q \/ r = WithHeaderState(q, "h_matching_connection_token")
    BY <1>7, ValueStatesKnown, ValueWordNames DEF ValueCharacter, NextElement, WithHeaderState
  <2>2. CASE r = [NextElement(q, s) EXCEPT !.flags = @ \cup {f}]
    <3>1. f # "F_CONTENTLENGTH"
      BY <1>7, ValueStatesKnown
    <3> HIDE DEF f
    <3>2. r.state = q.state /\ r.flags = q.flags \cup {f} /\ r.content_length = q.content_length
          /\ r.header_state = s
      BY <1>1, <2>2 DEF IsStruct, NextElement
    <3> QED
      BY <3>1, <3>2, OtherValueNames DEF ReadsOn
  <2> QED
    BY <1>1, <1>2, <2>1, <2>2, HeaderStateReads, OtherValueNames
<1>8. CASE state \notin {"h_matching_connection_token_start",
                         "h_matching_transfer_encoding_token_start",
                         "h_matching_transfer_encoding_token", "h_matching_connection_token",
                         "h_transfer_encoding_chunked"}
                        \cup DOMAIN ValueWords \cup DOMAIN CONNECTION_FLAGS
  <2>1. r = WithHeaderState(q, "h_general")
    BY <1>8, ValueStatesKnown, ValueWordNames DEF ValueCharacter, LengthValues, WithHeaderState
  <2> QED
    BY <1>1, <2>1, HeaderStateReads, OtherValueNames
<1> QED
  BY <1>3, <1>4, <1>5, <1>6, <1>7, <1>8

\* A blank behind a length, or a digit more.
LEMMA LengthCharacter ==
  ASSUME NEW q, IsStruct(q), q.header_state \in {"h_content_length_num", "h_content_length_ws"},
         ~BadLength(q), NEW r, r = ValueCharacter(q)
  PROVE  /\ r.state = q.state /\ r.flags = q.flags
         /\ \/ /\ ch = " " /\ r.header_state = "h_content_length_ws"
               /\ r.content_length = q.content_length
            \/ /\ q.header_state = "h_content_length_num" /\ IS_NUM(ch)
               /\ r.header_state = "h_content_length_num"
               /\ r.content_length \in 0..MaxLength - 1
               /\ r.content_length = q.content_length * 10 + DigitValue(ch)
<1>1. CASE q.header_state = "h_content_length_ws"
  <2>1. r = q
    BY <1>1, ValueStatesKnown, ValueWordNames DEF ValueCharacter
  <2>2. ch = " "
    BY <1>1 DEF BadLength
  <2> QED
    BY <1>1, <2>1, <2>2
<1>2. CASE q.header_state = "h_content_length_num" /\ ch = " "
  <2>1. r = WithHeaderState(q, "h_content_length_ws")
    BY <1>2, ValueStatesKnown, ValueWordNames DEF ValueCharacter, WithHeaderState
  <2>2. r.state = q.state /\ r.flags = q.flags /\ r.header_state = "h_content_length_ws"
        /\ r.content_length = q.content_length
    BY <2>1 DEF IsStruct, WithHeaderState
  <2> QED
    BY <1>2, <2>2
<1>3. CASE q.header_state = "h_content_length_num" /\ ch # " "
  <2>0. ReadsLength(q)
    BY <1>3 DEF ReadsLength
  <2>1. r = WithDigit(q)
    BY <1>3, <2>0, ValueCharacterDigit
  <2>2. IS_NUM(ch) /\ ~((MaxLength - 10) \div 10 < q.content_length)
    BY <1>3 DEF BadLength, TooLong
  <2>3. PICK m : m = (q.content_length * 10 + DigitValue(ch)) % (MaxLength + 1)
    OBVIOUS
  <2>4. DigitValue(ch) \in 0..10 - 1 /\ q.content_length \in 0..MaxLength
    BY <2>2, DigitRange DEF IsStruct
  <2>5. m \in 0..MaxLength - 1 /\ m = q.content_length * 10 + DigitValue(ch)
    BY <2>2, <2>3, <2>4, LongerStep
  <2>6. r.state = q.state /\ r.flags = q.flags /\ r.content_length = m
        /\ r.header_state = "h_content_length_num"
    <3>1. r = [[q EXCEPT !.content_length = m] EXCEPT !.header_state = "h_content_length_num"]
      BY <2>1, <2>3 DEF Longer, WithDigit
    <3> QED
      BY <3>1 DEF IsStruct
  <2> QED
    BY <1>3, <2>2, <2>5, <2>6
<1> QED
  BY <1>1, <1>2, <1>3

LEMMA PlacesGrow ==
  ASSUME NEW first \in Nat, NEW to \in Nat, NEW d \in first..to
  PROVE  /\ d \in first..to + 1 /\ to + 1 \in first..to + 1
         /\ \A k \in d + 1..to + 1 : k \in d + 1..to \/ k = to + 1
         /\ \A k \in first..to + 1 : k \in first..to \/ k = to + 1
         /\ (to + 1) + 1..to + 1 = {} /\ to + 1 \in Nat
OBVIOUS

LEMMA NumeralBlank ==
  ASSUME NEW first, NEW d, NEW to \in Nat, NEW v, Numeral(first, d, to, v), stream[to + 1] = " "
  PROVE  Numeral(first, d, to + 1, v)
<1>0. /\ first \in Nat \ {0} /\ d \in first..to
      /\ \A k \in first..d : IS_NUM(stream[k])
      /\ \A k \in d + 1..to : stream[k] = " "
      /\ v = Decimal(TextIn(first, d)) /\ v < MaxLength
  BY Zenon DEF Numeral, Blank
<1>1. d \in first..to + 1 /\ \A k \in d + 1..to + 1 : k \in d + 1..to \/ k = to + 1
  BY <1>0, PlacesGrow
<1>2. ASSUME NEW k \in d + 1..to + 1 PROVE stream[k] = " "
  BY <1>0, <1>1
<1> QED
  BY <1>0, <1>1, <1>2, Zenon DEF Numeral, Blank

LEMMA NothingBeyond == \A p \in Nat : p + 1..p = {}
OBVIOUS

LEMMA NumeralDigit ==
  ASSUME NEW first, NEW to \in Nat, NEW v, Numeral(first, to, to, v),
         NEW p \in Nat, p = to + 1, IS_NUM(stream[p]),
         NEW w \in 0..MaxLength - 1, w = v * 10 + DigitValue(stream[p])
  PROVE  Numeral(first, p, p, w)
<1>0. /\ first \in Nat \ {0} /\ to \in first..to /\ v = Decimal(TextIn(first, to))
      /\ \A k \in first..to : IS_NUM(stream[k])
  BY Zenon DEF Numeral, Blank
<1>1. /\ first \in Nat \ {0} /\ first <= to /\ v = Decimal(TextIn(first, to))
      /\ \A k \in first..to : IS_NUM(stream[k])
  BY <1>0
<1>2. ASSUME NEW k \in first..p PROVE IS_NUM(stream[k])
  <2>1. k \in first..to \/ k = p
    BY <1>1
  <2> QED
    BY <1>1, <2>1
<1>3. first <= p /\ first < p
  BY <1>1
<1>4. p - 1 = to
  OBVIOUS
<1>5. /\ Decimal(TextIn(first, p - 1)) \in Nat
      /\ Decimal(TextIn(first, p)) = 10 * Decimal(TextIn(first, p - 1)) + DigitValue(stream[p])
  BY <1>1, <1>2, <1>3, DecimalText
<1>6. v \in Nat /\ Decimal(TextIn(first, p)) = 10 * v + DigitValue(stream[p])
  BY <1>1, <1>4, <1>5
<1>7. DigitValue(stream[p]) \in 0..9
  BY DigitRange
<1>8. w = Decimal(TextIn(first, p)) /\ w < MaxLength
  BY <1>6, <1>7, ParserAssumption
<1>9. (\A k \in p + 1..p : stream[k] = " ") /\ p \in first..p
  <2>1. p + 1..p = {}
    BY NothingBeyond
  <2>2. p \in first..p
    BY <1>1, <1>3
  <2> QED
    BY <2>1, <2>2, Zenon
<1> QED
  BY <1>1, <1>2, <1>8, <1>9, Zenon DEF Numeral, Blank

\* A value that is read is marked.
LEMMA ValueMarked ==
  ASSUME IInv, exec.pc \in {"switch", "loop"}, parser.state = "s_header_value"
  PROVE  /\ exec.marks["header_value"] \in Nat \ {0}
         /\ Cur(exec, "header_value") = exec.marks["header_value"]
<1>1. "header_value" \in DataKinds /\ IsLocals(exec) /\ Len(stream) \in Nat
  BY InCall DEF DataKinds
<1>2. exec.marks["header_value"] \in Nat
  BY <1>1 DEF IsLocals
<1>3. exec.marks["header_value"] # 0
  BY InText, MarkNames DEF TextMarkStates
<1> QED
  BY <1>2, <1>3 DEF Cur

\* What a value needs to go on.
LEMMA ValueRoundNext ==
  ASSUME IInv, LengthsInv, exec.pc \in {"switch", "loop"}, parser.state = "s_header_value",
         NEW q, q.state = "s_header_value",
         "F_TRAILING" \in q.flags <=> "F_TRAILING" \in parser.flags,
         q.header_state # "h_content_length",
         NEW next, Loop(q, next),
         NEW y, y = [exec EXCEPT !.pc = "loop", !.start = LoopStart, !.p = next],
         "F_TRAILING" \notin q.flags => ValueRead(q, y, log)
  PROVE  LengthNext
<1>1. parser' = q /\ exec' = y /\ log' = log
  BY DEF Loop
<1>2. q.state \in LengthStates \ {"s_headers_done"} /\ q.state \notin DiscardStates
  BY DEF LengthStates, DiscardStates
<1>3. ASSUME "F_TRAILING" \notin q.flags PROVE Held(q, y, log)
  BY <1>2, <1>3 DEF Held, NameRead, NameFound
<1> QED
  BY <1>1, <1>2, <1>3, HeldNext

LEMMA OtherRound ==
  ASSUME IInv, LengthsInv, exec.pc \in {"switch", "loop"}, parser.state = "s_header_value",
         parser.header_state \notin LengthValues, NEW q, ReadsOn(parser, q),
         "F_TRAILING" \in q.flags <=> "F_TRAILING" \in parser.flags,
         NEW next, Loop(q, next)
  PROVE  LengthNext
<1>1. PICK y : y = [exec EXCEPT !.pc = "loop", !.start = LoopStart, !.p = next]
  OBVIOUS
<1>2. /\ q.state = "s_header_value" /\ q.header_state \notin LengthValues
      /\ q.content_length = parser.content_length
      /\ "F_CONTENTLENGTH" \in q.flags <=> "F_CONTENTLENGTH" \in parser.flags
  BY DEF ReadsOn
<1>3. Cur(y, "header_value") = Cur(exec, "header_value")
  <2>1. y.marks = exec.marks
    BY <1>1, InHeader DEF IsLocals
  <2> QED
    BY <2>1, ValueMarked DEF Cur
<1>4. ASSUME "F_TRAILING" \notin q.flags PROVE ValueRead(q, y, log)
  <2>1. q.header_state # "h_content_length_num"
    BY <1>2 DEF LengthValues
  <2>2. ASSUME "F_CONTENTLENGTH" \in q.flags PROVE Stated(q, y, log)
    <3>1. parser.state \in LengthStates /\ Held(parser, exec, log)
      BY <1>4, InHeader DEF LengthStates
    <3>2. ~Reading(parser, exec, log)
      BY DEF Reading, LengthValues
    <3>3. Stated(parser, exec, log)
      BY <1>2, <2>2, <3>1, <3>2 DEF Held, ValueRead
    <3> QED
      BY <1>2, <1>3, <3>3 DEF Stated
  <2> QED
    BY <2>1, <2>2 DEF ValueRead
<1>5. q.header_state # "h_content_length"
  BY <1>2 DEF LengthValues
<1> QED
  BY <1>1, <1>2, <1>4, <1>5, ValueRoundNext

LEMMA LengthRound ==
  ASSUME IInv, LengthsInv, exec.pc \in {"switch", "loop"}, parser.state = "s_header_value",
         parser.header_state \in {"h_content_length_num", "h_content_length_ws"},
         ~BadLength(parser), NEW q, q = ValueCharacter(parser), Loop(q, exec.p + 1)
  PROVE  LengthNext
<1>1. PICK y : y = [exec EXCEPT !.pc = "loop", !.start = LoopStart, !.p = exec.p + 1]
  OBVIOUS
<1>2. exec.p \in Nat \ {0} /\ IsLocals(exec) /\ IsStruct(parser)
  BY InHeader
<1>3. /\ q.state = "s_header_value" /\ q.flags = parser.flags
      /\ \/ /\ ch = " " /\ q.header_state = "h_content_length_ws"
            /\ q.content_length = parser.content_length
         \/ /\ parser.header_state = "h_content_length_num" /\ IS_NUM(ch)
            /\ q.header_state = "h_content_length_num"
            /\ q.content_length \in 0..MaxLength - 1
            /\ q.content_length = parser.content_length * 10 + DigitValue(ch)
  BY <1>2, LengthCharacter, Zenon
<1>4. y.p = exec.p + 1 /\ Cur(y, "header_value") = Cur(exec, "header_value")
  <2>1. y.p = exec.p + 1 /\ y.marks = exec.marks
    BY <1>1, <1>2 DEF IsLocals
  <2> QED
    BY <2>1, ValueMarked DEF Cur
<1>5. PICK first : first = Began(log, "header_value", Cur(exec, "header_value"))
  OBVIOUS
<1>6. PICK b : b = Before(log, "header_value", Cur(exec, "header_value"))
  OBVIOUS
<1>7. PICK to \in Nat : to = exec.p - 1 /\ exec.p = to + 1 /\ y.p - 1 = to + 1
  <2>1. exec.p - 1 \in Nat /\ exec.p = (exec.p - 1) + 1 /\ y.p - 1 = (exec.p - 1) + 1
    BY <1>2, <1>4
  <2> QED
    BY <2>1
<1>8. ASSUME "F_TRAILING" \notin q.flags PROVE ValueRead(q, y, log)
  <2>1. parser.state \in LengthStates /\ Held(parser, exec, log)
    BY <1>3, <1>8, InHeader DEF LengthStates
  <2>2. /\ parser.header_state = "h_content_length_num" => Reading(parser, exec, log)
        /\ "F_CONTENTLENGTH" \in q.flags => Reading(parser, exec, log) \/ Stated(parser, exec, log)
    BY <1>3, <2>1 DEF Held, ValueRead
  <2>3. ASSUME ch = " ", q.header_state = "h_content_length_ws",
               q.content_length = parser.content_length, Reading(parser, exec, log)
        PROVE  Reading(q, y, log)
    <3>1. PICK d \in first..to : Numeral(first, d, to, parser.content_length) /\ NameAt(log, b)
      <4>1. CASE /\ parser.header_state = "h_content_length_num"
                 /\ Numeral(first, to, to, parser.content_length)
        <5>1. to \in first..to
          BY <4>1 DEF Numeral, Blank
        <5> QED
          BY <1>6, <2>3, <4>1, <5>1 DEF Reading
      <4>2. CASE \E d \in first..to : Numeral(first, d, to, parser.content_length)
        BY <1>6, <2>3, <4>2 DEF Reading
      <4> QED
        BY <1>5, <1>7, <2>3, <4>1, <4>2 DEF Reading
    <3>2. Numeral(first, d, to + 1, parser.content_length)
      BY <1>7, <2>3, <3>1, NumeralBlank DEF ch
    <3>3. d \in first..to + 1
      BY <3>2, Zenon DEF Numeral, Blank
    <3> QED
      BY <1>4, <1>5, <1>6, <1>7, <2>3, <3>1, <3>2, <3>3 DEF Reading
  <2>4. ASSUME parser.header_state = "h_content_length_num", IS_NUM(ch),
               q.header_state = "h_content_length_num",
               q.content_length \in 0..MaxLength - 1,
               q.content_length = parser.content_length * 10 + DigitValue(ch)
        PROVE  Reading(q, y, log)
    <3>1. Numeral(first, to, to, parser.content_length) /\ NameAt(log, b)
      BY <1>5, <1>6, <1>7, <2>2, <2>4 DEF Reading
    <3>2. PICK v, w : v = parser.content_length /\ w = q.content_length
      OBVIOUS
    <3>3. /\ exec.p \in Nat /\ exec.p = to + 1 /\ IS_NUM(stream[exec.p]) /\ w \in 0..MaxLength - 1
          /\ w = v * 10 + DigitValue(stream[exec.p]) /\ Numeral(first, to, to, v)
      BY <1>2, <1>7, <2>4, <3>1, <3>2 DEF ch
    <3>4. Numeral(first, exec.p, exec.p, w)
      BY <3>3, NumeralDigit
    <3>5. y.p - 1 = exec.p
      BY <1>7
    <3> QED
      BY <1>4, <1>5, <1>6, <2>4, <3>1, <3>2, <3>4, <3>5 DEF Reading
  <2>5. ASSUME ch = " ", q.header_state = "h_content_length_ws",
               q.content_length = parser.content_length
        PROVE  ValueRead(q, y, log)
    <3>1. Stated(parser, exec, log) => Stated(q, y, log)
      BY <1>3, <1>4, <2>5 DEF Stated
    <3> QED
      BY <1>3, <2>2, <2>3, <2>5, <3>1 DEF ValueRead
  <2>6. Reading(q, y, log) => ValueRead(q, y, log)
    BY <1>3 DEF ValueRead
  <2> QED
    BY <1>3, <2>4, <2>5, <2>6
<1>9. q.header_state # "h_content_length"
  BY <1>3
<1> QED
  BY <1>1, <1>3, <1>8, <1>9, ValueRoundNext

\* The end of a value's line states the length.
LEMMA LineStates ==
  ASSUME IInv, LengthsInv, exec.pc \in {"switch", "loop"}, parser.state = "s_header_value",
         "F_TRAILING" \notin parser.flags, "F_CONTENTLENGTH" \in parser.flags,
         log' = Record("header_value", exec.marks["header_value"], exec.p - 1),
         NEW q, q.content_length = parser.content_length, q.state = "s_header_almost_done",
         NEW y, y.p \in Nat, exec.p <= y.p
  PROVE  Stated(q, y, log')
<1> DEFINE at == exec.marks["header_value"]
           first == Began(log, "header_value", at)
           b == Before(log, "header_value", at)
<1>1. /\ log \in History /\ exec.p \in Nat \ {0} /\ Held(parser, exec, log)
      /\ parser.state \in LengthStates /\ Cur(exec, "header_value") = at
      /\ "header_value" \in CallbackNames
  BY InHeader, ValueMarked DEF LengthStates, CallbackNames, CallbackErrors
<1>2. CASE Stated(parser, exec, log)
  BY <1>1, <1>2, StatedAfter
<1>3. CASE Reading(parser, exec, log)
  <2>1. PICK to \in Nat : to = exec.p - 1 /\ exec.p = to + 1
    <3>1. exec.p - 1 \in Nat /\ exec.p = (exec.p - 1) + 1
      BY <1>1
    <3> QED
      BY <3>1
  <2>2. PICK v : v = parser.content_length
    OBVIOUS
  <2>3. NameAt(log, b)
    BY <1>1, <1>3 DEF Reading
  <2>4. PICK d \in first..to : Numeral(first, d, to, v)
    <3>1. CASE Numeral(first, to, to, v)
      <4>1. to \in first..to
        BY <3>1 DEF Numeral, Blank
      <4> QED
        BY <3>1, <4>1
    <3>2. CASE \E d \in first..to : Numeral(first, d, to, v)
      BY <3>2
    <3> QED
      BY <1>1, <1>3, <2>1, <2>2, <3>1, <3>2 DEF Reading
  <2>5. log' = Record("header_value", at, to)
    BY <2>1
  <2>6. States_(log', b, v) /\ b + 1 = Len(log') /\ b \in 1..Len(log') /\ log'[b + 1].to = to
    <3>1. PICK c, f, e, l : c = b /\ f = first /\ e = at /\ l = log'
      OBVIOUS
    <3> HIDE DEF b, first, at
    <3>2. /\ l = Record("header_value", e, to) /\ c = Before(log, "header_value", e)
          /\ NameAt(log, c) /\ f = Began(log, "header_value", e)
          /\ d \in f..to /\ Numeral(f, d, to, v)
      BY <2>3, <2>4, <2>5, <3>1 DEF b, first, at
    <3>3. States_(l, c, v) /\ c + 1 = Len(l) /\ c \in 1..Len(l) /\ l[c + 1].to = to
      BY <1>1, <3>2, StatementMade
    <3> QED
      BY <3>1, <3>3
  <2>7. log'[b + 1].to + 1 <= y.p
    BY <1>1, <2>1, <2>6
  <2> HIDE DEF b
  <2> QED
    BY <2>2, <2>6, <2>7 DEF Stated
<1> QED
  BY <1>1, <1>2, <1>3 DEF Held, ValueRead

LEMMA LineEndNext ==
  ASSUME IInv, LengthsInv, exec.pc \in {"switch", "loop"}, parser.state = "s_header_value",
         log' = Record("header_value", exec.marks["header_value"], exec.p - 1),
         NEW q, q = To("s_header_almost_done"), NEW y, y.p \in Nat, exec.p <= y.p,
         parser' = q, exec' = y
  PROVE  LengthNext
<1>1. /\ Knows(q) /\ q.state = "s_header_almost_done" /\ q.flags = parser.flags
      /\ q.content_length = parser.content_length /\ q.header_state = parser.header_state
  BY InHeader, StructKnown DEF To, Knows
<1>2. q.state \in LengthStates \ {"s_headers_done", "s_header_field", "s_header_value"}
      /\ q.state \notin DiscardStates
  BY <1>1 DEF LengthStates, ValueEndStates, DiscardStates
<1>3. ASSUME "F_TRAILING" \notin q.flags PROVE Held(q, y, log')
  <2>1. "F_CONTENTLENGTH" \in q.flags => Stated(q, y, log')
    BY <1>1, <1>3, LineStates
  <2>2. q.header_state # "h_content_length"
    BY <1>1, <1>3, InHeader DEF Held, NameFound
  <2> QED
    BY <1>2, <2>1, <2>2, HeldBy
<1> QED
  BY <1>2, <1>3, HeldNext

\* A value's line ends, or the value is read on.
LEMMA CrValueNext ==
  ASSUME IInv, LengthsInv, exec.pc \in {"switch", "loop"}, parser.state = "s_header_value",
         exec.p <= exec.end, CrValue(exec)
  PROVE  LengthNext
<1> DEFINE q == To("s_header_almost_done")
           y == Unmark(exec, "header_value")
           n == y.p - LoopStart
           z == Counted([y EXCEPT !.start = 0], n)
           over == [q EXCEPT !.errno = "HEADER_OVERFLOW"]
<1>1. /\ stream \in Streams /\ IsLocals(exec) /\ exec.p \in Nat /\ LoopStart \in 1..exec.p
      /\ "header_value" \in DataKinds /\ exec.marks["header_value"] # 0
  BY InRound, InHeader, ValueMarked DEF DataKinds
<1>2. /\ log' = Record("header_value", exec.marks["header_value"], exec.p - 1)
      /\ \/ Stopped(q, exec, "header_value", exec.p + 1)
         \/ RETURN(over, z, z.p) \/ Advance(q, z)
  BY <1>1 DEF CrValue, CALLBACK_DATA, Stopped, Unmark
<1>3. Knows(q) /\ q.state = "s_header_almost_done"
  BY StructKnown
<1>4. CASE Stopped(q, exec, "header_value", exec.p + 1)
  <2>1. "header_value" \in CallbackNames
    BY DEF CallbackNames, CallbackErrors
  <2> HIDE DEF q
  <2> QED
    BY <1>3, <1>4, <2>1, StoppedNext
<1>5. CASE RETURN(over, z, z.p)
  <2> HIDE DEF q, z
  <2>1. Knows(over) /\ over.state = "s_header_almost_done" /\ over.errno = "HEADER_OVERFLOW"
    BY <1>3 DEF Knows
  <2> HIDE DEF over
  <2>2. parser'.state = over.state /\ parser'.errno = over.errno
    BY <1>5, <2>1 DEF RETURN, Knows
  <2> QED
    BY <2>1, <2>2, NextHolds
<1>6. CASE Advance(q, z)
  <2>1. IsLocals(y) /\ y.p = exec.p
    <3>1. PICK u : u = Unmark(exec, "header_value")
      OBVIOUS
    <3>2. IsLocals(u) /\ u.p = exec.p
      BY <1>1, <3>1, Unmarked
    <3> QED
      BY <3>1, <3>2
  <2> HIDE DEF y
  <2>2. z = Counted([y EXCEPT !.start = 0], n) /\ n \in Nat
    BY <1>1, <2>1
  <2> HIDE DEF n, z
  <2>3. IsLocals(z) /\ z.p = exec.p
    BY <1>1, <2>1, <2>2, LoopLocals
  <2>4. PICK w : w = [z EXCEPT !.pc = "fetch", !.p = @ + 1]
    OBVIOUS
  <2>5. exec' = w /\ parser' = q /\ w.p = exec.p + 1
    BY <1>6, <2>3, <2>4 DEF Advance, IsLocals
  <2>6. w.p \in Nat /\ exec.p <= w.p
    BY <1>1, <2>5
  <2> QED
    BY <1>2, <2>5, <2>6, LineEndNext
<1> QED
  BY <1>2, <1>4, <1>5, <1>6

LEMMA LfValueNext ==
  ASSUME IInv, LengthsInv, exec.pc \in {"switch", "loop"}, parser.state = "s_header_value",
         exec.p <= exec.end, LfValue(exec)
  PROVE  LengthNext
<1> DEFINE q == To("s_header_almost_done")
           n == exec.p - LoopStart
           x == Counted([exec EXCEPT !.start = 0], n)
<1>1. /\ stream \in Streams /\ IsLocals(exec) /\ exec.p \in Nat /\ LoopStart \in 1..exec.p
      /\ "header_value" \in DataKinds /\ exec.marks["header_value"] # 0
  BY InRound, InHeader, ValueMarked DEF DataKinds
<1>2. IsLocals(x) /\ x.p = exec.p /\ x.marks = exec.marks
  <2>1. x = Counted([exec EXCEPT !.start = 0], n) /\ n \in Nat
    BY <1>1
  <2> HIDE DEF n, x
  <2> QED
    BY <1>1, <2>1, LoopLocals
<1>3. \/ Fail(q, x, "HEADER_OVERFLOW")
      \/ CALLBACK_DATA(q, x, "header_value", exec.p - 1, exec.p, REEXECUTE)
  BY DEF LfValue
<1>4. Knows(q) /\ q.state # "s_chunk_data"
  BY StructKnown
<1> HIDE DEF x
<1>5. CASE Fail(q, x, "HEADER_OVERFLOW")
  <2> HIDE DEF q
  <2> QED
    BY <1>4, <1>5, FailedNext
<1>6. CASE CALLBACK_DATA(q, x, "header_value", exec.p - 1, exec.p, REEXECUTE)
  <2> DEFINE y == Unmark(x, "header_value")
  <2>1. /\ log' = Record("header_value", exec.marks["header_value"], exec.p - 1)
        /\ Stopped(q, x, "header_value", exec.p) \/ REEXECUTE(q, y)
    BY <1>1, <1>2, <1>6, DataPassed
  <2>2. CASE Stopped(q, x, "header_value", exec.p)
    <3>1. "header_value" \in CallbackNames
      BY DEF CallbackNames, CallbackErrors
    <3> HIDE DEF q
    <3> QED
      BY <1>4, <2>2, <3>1, StoppedNext
  <2>3. CASE REEXECUTE(q, y)
    <3>1. y = Unmark(x, "header_value")
      OBVIOUS
    <3> HIDE DEF y
    <3>2. IsLocals(y) /\ y.p = exec.p
      BY <1>1, <1>2, <3>1, Unmarked
    <3>3. PICK w : w = [y EXCEPT !.pc = "switch"]
      OBVIOUS
    <3>4. exec' = w /\ parser' = q /\ w.p = exec.p
      BY <2>3, <3>2, <3>3 DEF REEXECUTE, IsLocals
    <3>5. w.p \in Nat /\ exec.p <= w.p
      BY <1>1, <3>4
    <3> QED
      BY <2>1, <3>4, <3>5, LineEndNext
  <2> QED
    BY <2>1, <2>2, <2>3
<1> QED
  BY <1>3, <1>5, <1>6

LEMMA CharacterNext ==
  ASSUME IInv, LengthsInv, exec.pc \in {"switch", "loop"}, parser.state = "s_header_value",
         ~BadLength(parser), Loop(ValueCharacter(parser), exec.p + 1)
  PROVE  LengthNext
<1>1. PICK r : r = ValueCharacter(parser)
  OBVIOUS
<1>2. IsStruct(parser) /\ Settled(parser, LastOf(log)) /\ ValueStruct(parser)
  BY InHeader DEF ValueStruct, Settled, Measured
<1>3. /\ r.state = "s_header_value"
      /\ "F_TRAILING" \in r.flags <=> "F_TRAILING" \in parser.flags
  BY <1>1, <1>2, ValueCharacterStep DEF SameMessage
<1>4. CASE "F_TRAILING" \in parser.flags
  <2>1. PICK y : parser' = r /\ exec' = y
    BY <1>1 DEF Loop
  <2>2. r.state \in LengthStates \ {"s_headers_done"}
    BY <1>3 DEF LengthStates
  <2> QED
    BY <1>3, <1>4, <2>1, <2>2, HeldNext
<1>5. CASE parser.header_state \notin LengthValues
  <2>1. ReadsOn(parser, r)
    BY <1>1, <1>2, <1>5, OtherCharacter
  <2> QED
    BY <1>1, <1>3, <1>5, <2>1, OtherRound
<1>6. CASE "F_TRAILING" \notin parser.flags /\ parser.header_state \in LengthValues
  <2>1. parser.header_state # "h_content_length"
    BY <1>6, InHeader DEF Held, NameFound
  <2>2. parser.header_state \in {"h_content_length_num", "h_content_length_ws"}
    BY <1>6, <2>1 DEF LengthValues
  <2> QED
    BY <1>1, <2>2, LengthRound
<1> QED
  BY <1>4, <1>5, <1>6

LEMMA ValueNext ==
  ASSUME IInv, LengthsInv, HeaderValue PROVE LengthNext
<1>1. exec.pc \in {"switch", "loop"} /\ parser.state = "s_header_value"
  BY DEF HeaderValue, InLoop
<1>2. Knows(parser) /\ IsStruct(parser) /\ exec.p \in Nat /\ exec.end \in Nat
  BY <1>1, InHeader
<1> DEFINE r == ValueCharacter(parser)
<1>3. \/ exec.p > exec.end /\ LoopRunsOut
      \/ /\ exec.p <= exec.end
         /\ \/ CrValue(exec) \/ LfValue(exec) \/ Fail(parser, exec, "INVALID_HEADER_TOKEN")
            \/ parser.header_state = "h_general" /\ GeneralValue
            \/ Fail(parser, exec, "INVALID_CONTENT_LENGTH")
            \/ ~BadLength(parser) /\ Loop(r, exec.p + 1)
  <2>1. CASE exec.p > exec.end
    BY <1>2, <2>1 DEF HeaderValue
  <2>2. CASE exec.p <= exec.end /\ ch = CR
    BY <1>2, <2>2 DEF HeaderValue, CR, LF
  <2>3. CASE exec.p <= exec.end /\ ch = LF
    BY <1>2, <2>3 DEF HeaderValue, CR, LF
  <2>4. CASE exec.p <= exec.end /\ ch \notin {CR, LF}
    BY <1>2, <2>4 DEF HeaderValue
  <2> QED
    BY <1>2, <2>1, <2>2, <2>3, <2>4
<1>4. CASE exec.p > exec.end /\ LoopRunsOut
  BY <1>1, <1>4, LoopRunsOutNext
<1>5. CASE exec.p <= exec.end /\ (CrValue(exec) \/ LfValue(exec))
  BY <1>1, <1>5, CrValueNext, LfValueNext
<1>6. CASE Fail(parser, exec, "INVALID_HEADER_TOKEN") \/ Fail(parser, exec, "INVALID_CONTENT_LENGTH")
  BY <1>1, <1>2, <1>6, FailedNext
<1>7. CASE parser.header_state = "h_general" /\ GeneralValue
  <2>1. PICK next : Loop(parser, next)
    BY <1>7 DEF GeneralValue
  <2>2. parser.header_state \notin LengthValues
    BY <1>7 DEF LengthValues
  <2>3. ReadsOn(parser, parser)
    BY <2>2 DEF ReadsOn
  <2> QED
    BY <1>1, <2>1, <2>2, <2>3, OtherRound
<1>8. CASE ~BadLength(parser) /\ Loop(r, exec.p + 1)
  BY <1>1, <1>8, CharacterNext
<1> QED
  BY <1>3, <1>4, <1>5, <1>6, <1>7, <1>8

-----------------------------------------------------------------------------
(* The line ends of a header, and the end of the headers. *)

\* A value's flag states no length.
LEMMA FinalFlagKept ==
  ASSUME IsStruct(parser), NEW q, q = [WithFinalFlag(parser) EXCEPT !.state = "s_header_field_start"]
  PROVE  /\ Knows(q) /\ q.state = "s_header_field_start" /\ q.content_length = parser.content_length
         /\ "F_TRAILING" \in q.flags <=> "F_TRAILING" \in parser.flags
         /\ "F_CONTENTLENGTH" \in q.flags <=> "F_CONTENTLENGTH" \in parser.flags
<1>1. PICK r : r = WithFinalFlag(parser)
  OBVIOUS
<1>2. /\ Knows(r) /\ r.content_length = parser.content_length
      /\ "F_TRAILING" \in r.flags <=> "F_TRAILING" \in parser.flags
      /\ "F_CONTENTLENGTH" \in r.flags <=> "F_CONTENTLENGTH" \in parser.flags
  <2>1. CASE parser.header_state \in DOMAIN FinalFlags
    <3>1. PICK f : f = FinalFlags[parser.header_state]
      OBVIOUS
    <3>2. f \notin {"F_TRAILING", "F_CONTENTLENGTH"}
      BY <2>1, <3>1, FinalFlagNames
    <3>3. r = [parser EXCEPT !.flags = @ \cup {f}]
      BY <1>1, <2>1, <3>1 DEF WithFinalFlag
    <3>4. Knows(r) /\ r.content_length = parser.content_length /\ r.flags = parser.flags \cup {f}
      BY <3>3 DEF IsStruct, Knows
    <3> QED
      BY <3>2, <3>4
  <2>2. CASE parser.header_state \notin DOMAIN FinalFlags
    BY <1>1, <2>2 DEF WithFinalFlag, IsStruct, Knows
  <2> QED
    BY <2>1, <2>2
<1>3. q = [r EXCEPT !.state = "s_header_field_start"]
  BY <1>1
<1>4. /\ Knows(q) /\ q.state = "s_header_field_start" /\ q.content_length = r.content_length
      /\ q.flags = r.flags
  BY <1>2, <1>3 DEF Knows
<1> QED
  BY <1>2, <1>4

\* The next line starts: the length is not forgotten.
LEMMA NextLineHeld ==
  ASSUME NEW q, q.state = "s_header_field_start", NEW x, NEW l,
         "F_CONTENTLENGTH" \in q.flags => Stated(q, x, l)
  PROVE  q.state \in LengthStates \ {"s_headers_done"} /\ Held(q, x, l)
<1>1. /\ q.state \in LengthStates \ {"s_header_field", "s_header_value", "s_headers_done"}
      /\ q.state \notin DiscardStates /\ q.state \notin ValueEndStates \cup {"s_header_value"}
  BY DEF LengthStates, LineStartStates, DiscardStates, ValueEndStates
<1> QED
  BY <1>1, HeldBy

LEMMA LwsNext ==
  ASSUME IInv, LengthsInv, HeaderValueLws PROVE LengthNext
<1>1. exec.pc = "switch" /\ parser.state = "s_header_value_lws"
  BY DEF HeaderValueLws, At_
<1>2. /\ IsStruct(parser) /\ IsLocals(exec)
      /\ "F_TRAILING" \notin parser.flags => Held(parser, exec, log)
  BY <1>1, InHeader
<1>3. "F_TRAILING" \notin parser.flags /\ "F_CONTENTLENGTH" \in parser.flags =>
        Stated(parser, exec, log)
  BY <1>1, StatedOn DEF LengthStates, ValueEndStates
<1>4. CASE ch \in {" ", TAB}
  <2>1. PICK t : t = To("s_header_value_start")
    OBVIOUS
  <2>2. /\ Knows(t) /\ t.state = "s_header_value_start" /\ t.flags = parser.flags
        /\ t.header_state = parser.header_state /\ t.content_length = parser.content_length
    BY <1>2, <2>1 DEF To, IsStruct, Knows
  <2>3. PICK s : /\ s \in {parser.header_state, "h_content_length_ws"}
                 /\ Again([t EXCEPT !.header_state = s], exec)
    BY <1>4, <2>1, <2>2 DEF HeaderValueLws
  <2>4. PICK q : q = [t EXCEPT !.header_state = s]
    OBVIOUS
  <2>5. /\ q.state = "s_header_value_start" /\ q.flags = parser.flags
        /\ q.header_state = s /\ q.content_length = parser.content_length
    BY <2>2, <2>4 DEF Knows
  <2>6. PICK y : y = [exec EXCEPT !.pc = "switch"]
    OBVIOUS
  <2>7. parser' = q /\ exec' = y /\ log' = log
    BY <2>3, <2>4, <2>6 DEF Again, REEXECUTE
  <2>8. y.p = exec.p
    BY <1>2, <2>6 DEF IsLocals
  <2>9. q.state \in LengthStates \ {"s_header_field", "s_header_value", "s_headers_done"}
        /\ q.state \notin DiscardStates
    BY <2>5 DEF LengthStates, ValueEndStates, DiscardStates
  <2>10. ASSUME "F_TRAILING" \notin q.flags PROVE Held(q, y, log)
    <3>1. "F_CONTENTLENGTH" \in q.flags => Stated(q, y, log)
      BY <1>1, <1>3, <2>5, <2>8, <2>10 DEF Stated
    <3>2. q.header_state # "h_content_length"
      BY <1>1, <1>2, <2>3, <2>5, <2>10 DEF Held, NameFound, ValueEndStates
    <3> QED
      BY <2>9, <3>1, <3>2, HeldBy
  <2> QED
    BY <2>7, <2>9, <2>10, HeldNext
<1>5. CASE ch \notin {" ", TAB}
  <2>1. PICK q : q = [WithFinalFlag(parser) EXCEPT !.state = "s_header_field_start"]
    OBVIOUS
  <2>2. Again(q, exec)
    BY <1>5, <2>1 DEF HeaderValueLws
  <2>3. PICK y : y = [exec EXCEPT !.pc = "switch"]
    OBVIOUS
  <2>4. parser' = q /\ exec' = y /\ log' = log
    BY <2>2, <2>3 DEF Again, REEXECUTE
  <2>5. /\ Knows(q) /\ q.state = "s_header_field_start" /\ q.content_length = parser.content_length
        /\ "F_TRAILING" \in q.flags <=> "F_TRAILING" \in parser.flags
        /\ "F_CONTENTLENGTH" \in q.flags <=> "F_CONTENTLENGTH" \in parser.flags
    BY <1>2, <2>1, FinalFlagKept
  <2>6. ASSUME "F_TRAILING" \notin q.flags, "F_CONTENTLENGTH" \in q.flags PROVE Stated(q, y, log)
    <3>1. Stated(parser, exec, log)
      BY <1>3, <2>5, <2>6
    <3> QED
      BY <2>5, <3>1, StatedFree
  <2>7. q.state \in LengthStates \ {"s_headers_done"}
        /\ ("F_TRAILING" \notin q.flags => Held(q, y, log))
    BY <2>5, <2>6, NextLineHeld DEF LengthStates, LineStartStates
  <2> QED
    BY <2>4, <2>7, HeldNext
<1> QED
  BY <1>4, <1>5

LEMMA DiscardLwsNext ==
  ASSUME IInv, LengthsInv, HeaderValueDiscardLws PROVE LengthNext
<1>1. exec.pc = "switch" /\ parser.state = "s_header_value_discard_lws"
  BY DEF HeaderValueDiscardLws, At_
<1>2. /\ IsStruct(parser) /\ IsLocals(exec) /\ Knows(parser) /\ log \in History
      /\ "F_TRAILING" \notin parser.flags => Held(parser, exec, log)
  BY <1>1, InHeader
<1>3. "F_TRAILING" \notin parser.flags /\ "F_CONTENTLENGTH" \in parser.flags =>
        Stated(parser, exec, log)
  BY <1>1, StatedOn DEF LengthStates, DiscardStates
<1>4. LastOf(log) = "header_field" /\ parser.state \notin MarkStates
  BY <1>1, InDiscard DEF DiscardStates
<1>5. CASE ch \in {" ", TAB}
  <2>1. PICK q : q = To("s_header_value_discard_ws")
    OBVIOUS
  <2>2. /\ q.state = "s_header_value_discard_ws" /\ q.flags = parser.flags
        /\ q.header_state = parser.header_state /\ q.content_length = parser.content_length
    BY <1>2, <2>1 DEF To, IsStruct
  <2>3. PICK y : parser' = q /\ exec' = y /\ log' = log
    BY <1>5, <2>1 DEF HeaderValueDiscardLws, Break, Advance
  <2>4. q.state \in LengthStates \ {"s_header_field", "s_header_value", "s_headers_done"}
        /\ q.state \notin ValueEndStates
    BY <2>2 DEF LengthStates, ValueEndStates, DiscardStates
  <2>5. ASSUME "F_TRAILING" \notin q.flags PROVE Held(q, y, log)
    <3>1. ASSUME "F_CONTENTLENGTH" \in q.flags PROVE Stated(q, y, log)
      <4>1. Stated(parser, exec, log)
        BY <1>3, <2>2, <2>5, <3>1
      <4> QED
        BY <2>2, <4>1, StatedFree
    <3>2. q.header_state = "h_content_length" => NameAt(log, Len(log))
      BY <1>1, <1>2, <2>2, <2>5 DEF Held, NameFound, DiscardStates
    <3>3. q.state \notin ValueEndStates \cup {"s_header_value"}
      BY <2>4
    <3> QED
      BY <2>4, <3>1, <3>2, <3>3, HeldBy
  <2> QED
    BY <2>3, <2>4, <2>5, HeldNext
<1>6. CASE Fail(parser, exec, "INVALID_CONTENT_LENGTH")
  BY <1>1, <1>2, <1>6, FailedNext
<1> DEFINE q == [WithFinalFlag(parser) EXCEPT !.state = "s_header_field_start"]
           x == MARK(exec, "header_value")
<1>7. CASE CALLBACK_DATA(q, x, "header_value", exec.p - 1, exec.p, REEXECUTE)
  <2>1. /\ Knows(q) /\ q.state = "s_header_field_start" /\ q.content_length = parser.content_length
        /\ "F_TRAILING" \in q.flags <=> "F_TRAILING" \in parser.flags
        /\ "F_CONTENTLENGTH" \in q.flags <=> "F_CONTENTLENGTH" \in parser.flags
    BY <1>2, FinalFlagKept
  <2> HIDE DEF q
  <2>2. "header_value" \in CallbackNames /\ "header_value" \in DataKinds
    BY DEF CallbackNames, CallbackErrors, DataKinds
  <2>3. x.marks["header_value"] # 0
    <3>1. PICK u : u = MARK(exec, "header_value")
      OBVIOUS
    <3>2. u.marks["header_value"] = exec.p
      BY <1>1, <1>4, <2>2, <3>1, MarkHere
    <3>3. exec.p # 0
      BY <1>1, InHeader
    <3> QED
      BY <3>1, <3>2, <3>3
  <2> HIDE DEF x
  <2>4. PICK at : at = x.marks["header_value"]
    OBVIOUS
  <2>5. /\ log' = Record("header_value", at, exec.p - 1)
        /\ Stopped(q, x, "header_value", exec.p) \/ REEXECUTE(q, Unmark(x, "header_value"))
    BY <1>7, <2>3, <2>4, DataPassed
  <2>6. CASE Stopped(q, x, "header_value", exec.p)
    BY <2>1, <2>2, <2>6, StoppedNext
  <2>7. CASE REEXECUTE(q, Unmark(x, "header_value"))
    <3>1. PICK y, l : parser' = q /\ exec' = y /\ l = log'
      BY <2>7 DEF REEXECUTE
    <3>2. ASSUME "F_TRAILING" \notin q.flags, "F_CONTENTLENGTH" \in q.flags PROVE Stated(q, y, l)
      <4>1. Stated(parser, exec, log)
        BY <1>3, <2>1, <3>2
      <4>2. ~Joins(log, "header_value", at)
        BY <1>4 DEF Joins
      <4> QED
        BY <1>2, <2>1, <2>2, <2>5, <3>1, <4>1, <4>2, StatedAfter
    <3>3. q.state \in LengthStates \ {"s_headers_done"}
          /\ ("F_TRAILING" \notin q.flags => Held(q, y, l))
      BY <2>1, <3>2, NextLineHeld DEF LengthStates, LineStartStates
    <3> QED
      BY <3>1, <3>3, HeldNext
  <2> QED
    BY <2>5, <2>6, <2>7
<1> QED
  BY <1>5, <1>6, <1>7 DEF HeaderValueDiscardLws

\* The last entry ends where a callback says, be it joined or not.
LEMMA RecordEnds ==
  ASSUME log \in History, NEW c \in CallbackNames, NEW from, NEW to, NEW l, l = Record(c, from, to)
  PROVE  Len(l) \in Nat \ {0} /\ l[Len(l)].to = to /\ l[Len(l)].callback = c
<1>1. PICK b : b = Before(log, c, from)
  OBVIOUS
<1>2. b \in Nat /\ Len(l) = b + 1 /\ l[b + 1].callback = c /\ l[b + 1].to = to
  BY <1>1, RecordGrown
<1>3. b + 1 \in Nat \ {0}
  BY <1>2
<1> QED
  BY <1>2, <1>3

LEMMA CompleteNext ==
  ASSUME IInv, LengthsInv, exec.pc = "switch", parser.state = "s_headers_almost_done",
         "F_TRAILING" \notin parser.flags,
         NEW q, Knows(q), q.state = "s_headers_done", q.flags = parser.flags,
         q.content_length = parser.content_length, HeadersComplete(q)
  PROVE  LengthNext
<1>1. /\ IsLocals(exec) /\ log \in History /\ exec.p \in Nat \ {0}
      /\ "headers_complete" \in CallbackNames
  BY InHeader DEF CallbackNames, CallbackErrors
<1>2. PICK y : y = [exec EXCEPT !.pc = "switch"]
  OBVIOUS
<1>3. log' = Record("headers_complete", exec.p, exec.p)
  BY DEF HeadersComplete
<1> DEFINE skips == [q EXCEPT !.flags = @ \cup {"F_SKIPBODY"}]
           upgrades == [q EXCEPT !.flags = @ \cup {"F_SKIPBODY"}, !.upgrade = TRUE]
<1>4. \/ \E r \in {q, skips, upgrades} : parser' = r /\ exec' = y
      \/ \E error \in {"PAUSED", "CB_headers_complete"} :
           RETURN([q EXCEPT !.errno = error], exec, exec.p)
  BY <1>2 DEF HeadersComplete, REEXECUTE
<1>5. \A r \in {q, skips, upgrades} :
        /\ r.state = "s_headers_done" /\ r.content_length = parser.content_length
        /\ "F_TRAILING" \in r.flags <=> "F_TRAILING" \in parser.flags
        /\ "F_CONTENTLENGTH" \in r.flags <=> "F_CONTENTLENGTH" \in parser.flags
  <2>1. /\ skips.state = "s_headers_done" /\ skips.content_length = parser.content_length
        /\ skips.flags = parser.flags \cup {"F_SKIPBODY"}
    BY DEF Knows
  <2>2. /\ upgrades.state = "s_headers_done" /\ upgrades.content_length = parser.content_length
        /\ upgrades.flags = parser.flags \cup {"F_SKIPBODY"}
    BY DEF Knows
  <2> HIDE DEF skips, upgrades
  <2> QED
    BY <2>1, <2>2
<1>6. y.p = exec.p
  BY <1>1, <1>2 DEF IsLocals
<1>7. ASSUME NEW r \in {q, skips, upgrades}, parser' = r, exec' = y PROVE LengthNext
  <2>1. /\ r.state = "s_headers_done" /\ r.content_length = parser.content_length
        /\ "F_TRAILING" \in r.flags <=> "F_TRAILING" \in parser.flags
        /\ "F_CONTENTLENGTH" \in r.flags <=> "F_CONTENTLENGTH" \in parser.flags
    BY <1>5, <1>7
  <2>2. r.state \in LengthStates \ {"s_header_field", "s_header_value"}
        /\ r.state \notin DiscardStates /\ r.state \notin ValueEndStates \cup {"s_header_value"}
    BY <2>1 DEF LengthStates, DiscardStates, ValueEndStates
  <2>3. PICK l : l = log'
    OBVIOUS
  <2>4. ASSUME "F_CONTENTLENGTH" \in r.flags PROVE Stated(r, y, l)
    <3>1. parser.state \in LengthStates \ {"s_header_value"}
      BY DEF LengthStates, LineStartStates
    <3>2. Stated(parser, exec, log)
      BY <2>1, <2>4, <3>1, StatedOn
    <3> QED
      BY <1>1, <1>3, <2>1, <2>3, <3>2, StatedAfter
  <2>5. Held(r, y, l)
    BY <2>2, <2>4, HeldBy
  <2>6. l[Len(l)].to = exec.p
    BY <1>1, <1>3, <2>3, RecordEnds
  <2>7. l[Len(l)].to + 1 = y.p + 1
    BY <1>6, <2>6
  <2> QED
    BY <1>7, <2>2, <2>3, <2>5, <2>7, HeadHolds DEF LengthNext
<1>8. ASSUME NEW error \in {"PAUSED", "CB_headers_complete"},
             RETURN([q EXCEPT !.errno = error], exec, exec.p)
      PROVE  LengthNext
  <2>1. parser'.errno = error /\ parser'.state = "s_headers_done"
    BY <1>8 DEF RETURN, Knows
  <2> QED
    BY <2>1, NextHolds
<1> QED
  BY <1>4, <1>7, <1>8

LEMMA HeadersAlmostDoneNext ==
  ASSUME IInv, LengthsInv, HeadersAlmostDone PROVE LengthNext
<1>1. exec.pc = "switch" /\ parser.state = "s_headers_almost_done"
  BY DEF HeadersAlmostDone, At_
<1>2. IsStruct(parser) /\ Knows(parser)
  BY <1>1, InHeader
<1> DEFINE q == To("s_message_done")
           t == To("s_headers_done")
           upgrades == Upgrades(parser)
           r == [t EXCEPT !.upgrade = upgrades]
<1>3. \/ Fail(parser, exec, "STRICT") \/ Fail(parser, exec, "UNEXPECTED_CONTENT_LENGTH")
      \/ CALLBACK_NOTIFY(q, exec, "chunk_complete", exec.p, REEXECUTE)
      \/ "F_TRAILING" \notin parser.flags /\ HeadersComplete(r)
  BY DEF HeadersAlmostDone, Has
<1>4. CASE Fail(parser, exec, "STRICT") \/ Fail(parser, exec, "UNEXPECTED_CONTENT_LENGTH")
  BY <1>1, <1>2, <1>4, FailedNext
<1>5. CASE CALLBACK_NOTIFY(q, exec, "chunk_complete", exec.p, REEXECUTE)
  <2>1. Knows(q) /\ q.state = "s_message_done"
    BY StructKnown
  <2> HIDE DEF q
  <2>2. Early(q)
    BY <2>1 DEF Early, QuietStates
  <2> QED
    BY <1>5, <2>1, <2>2, EarlyNext
<1>6. CASE "F_TRAILING" \notin parser.flags /\ HeadersComplete(r)
  <2> HIDE DEF upgrades
  <2>1. /\ Knows(t) /\ t.state = "s_headers_done" /\ t.flags = parser.flags
        /\ t.content_length = parser.content_length
    BY <1>2 DEF To, IsStruct, Knows
  <2> HIDE DEF t
  <2>2. /\ Knows(r) /\ r.state = "s_headers_done" /\ r.flags = parser.flags
        /\ r.content_length = parser.content_length
    BY <2>1 DEF Knows
  <2> HIDE DEF r
  <2> QED
    BY <1>1, <1>6, <2>2, CompleteNext
<1> QED
  BY <1>3, <1>4, <1>5, <1>6

LEMMA HeadersDoneNext ==
  ASSUME IInv, LengthsInv, HeadersDone PROVE LengthNext
<1>1. exec.pc = "switch" /\ parser.state = "s_headers_done"
  BY DEF HeadersDone, At_
<1>2. IsStruct(parser) /\ Knows(parser) /\ IsLocals(exec) /\ exec.p \in Nat /\ parser.errno = "OK"
  BY <1>1, InHeader
<1> DEFINE q == [parser EXCEPT !.nread = 0]
           x == [exec EXCEPT !.nread = 0]
           s == NEW_MESSAGE(q)
           over == [q EXCEPT !.state = s]
           sized == [q EXCEPT !.state = "s_chunk_size_start"]
           toEof == [q EXCEPT !.state = "s_body_identity_eof"]
           counted == [q EXCEPT !.state = "s_body_identity"]
<1>3. \/ Fail(parser, exec, "STRICT") \/ Fail(q, x, "INVALID_TRANSFER_ENCODING")
      \/ CALLBACK_NOTIFY(over, x, "message_complete", x.p + 1, Leave)
      \/ CALLBACK_NOTIFY(over, x, "message_complete", x.p + 1, Advance)
      \/ Break(sized, x) \/ Break(toEof, x) \/ Break(counted, x)
  BY DEF HeadersDone, Leave, Has
<1>4. Knows(q) /\ q.state = "s_headers_done"
  BY <1>1, <1>2 DEF Knows
<1>5. {"pc", "p"} \subseteq DOMAIN x /\ x.p = exec.p
  BY <1>2 DEF IsLocals
<1>6. s \in StartStates
  BY NewMessageState
<1> HIDE DEF q, x, s
<1>7. /\ Knows(over) /\ over.state = s
      /\ Knows(sized) /\ sized.state = "s_chunk_size_start"
      /\ Knows(toEof) /\ toEof.state = "s_body_identity_eof"
      /\ Knows(counted) /\ counted.state = "s_body_identity"
  BY <1>4 DEF Knows
<1> HIDE DEF over, sized, toEof, counted
<1>8. Early(over) /\ Early(toEof) /\ Early(counted)
  BY <1>6, <1>7 DEF Early, QuietStates
<1>9. CASE Fail(parser, exec, "STRICT") \/ Fail(q, x, "INVALID_TRANSFER_ENCODING")
  BY <1>1, <1>2, <1>4, <1>9, FailedNext
<1>10. CASE \/ CALLBACK_NOTIFY(over, x, "message_complete", x.p + 1, Leave)
            \/ CALLBACK_NOTIFY(over, x, "message_complete", x.p + 1, Advance)
  BY <1>7, <1>8, <1>10, EarlyNext
<1>11. CASE Break(toEof, x) \/ Break(counted, x)
  BY <1>7, <1>8, <1>11, EarlyNext
<1>12. CASE Break(sized, x)
  <2>1. PICK y : y = [x EXCEPT !.pc = "fetch", !.p = @ + 1]
    OBVIOUS
  <2>2. parser' = sized /\ exec' = y /\ log' = log
    BY <1>12, <2>1 DEF Break, Advance
  <2>3. y.p = exec.p + 1
    BY <1>5, <2>1
  <2>4. log[Len(log)].to + 1 = exec.p + 1
    BY <1>1, <1>2 DEF LengthsInv, LengthInv, SizeRead
  <2>5. SizeRead(sized, y, log) /\ sized.state \in SizeStates
    BY <1>7, <2>3, <2>4 DEF SizeRead, SizeStates
  <2> QED
    BY <2>2, <2>5, SizeHolds DEF LengthNext
<1> QED
  BY <1>3, <1>9, <1>10, <1>11, <1>12

LEMMA HeadersNext ==
  ASSUME IInv, LimitInv', LengthsInv, Headers PROVE LengthNext
<1>1. ASSUME HeaderValueStart PROVE LengthNext
  BY <1>1, StartValueNext DEF HeaderValueStart, At_
<1> QED
  BY <1>1, FieldStartNext, FieldNext, DiscardWsNext, ValueNext, LwsNext, DiscardLwsNext,
     HeadersAlmostDoneNext, HeadersDoneNext DEF Headers

-----------------------------------------------------------------------------
(* Bodies. *)

LEMMA NoHex ==
  ASSUME NEW c, c \in {CR, ";", " "} PROVE ~IS_HEX(c)
<1>1. c # "0" /\ c # "1" /\ c # "2" /\ c # "3" /\ c # "4" /\ c # "5" /\ c # "6" /\ c # "7" /\ c # "8" /\ c # "9"
  BY DEF CR
<1>2. ~IS_NUM(c)
  BY <1>1, DigitNames
<1> QED
  BY <1>2 DEF IS_HEX, CR

\* The size of a chunk that is read, one byte further.
LEMMA InChunkSize ==
  ASSUME IInv, LengthsInv, exec.pc = "switch", parser.state \in SizeStates
  PROVE  /\ IsStruct(parser) /\ Knows(parser) /\ IsLocals(exec) /\ parser.errno = "OK"
         /\ stream \in Streams /\ Len(stream) \in Nat /\ exec.p \in Nat \ {0}
         /\ exec.p <= Len(stream) /\ log \in History /\ parser.content_length \in 0..MaxLength
         /\ SizeRead(parser, exec, log)
         /\ log[Len(log)].to + 1 \in Nat \ {0} /\ Len(log) \in Nat \ {0}
         /\ LastOf(log) \in {"headers_complete", "chunk_complete"}
<1>1. /\ stream \in Streams /\ Len(stream) \in Nat /\ log \in History /\ IsStruct(parser)
      /\ Knows(parser) /\ IsLocals(exec) /\ parser.errno = "OK" /\ exec.p \in Nat \ {0}
  BY InHeader
<1>2. exec.p \in 1..Len(stream)
  BY InSwitch
<1>3. parser.content_length \in 0..MaxLength
  BY <1>1 DEF IsStruct
<1>4. SizeRead(parser, exec, log)
  BY <1>1 DEF LengthsInv, LengthInv
<1>5. LastOf(log) \in {"headers_complete", "chunk_complete"}
  BY InSize
<1>6. Len(log) \in Nat /\ Len(log) # 0
  BY <1>1, <1>5, LastEntry
<1>7. log[Len(log)].to \in Nat
  <2>1. Len(log) \in 1..Len(log)
    BY <1>6
  <2> QED
    BY <1>1, <2>1, EntryOf
<1> QED
  BY <1>1, <1>2, <1>3, <1>4, <1>5, <1>6, <1>7

LEMMA SizeNext ==
  ASSUME NEW q, q.state \in SizeStates, Break(q, exec), IsLocals(exec),
         NEW y, y = [exec EXCEPT !.pc = "fetch", !.p = @ + 1], SizeRead(q, y, log)
  PROVE  LengthNext
<1>1. parser' = q /\ exec' = y /\ log' = log
  BY DEF Break, Advance
<1> QED
  BY <1>1, SizeHolds DEF LengthNext

LEMMA NextPlace ==
  ASSUME IsLocals(exec), NEW y, y = [exec EXCEPT !.pc = "fetch", !.p = @ + 1]
  PROVE  y.p = exec.p + 1
BY DEF IsLocals

LEMMA ChunkSizeStartNext ==
  ASSUME IInv, LengthsInv, ChunkSizeStart PROVE LengthNext
<1>1. exec.pc = "switch" /\ parser.state = "s_chunk_size_start"
  BY DEF ChunkSizeStart, At_
<1>2. parser.state \in SizeStates /\ parser.state # "s_chunk_data"
  BY <1>1 DEF SizeStates
<1>3. /\ IsStruct(parser) /\ Knows(parser) /\ IsLocals(exec) /\ stream \in Streams
      /\ Len(stream) \in Nat /\ exec.p \in Nat \ {0} /\ exec.p <= Len(stream)
      /\ SizeRead(parser, exec, log)
  BY <1>1, <1>2, InChunkSize
<1> DEFINE q == [To("s_chunk_size") EXCEPT !.content_length = HexValue(ch)]
<1>4. CASE Fail(parser, exec, "INVALID_CHUNK_SIZE")
  BY <1>2, <1>3, <1>4, FailedNext
<1>5. CASE IS_HEX(ch) /\ Break(q, exec)
  <2>1. q.state = "s_chunk_size" /\ q.content_length = HexValue(ch)
    BY <1>3 DEF To, IsStruct
  <2> HIDE DEF q
  <2>2. PICK y : y = [exec EXCEPT !.pc = "fetch", !.p = @ + 1]
    OBVIOUS
  <2>3. PICK p \in Nat : p = exec.p /\ y.p = p + 1 /\ y.p - 1 = p
    <3>1. exec.p \in Nat /\ y.p = exec.p + 1
      BY <1>3, <2>2, NextPlace
    <3>2. y.p - 1 = exec.p
      BY <3>1
    <3> QED
      BY <3>1, <3>2
  <2>4. log[Len(log)].to + 1 = p
    BY <1>1, <1>3, <2>3 DEF SizeRead
  <2>5. (\A k \in p..p : IS_HEX(stream[k])) /\ p < y.p
    <3>1. \A k \in p..p : k = p
      OBVIOUS
    <3> QED
      BY <1>5, <2>3, <3>1 DEF ch
  <2>6. HexOf(SubSeq(stream, p, p)) = HexValue(stream[p])
    <3>1. p \in Nat \ {0} /\ p <= p /\ p <= Len(stream)
      BY <1>3, <2>3
    <3> QED
      BY <1>3, <2>5, <3>1, HexText
  <2>7. SizeRead(q, y, log)
    BY <2>1, <2>3, <2>4, <2>5, <2>6 DEF SizeRead, ch
  <2> QED
    BY <1>3, <1>5, <2>1, <2>2, <2>7, SizeNext DEF SizeStates
<1> QED
  BY <1>4, <1>5 DEF ChunkSizeStart

LEMMA ChunkSizeNext ==
  ASSUME IInv, LengthsInv, ChunkSize PROVE LengthNext
<1>1. exec.pc = "switch" /\ parser.state = "s_chunk_size"
  BY DEF ChunkSize, At_
<1>2. parser.state \in SizeStates /\ parser.state # "s_chunk_data"
  BY <1>1 DEF SizeStates
<1>3. /\ IsStruct(parser) /\ Knows(parser) /\ IsLocals(exec) /\ stream \in Streams
      /\ Len(stream) \in Nat /\ exec.p \in Nat \ {0} /\ exec.p <= Len(stream)
      /\ SizeRead(parser, exec, log) /\ parser.content_length \in 0..MaxLength
      /\ log[Len(log)].to + 1 \in Nat \ {0}
  BY <1>1, <1>2, InChunkSize
<1>4. PICK y : y = [exec EXCEPT !.pc = "fetch", !.p = @ + 1]
  OBVIOUS
<1>5. PICK p \in Nat : p = exec.p /\ y.p = p + 1 /\ y.p - 1 = p /\ y.p - 2 = p - 1
  <2>1. exec.p \in Nat /\ y.p = exec.p + 1
    BY <1>3, <1>4, NextPlace
  <2>2. y.p - 1 = exec.p /\ y.p - 2 = exec.p - 1
    BY <2>1
  <2> QED
    BY <2>1, <2>2
<1>6. PICK first : first = log[Len(log)].to + 1
  OBVIOUS
<1>7. /\ first \in Nat \ {0} /\ first < p /\ \A k \in first..p - 1 : IS_HEX(stream[k])
      /\ parser.content_length = HexOf(SubSeq(stream, first, p - 1))
  BY <1>1, <1>3, <1>5, <1>6 DEF SizeRead
<1> DEFINE longer == Longer(parser, 16, HexValue(ch))
<1>8. \/ \E error : error # "OK" /\ Fail(parser, exec, error)
      \/ ch = CR /\ Break(To("s_chunk_size_almost_done"), exec)
      \/ ch \in {";", " "} /\ Break(To("s_chunk_parameters"), exec)
      \/ IS_HEX(ch) /\ ~TooLong(parser, 16) /\ Break(longer, exec)
  BY DEF ChunkSize
<1>9. ASSUME NEW s \in {"s_chunk_size_almost_done", "s_chunk_parameters"},
             ch \in {CR, ";", " "}, Break(To(s), exec)
      PROVE  LengthNext
  <2>1. PICK q : q = To(s)
    OBVIOUS
  <2>2. q.state = s /\ q.content_length = parser.content_length
    BY <1>3, <2>1 DEF To, IsStruct
  <2>3. p - 1 \in first..p - 1 /\ (p - 1) + 1 = p
    BY <1>7
  <2>4. ~IS_HEX(stream[p])
    BY <1>5, <1>9, NoHex DEF ch
  <2>5. SizeRead(q, y, log)
    BY <1>5, <1>6, <1>7, <2>2, <2>3, <2>4 DEF SizeRead
  <2>6. q.state \in SizeStates /\ Break(q, exec)
    BY <1>9, <2>1, <2>2 DEF SizeStates
  <2> QED
    BY <1>3, <1>4, <2>5, <2>6, SizeNext
<1>10. CASE IS_HEX(ch) /\ ~TooLong(parser, 16) /\ Break(longer, exec)
  <2>1. PICK v, d, w : v = parser.content_length /\ d = HexValue(ch) /\ w = longer.content_length
    OBVIOUS
  <2>2. v \in 0..MaxLength /\ d \in 0..15
    BY <1>3, <1>10, <2>1, HexRange
  <2>3. w = (v * 16 + d) % (MaxLength + 1) /\ longer.state = "s_chunk_size"
    BY <1>1, <1>3, <2>1 DEF Longer, IsStruct
  <2>4. w = v * 16 + d
    <3>1. ~((MaxLength - 16) \div 16 < v)
      BY <1>10, <2>1 DEF TooLong
    <3>2. MaxLength \in Nat /\ MaxLength >= 16
      BY ParserAssumption
    <3>3. v * 16 + d \in 0..MaxLength
      BY <2>2, <3>1, <3>2
    <3>4. \A k \in 0..MaxLength : k % (MaxLength + 1) = k
      BY <3>2
    <3> QED
      BY <2>3, <3>3, <3>4
  <2>5. \A k \in first..p : IS_HEX(stream[k])
    <3>1. \A k \in first..p : k \in first..p - 1 \/ k = p
      BY <1>7
    <3> QED
      BY <1>5, <1>7, <1>10, <3>1 DEF ch
  <2>6. /\ HexOf(SubSeq(stream, first, p - 1)) \in Nat
        /\ HexOf(SubSeq(stream, first, p))
           = 16 * HexOf(SubSeq(stream, first, p - 1)) + HexValue(stream[p])
    <3>1. first <= p /\ p <= Len(stream) /\ first < p
      BY <1>3, <1>5, <1>7
    <3> QED
      BY <1>3, <1>7, <2>5, <3>1, HexText
  <2>7. d = HexValue(stream[p])
    BY <1>5, <2>1 DEF ch
  <2>8. w = HexOf(SubSeq(stream, first, p))
    <3>1. PICK h, g : h = HexOf(SubSeq(stream, first, p - 1)) /\ g = HexOf(SubSeq(stream, first, p))
      OBVIOUS
    <3>2. v = h /\ h \in Nat /\ g = 16 * h + d
      BY <1>7, <2>1, <2>6, <2>7, <3>1
    <3> QED
      BY <2>2, <2>4, <3>1, <3>2
  <2>9. first < y.p
    BY <1>5, <1>7
  <2> HIDE DEF longer
  <2>10. SizeRead(longer, y, log)
    BY <1>5, <1>6, <2>1, <2>3, <2>5, <2>8, <2>9 DEF SizeRead
  <2> QED
    BY <1>3, <1>4, <1>10, <2>3, <2>10, SizeNext DEF SizeStates
<1>11. CASE \E error : error # "OK" /\ Fail(parser, exec, error)
  BY <1>2, <1>3, <1>11, FailedNext
<1> QED
  BY <1>8, <1>9, <1>10, <1>11

LEMMA ChunkParametersNext ==
  ASSUME IInv, LengthsInv, ChunkParameters PROVE LengthNext
<1>1. exec.pc = "switch" /\ parser.state = "s_chunk_parameters"
  BY DEF ChunkParameters, At_
<1>2. parser.state \in SizeStates
  BY <1>1 DEF SizeStates
<1>3. /\ IsStruct(parser) /\ IsLocals(exec) /\ exec.p \in Nat \ {0} /\ SizeRead(parser, exec, log)
      /\ log[Len(log)].to + 1 \in Nat \ {0}
  BY <1>1, <1>2, InChunkSize
<1>4. PICK q : q \in {parser, To("s_chunk_size_almost_done")} /\ Break(q, exec)
  BY DEF ChunkParameters
<1>5. /\ q.state \in {"s_chunk_parameters", "s_chunk_size_almost_done"}
      /\ q.content_length = parser.content_length
  BY <1>1, <1>3, <1>4 DEF To, IsStruct
<1>6. PICK y : y = [exec EXCEPT !.pc = "fetch", !.p = @ + 1]
  OBVIOUS
<1>7. y.p = exec.p + 1
  BY <1>3, <1>6, NextPlace
<1>8. PICK first : first = log[Len(log)].to + 1
  OBVIOUS
<1>9. PICK e \in first..exec.p - 2 :
        /\ \A k \in first..e : IS_HEX(stream[k])
        /\ ~IS_HEX(stream[e + 1])
        /\ parser.content_length = HexOf(SubSeq(stream, first, e))
  BY <1>1, <1>3, <1>8 DEF SizeRead
<1>10. e \in first..y.p - 2
  BY <1>3, <1>7, <1>8
<1>11. SizeRead(q, y, log)
  BY <1>5, <1>8, <1>9, <1>10 DEF SizeRead
<1> QED
  BY <1>3, <1>4, <1>5, <1>6, <1>11, SizeNext DEF SizeStates

\* The chunk header is called back where its size is known.
LEMMA ChunkHeaderStates ==
  ASSUME IInv, LengthsInv, exec.pc = "switch", parser.state = "s_chunk_size_almost_done",
         NEW l, l = Record("chunk_header", exec.p, exec.p),
         NEW q, q.content_length = parser.content_length, NEW x
  PROVE  ChunkStated(q, x, l)
<1>1. parser.state \in SizeStates
  BY DEF SizeStates
<1>2. /\ log \in History /\ exec.p \in Nat \ {0} /\ SizeRead(parser, exec, log)
      /\ log[Len(log)].to + 1 \in Nat \ {0} /\ Len(log) \in Nat \ {0}
      /\ LastOf(log) \in {"headers_complete", "chunk_complete"}
      /\ "chunk_header" \in CallbackNames
  BY <1>1, InChunkSize DEF CallbackNames, CallbackErrors
<1>3. PICK n : n = Len(log)
  OBVIOUS
<1>4. n \in Nat \ {0} /\ Len(l) = n + 1 /\ l[n + 1].to = exec.p /\ l[n] = log[n] /\ l # <<>>
  <2>1. ~Joins(log, "chunk_header", exec.p)
    BY <1>2 DEF Joins
  <2>2. Before(log, "chunk_header", exec.p) = n
    BY <1>3, <2>1 DEF Before
  <2>3. Len(l) = n + 1 /\ l[n + 1].to = exec.p /\ \A k \in 1..n : l[k] = log[k]
    BY <1>2, <2>2, RecordGrown
  <2>4. n \in 1..n /\ n + 1 # 0
    BY <1>2, <1>3
  <2> QED
    BY <1>2, <1>3, <2>3, <2>4
<1>5. Last(l).to = exec.p /\ l[Len(l) - 1].to = log[n].to
  <2>1. (n + 1) - 1 = n
    BY <1>4
  <2> QED
    BY <1>4, <2>1 DEF Last
<1>6. PICK first : first = log[n].to + 1
  OBVIOUS
<1>7. PICK e \in first..exec.p - 2 :
        /\ \A k \in first..e : IS_HEX(stream[k])
        /\ ~IS_HEX(stream[e + 1])
        /\ parser.content_length = HexOf(SubSeq(stream, first, e))
  BY <1>2, <1>3, <1>6 DEF SizeRead
<1>8. PICK size : size = {i \in first..exec.p : \A j \in first..i : IS_HEX(stream[j])}
  OBVIOUS
<1>9. Max(size) = e
  <2>1. first \in Nat /\ exec.p \in Nat /\ e \in first..exec.p /\ e + 1 \in Nat
    BY <1>2, <1>3, <1>6, <1>7
  <2>2. size \subseteq Int /\ e \in size
    BY <1>7, <1>8, <2>1
  <2>3. ASSUME NEW i \in size PROVE i <= e
    <3>1. i \in first..exec.p /\ \A j \in first..i : IS_HEX(stream[j])
      BY <1>8, <2>3
    <3>2. CASE e < i
      <4>1. e + 1 \in first..i
        BY <2>1, <3>1, <3>2
      <4> QED
        BY <1>7, <3>1, <4>1
    <3> QED
      BY <2>1, <3>1, <3>2
  <2> QED
    BY <2>2, <2>3, Greatest
<1>10. q.content_length = HexOf(SubSeq(stream, first, Max(size)))
  BY <1>7, <1>9
<1> QED
  BY <1>5, <1>6, <1>8, <1>10, Zenon DEF ChunkStated

LEMMA ChunkSizeAlmostDoneNext ==
  ASSUME IInv, LengthsInv, ChunkSizeAlmostDone PROVE LengthNext
<1>1. exec.pc = "switch" /\ parser.state = "s_chunk_size_almost_done"
  BY DEF ChunkSizeAlmostDone, At_
<1>2. IsStruct(parser) /\ Knows(parser) /\ IsLocals(exec)
  BY <1>1, InHeader
<1> DEFINE trailing == [To("s_header_field_start") EXCEPT !.flags = @ \cup {"F_TRAILING"}]
           t == IF parser.content_length = 0 THEN trailing ELSE To("s_chunk_data")
           q == [t EXCEPT !.nread = 0]
           x == [exec EXCEPT !.nread = 0]
<1>3. \/ Fail(parser, exec, "STRICT")
      \/ CALLBACK_NOTIFY(q, x, "chunk_header", exec.p + 1, Advance)
  BY DEF ChunkSizeAlmostDone
<1>4. CASE Fail(parser, exec, "STRICT")
  BY <1>1, <1>2, <1>4, FailedNext
<1>5. /\ Knows(t) /\ t.content_length = parser.content_length
      /\ \/ t.state = "s_header_field_start" /\ "F_TRAILING" \in t.flags
         \/ t.state = "s_chunk_data"
  <2>1. CASE parser.content_length = 0
    <3>1. PICK r : r = To("s_header_field_start")
      OBVIOUS
    <3>2. Knows(r) /\ r.content_length = parser.content_length /\ r.state = "s_header_field_start"
      BY <1>2, <3>1 DEF To, IsStruct, Knows
    <3>3. t = [r EXCEPT !.flags = @ \cup {"F_TRAILING"}]
      BY <2>1, <3>1
    <3> HIDE DEF t
    <3> QED
      BY <3>2, <3>3 DEF Knows
  <2>2. CASE parser.content_length # 0
    BY <1>2, <2>2 DEF To, IsStruct, Knows
  <2> QED
    BY <2>1, <2>2
<1> HIDE DEF t
<1>6. /\ Knows(q) /\ q.state = t.state /\ q.flags = t.flags
      /\ q.content_length = parser.content_length
  BY <1>5 DEF Knows
<1> HIDE DEF q
<1>7. x.p = exec.p
  BY <1>2 DEF IsLocals
<1> HIDE DEF x
<1>8. CASE CALLBACK_NOTIFY(q, x, "chunk_header", exec.p + 1, Advance)
  <2>1. PICK y, l : exec' = y /\ log' = l
    OBVIOUS
  <2>2. log' = Record("chunk_header", exec.p, exec.p)
    BY <1>7, <1>8 DEF CALLBACK_NOTIFY
  <2>3. /\ parser'.state = q.state /\ parser'.flags = q.flags
        /\ parser'.content_length = q.content_length
    BY <1>6, <1>8 DEF CALLBACK_NOTIFY, Advance, Stop, Knows
  <2>4. PICK r : r = parser'
    OBVIOUS
  <2>5. CASE t.state = "s_header_field_start" /\ "F_TRAILING" \in t.flags
    <3>1. r.state \in LengthStates /\ "F_TRAILING" \in r.flags /\ r.state # "s_headers_done"
      BY <1>6, <2>3, <2>4, <2>5 DEF LengthStates, LineStartStates
    <3>2. LengthInv(r, y, l)
      BY <3>1, HeadHolds
    <3> QED
      BY <2>1, <2>4, <3>2 DEF LengthNext
  <2>6. CASE t.state = "s_chunk_data"
    <3>1. r.state = "s_chunk_data" /\ r.content_length = parser.content_length
      BY <1>6, <2>3, <2>4, <2>6
    <3>2. ChunkStated(r, y, l)
      BY <1>1, <2>1, <2>2, <3>1, ChunkHeaderStates
    <3>3. NoLengthYet(r) /\ SizeRead(r, y, l) /\ Held(r, y, l)
      BY <3>1 DEF NoLengthYet, FirstLineStates, BeginStates, UrlStates, UrlEndStates, SizeRead,
         Held, NameRead, NameFound, ValueRead, LengthStates, ValueEndStates, LineStartStates,
         DiscardStates
    <3> QED
      BY <2>1, <2>4, <3>2, <3>3 DEF LengthNext, LengthInv
  <2> QED
    BY <1>5, <2>5, <2>6
<1> QED
  BY <1>3, <1>4, <1>8

\* The bytes of a chunk are marked: its length is no longer that of its header.
LEMMA ChunkDataNext ==
  ASSUME IInv, LengthsInv, ChunkData PROVE LengthNext
<1>1. exec.pc = "switch" /\ parser.state = "s_chunk_data"
  BY DEF ChunkData, At_
<1>2. IsStruct(parser)
  BY <1>1, InHeader
<1> DEFINE n == ToRead
           x == BodyTaken
           q == [parser EXCEPT !.content_length = @ - n]
           s == IF q.content_length = 0 THEN "s_chunk_data_almost_done" ELSE q.state
           r == [q EXCEPT !.state = s]
<1>3. IsLocals(x) /\ x.marks["body"] # 0
  BY <1>1, BodyPlace
<1>4. Break(r, x)
  BY DEF ChunkData
<1> HIDE DEF n, x
<1>5. q.state = "s_chunk_data" /\ "state" \in DOMAIN q
  BY <1>1, <1>2 DEF IsStruct
<1>6. s \in {"s_chunk_data", "s_chunk_data_almost_done"}
  BY <1>5
<1> HIDE DEF q, s
<1>7. r.state = s
  BY <1>5
<1> HIDE DEF r
<1>8. PICK y : y = [x EXCEPT !.pc = "fetch", !.p = @ + 1]
  OBVIOUS
<1>9. parser' = r /\ exec' = y /\ y.marks["body"] # 0
  BY <1>3, <1>4, <1>8 DEF Break, Advance, IsLocals
<1>10. PICK l : l = log'
  OBVIOUS
<1>11. LengthInv(r, y, l)
  BY <1>6, <1>7, <1>9 DEF LengthInv, ChunkStated, NoLengthYet, FirstLineStates, BeginStates,
     UrlStates, UrlEndStates, SizeRead, Held, NameRead, NameFound, ValueRead, LengthStates,
     ValueEndStates, LineStartStates, DiscardStates
<1> QED
  BY <1>9, <1>10, <1>11 DEF LengthNext

LEMMA ChunkDataDoneNext ==
  ASSUME IInv, LengthsInv, ChunkDataDone PROVE LengthNext
<1>1. exec.pc = "switch" /\ parser.state = "s_chunk_data_done"
  BY DEF ChunkDataDone, At_
<1>2. /\ IsStruct(parser) /\ Knows(parser) /\ IsLocals(exec) /\ log \in History
      /\ exec.p \in Nat /\ "chunk_complete" \in CallbackNames
  BY <1>1, InHeader DEF CallbackNames, CallbackErrors
<1> DEFINE t == To("s_chunk_size_start")
           q == [t EXCEPT !.nread = 0]
           x == [exec EXCEPT !.nread = 0]
<1>3. \/ Fail(parser, exec, "STRICT")
      \/ CALLBACK_NOTIFY(q, x, "chunk_complete", exec.p + 1, Advance)
  BY DEF ChunkDataDone
<1>4. CASE Fail(parser, exec, "STRICT")
  BY <1>1, <1>2, <1>4, FailedNext
<1>5. CASE CALLBACK_NOTIFY(q, x, "chunk_complete", exec.p + 1, Advance)
  <2>1. Knows(t) /\ t.state = "s_chunk_size_start"
    BY <1>2 DEF To, IsStruct, Knows
  <2> HIDE DEF t
  <2>2. Knows(q) /\ q.state = "s_chunk_size_start"
    BY <2>1 DEF Knows
  <2> HIDE DEF q
  <2>3. {"pc", "p"} \subseteq DOMAIN x /\ x.p = exec.p
    BY <1>2 DEF IsLocals
  <2> HIDE DEF x
  <2>4. /\ log' = Record("chunk_complete", exec.p, exec.p)
        /\ Advance(q, x) \/ Stopped(q, x, "chunk_complete", exec.p + 1)
    BY <1>5, <2>3 DEF CALLBACK_NOTIFY, Stopped
  <2>5. CASE Stopped(q, x, "chunk_complete", exec.p + 1)
    BY <1>2, <2>2, <2>5, StoppedNext
  <2>6. CASE Advance(q, x)
    <3>1. PICK y, l : exec' = y /\ log' = l
      OBVIOUS
    <3>2. parser' = q /\ y.p = exec.p + 1
      BY <2>3, <2>6, <3>1 DEF Advance
    <3>3. l[Len(l)].to + 1 = y.p
      BY <1>2, <2>4, <3>1, <3>2, RecordEnds
    <3>4. SizeRead(q, y, l) /\ q.state \in SizeStates
      BY <2>2, <3>3 DEF SizeRead, SizeStates
    <3> QED
      BY <3>1, <3>2, <3>4, SizeHolds DEF LengthNext
  <2> QED
    BY <2>4, <2>5, <2>6
<1> QED
  BY <1>3, <1>4, <1>5

\* The other steps of a body lead to states of which nothing is asked.
LEMMA QuietNext ==
  ASSUME IInv, LengthsInv, BodyIdentity \/ BodyIdentityEof \/ MessageDone \/ ChunkDataAlmostDone
  PROVE  LengthNext
<1>1. exec.pc = "switch"
  BY DEF BodyIdentity, BodyIdentityEof, MessageDone, ChunkDataAlmostDone, At_
<1>2. IsStruct(parser) /\ Knows(parser) /\ \A s : Knows(To(s)) /\ To(s).state = s
  BY <1>1, InHeader, StructKnown
<1>3. CASE BodyIdentity
  <2> DEFINE n == ToRead
             q == [parser EXCEPT !.content_length = @ - n]
             r == [q EXCEPT !.state = "s_message_done"]
  <2>1. parser.state = "s_body_identity"
    BY <1>3 DEF BodyIdentity, At_
  <2>2. \/ CALLBACK_DATA(r, BodyTaken, "body", BodyTaken.p, BodyTaken.p, REEXECUTE)
        \/ Break(q, BodyTaken)
    BY <1>3 DEF BodyIdentity
  <2> HIDE DEF n
  <2>3. Knows(q) /\ q.state = "s_body_identity"
    BY <1>2, <2>1 DEF Knows
  <2> HIDE DEF q
  <2>4. Knows(r) /\ r.state = "s_message_done"
    BY <2>3 DEF Knows
  <2> HIDE DEF r
  <2>5. Early(q) /\ Early(r)
    BY <2>3, <2>4 DEF Early, QuietStates
  <2> QED
    BY <2>2, <2>3, <2>4, <2>5, EarlyNext
<1>4. CASE BodyIdentityEof
  <2>1. parser.state = "s_body_identity_eof"
    BY <1>4 DEF BodyIdentityEof, At_
  <2>2. \E x : Break(parser, x)
    BY <1>4 DEF BodyIdentityEof
  <2> QED
    BY <1>2, <2>1, <2>2, EarlyNext DEF Early, QuietStates
<1>5. CASE MessageDone
  <2> DEFINE s == NEW_MESSAGE(parser)
             over == To(s)
  <2>1. \/ CALLBACK_NOTIFY(over, exec, "message_complete", exec.p + 1, Leave)
        \/ CALLBACK_NOTIFY(over, exec, "message_complete", exec.p + 1, Advance)
    BY <1>5 DEF MessageDone, Leave
  <2>2. s \in StartStates
    BY NewMessageState
  <2> HIDE DEF s
  <2>3. Knows(over) /\ over.state = s
    BY <1>2
  <2> HIDE DEF over
  <2>4. Early(over)
    BY <2>2, <2>3 DEF Early, QuietStates
  <2> QED
    BY <2>1, <2>3, <2>4, EarlyNext
<1>6. CASE ChunkDataAlmostDone
  <2> DEFINE q == To("s_chunk_data_done")
  <2>1. parser.state = "s_chunk_data_almost_done"
    BY <1>6 DEF ChunkDataAlmostDone, At_
  <2>2. \/ Fail(parser, exec, "STRICT")
        \/ CALLBACK_DATA(q, exec, "body", exec.p - 1, exec.p + 1, Advance)
    BY <1>6 DEF ChunkDataAlmostDone
  <2>3. Knows(q) /\ q.state = "s_chunk_data_done"
    BY <1>2
  <2> HIDE DEF q
  <2>4. Early(q)
    BY <2>3 DEF Early, QuietStates
  <2>5. CASE Fail(parser, exec, "STRICT")
    BY <1>2, <2>1, <2>5, FailedNext
  <2>6. CASE CALLBACK_DATA(q, exec, "body", exec.p - 1, exec.p + 1, Advance)
    BY <2>3, <2>4, <2>6, EarlyNext
  <2> QED
    BY <2>2, <2>5, <2>6
<1> QED
  BY <1>3, <1>4, <1>5, <1>6

LEMMA BodyNext ==
  ASSUME IInv, LengthsInv, Body PROVE LengthNext
BY QuietNext, ChunkSizeStartNext, ChunkSizeNext, ChunkParametersNext, ChunkSizeAlmostDoneNext,
   ChunkDataNext, ChunkDataDoneNext DEF Body

-----------------------------------------------------------------------------
(* The call. *)

LEMMA FirstLinesNext ==
  ASSUME IInv, LengthsInv, FirstLine PROVE LengthNext
BY StartNext, LiteralNextHolds, FirstLineNext DEF FirstLine

\* A step that changes no more than the place of the call.
LEMMA PlaceNext ==
  ASSUME LengthsInv, SameLength(parser, parser'), SamePlace(exec, exec'),
         parser'.errno = "OK" => parser.errno = "OK", log' = log
  PROVE  LengthNext
BY PlaceHolds DEF LengthsInv, LengthNext

LEMMA FetchNext ==
  ASSUME IInv, LengthsInv, Fetch PROVE LengthNext
<1>1. IsLocals(exec) /\ Knows(parser)
  BY InCall, StructKnown
<1>2. \/ Again(parser, exec)
      \/ Again(parser, Counted(exec, 1))
      \/ parser.state # "s_chunk_data" /\ Fail(parser, Counted(exec, 1), "HEADER_OVERFLOW")
  BY DEF Fetch, PARSING_HEADER, BodyStates
<1>3. CASE Again(parser, exec) \/ Again(parser, Counted(exec, 1))
  <2>1. parser' = parser /\ log' = log /\ exec'.p = exec.p /\ exec'.marks = exec.marks
    <3>1. CASE Again(parser, exec)
      BY <1>1, <3>1 DEF Again, REEXECUTE, IsLocals
    <3>2. CASE Again(parser, Counted(exec, 1))
      BY <1>1, <3>2 DEF Again, REEXECUTE, Counted, IsLocals
    <3> QED
      BY <1>3, <3>1, <3>2
  <2>2. SameLength(parser, parser') /\ SamePlace(exec, exec')
    BY <2>1 DEF SameLength, SamePlace, Cur
  <2> QED
    BY <2>1, <2>2, PlaceNext
<1>4. CASE parser.state # "s_chunk_data" /\ Fail(parser, Counted(exec, 1), "HEADER_OVERFLOW")
  BY <1>1, <1>4, FailedNext
<1> QED
  BY <1>2, <1>3, <1>4

LEMMA ExecuteNext ==
  ASSUME IInv, LengthsInv, NEW n \in Pieces, Execute(n) PROVE LengthNext
<1>1. /\ IsLocals(exec) /\ exec.pc = "idle" /\ parser' = parser /\ log' = log
      /\ \A m \in DataKinds : exec.marks[m] = 0
  BY InCall DEF Execute, Continues, Place, CallPcs
<1>2. exec.marks["body"] = 0 /\ exec.marks["header_field"] = 0 /\ exec.marks["header_value"] = 0
  BY <1>1 DEF DataKinds
<1>3. SameLength(parser, parser')
  BY <1>1 DEF SameLength
<1>4. CASE parser.errno # "OK"
  <2>1. exec'.marks = exec.marks
    BY <1>1, <1>4 DEF Execute, IsLocals
  <2>2. ChunkStated(parser, exec, log)
    BY DEF LengthsInv, LengthInv
  <2>3. ChunkStated(parser', exec', log')
    BY <1>1, <2>1, <2>2 DEF ChunkStated
  <2> QED
    BY <1>1, <1>4, <2>3 DEF LengthNext, LengthInv
<1>5. CASE parser.errno = "OK"
  <2> DEFINE marks == Marked(MarkOfState(parser.state))
  <2>1. exec'.p = exec.p /\ exec'.marks = marks
    BY <1>1, <1>5 DEF Execute, IsLocals
  <2>2. \A m \in DataKinds : marks[m] = 0 \/ marks[m] = exec.p
    BY DataNames DEF Marked
  <2> HIDE DEF marks
  <2>3. /\ marks["header_field"] = 0 \/ marks["header_field"] = exec.p
        /\ marks["header_value"] = 0 \/ marks["header_value"] = exec.p
    BY <2>2 DEF DataKinds
  <2>4. SamePlace(exec, exec')
    BY <1>2, <2>1, <2>3 DEF SamePlace, Cur
  <2> QED
    BY <1>1, <1>3, <2>4, PlaceNext
<1> QED
  BY <1>4, <1>5

LEMMA ExecuteEofNext ==
  ASSUME IInv, LengthsInv, ExecuteEof PROVE LengthNext
<1>1. IsLocals(exec) /\ Knows(parser)
  BY InCall, StructKnown
<1>2. SamePlace(exec, exec')
  <2>1. exec'.p = exec.p /\ exec'.marks = exec.marks
    BY <1>1 DEF ExecuteEof, IsLocals
  <2> QED
    BY <2>1 DEF SamePlace, Cur
<1>3. \/ parser' = parser /\ log' = log
      \/ parser' = [parser EXCEPT !.errno = "INVALID_EOF_STATE"] /\ log' = log
      \/ parser.state = "s_body_identity_eof" /\ \E e : parser' = [parser EXCEPT !.errno = e]
  BY DEF ExecuteEof
<1>4. CASE parser' = parser /\ log' = log
  BY <1>2, <1>4, PlaceNext DEF SameLength
<1>5. CASE parser' = [parser EXCEPT !.errno = "INVALID_EOF_STATE"] /\ log' = log
  <2>1. SameLength(parser, parser') /\ parser'.errno = "INVALID_EOF_STATE"
    BY <1>1, <1>5 DEF SameLength, Knows
  <2> QED
    BY <1>2, <1>5, <2>1, PlaceNext
<1>6. CASE parser.state = "s_body_identity_eof" /\ \E e : parser' = [parser EXCEPT !.errno = e]
  <2>1. parser'.state = "s_body_identity_eof"
    BY <1>1, <1>6 DEF Knows
  <2> QED
    BY <2>1, NextHolds DEF Early, QuietStates
<1> QED
  BY <1>3, <1>4, <1>5, <1>6

\* What is logged up to the end of a piece goes on at the start of the next.
LEMMA GoesOn ==
  ASSUME log \in History, NEW data \in CallbackNames, NEW at, NEW to, NEW l, l = Record(data, at, to),
         NEW p, p = to + 1
  PROVE  Before(l, data, p) = Before(log, data, at) /\ Began(l, data, p) = Began(log, data, at)
<1>1. PICK b : b = Before(log, data, at)
  OBVIOUS
<1>2. /\ b \in Nat /\ Len(l) = b + 1 /\ l[b + 1].callback = data
      /\ l[b + 1].from = Began(log, data, at) /\ l[b + 1].to = to
  BY <1>1, RecordGrown
<1>3. LastOf(l) = data
  <2>1. l # <<>>
    BY <1>2
  <2> QED
    BY <1>2, <2>1 DEF LastOf, Last
<1>4. Joins(l, data, p)
  BY <1>2, <1>3 DEF Joins
<1> QED
  BY <1>1, <1>2, <1>4 DEF Before, Began

\* A name that is cut is read on in the next piece.
LEMMA NameCut ==
  ASSUME IInv, LengthsInv, parser.errno = "OK", parser.state = "s_header_field",
         exec.marks["header_field"] # 0,
         log' = Record("header_field", exec.marks["header_field"], exec.end),
         exec.p = exec.end + 1, parser' = parser,
         NEW y, exec' = y, y.p = exec.p, y.marks["header_field"] = 0
  PROVE  LengthNext
<1>0. "header_field" \in CallbackNames /\ log \in History
  BY InCall DEF CallbackNames, CallbackErrors
<1>1. PICK l : l = log'
  OBVIOUS
<1>2. PICK at : at = exec.marks["header_field"]
  OBVIOUS
<1>3. PICK end : end = exec.end
  OBVIOUS
<1>4. l = Record("header_field", at, end) /\ y.p = end + 1
  BY <1>1, <1>2, <1>3
<1>5. Cur(exec, "header_field") = at /\ Cur(y, "header_field") = y.p
  BY <1>2 DEF Cur
<1>6. Began(l, "header_field", y.p) = Began(log, "header_field", at)
  BY <1>0, <1>4, GoesOn
<1> SUFFICES ASSUME "F_TRAILING" \notin parser.flags PROVE Held(parser, y, l)
  BY <1>1, HeldNext DEF LengthStates
<1>7. Held(parser, exec, log)
  BY DEF LengthsInv, LengthInv
<1>8. NameRead(parser, y, l)
  BY <1>5, <1>6, <1>7 DEF Held, NameRead
<1>9. NameFound(parser, l)
  BY DEF NameFound, DiscardStates, ValueEndStates
<1>10. ASSUME "F_CONTENTLENGTH" \in parser.flags PROVE Stated(parser, y, l)
  <2>1. Stated(parser, exec, log)
    BY <1>7, <1>10 DEF Held, ValueRead, LengthStates
  <2> QED
    BY <1>0, <1>4, <2>1, StatedAfter
<1> QED
  BY <1>8, <1>9, <1>10 DEF Held, ValueRead

\* So is a value.
LEMMA ValueCut ==
  ASSUME IInv, LengthsInv, parser.errno = "OK", parser.state = "s_header_value",
         exec.marks["header_value"] # 0,
         log' = Record("header_value", exec.marks["header_value"], exec.end),
         exec.p = exec.end + 1, parser' = parser,
         NEW y, exec' = y, y.p = exec.p, y.marks["header_value"] = 0
  PROVE  LengthNext
<1>0. "header_value" \in CallbackNames /\ "header_value" # "message_begin" /\ log \in History
  BY InCall DEF CallbackNames, CallbackErrors
<1>1. PICK l : l = log'
  OBVIOUS
<1>2. PICK at : at = exec.marks["header_value"]
  OBVIOUS
<1>3. PICK end : end = exec.end
  OBVIOUS
<1>4. l = Record("header_value", at, end) /\ y.p = end + 1
  BY <1>1, <1>2, <1>3
<1>5. Cur(exec, "header_value") = at /\ Cur(y, "header_value") = y.p
  BY <1>2 DEF Cur
<1>6. /\ Began(l, "header_value", y.p) = Began(log, "header_value", at)
      /\ Before(l, "header_value", y.p) = Before(log, "header_value", at)
  BY <1>0, <1>4, GoesOn
<1> SUFFICES ASSUME "F_TRAILING" \notin parser.flags PROVE Held(parser, y, l)
  BY <1>1, HeldNext DEF LengthStates
<1>7. Held(parser, exec, log)
  BY DEF LengthsInv, LengthInv
<1>8. Reading(parser, exec, log) => Reading(parser, y, l)
  <2> SUFFICES ASSUME Reading(parser, exec, log) PROVE Reading(parser, y, l)
    OBVIOUS
  <2>1. PICK b : b = Before(log, "header_value", at)
    OBVIOUS
  <2>2. NameAt(log, b)
    BY <1>5, <2>1 DEF Reading
  <2>3. b \in 1..Before(log, "header_value", at)
    <3>1. b \in Nat
      BY <1>0, <1>4, <2>1, RecordGrown
    <3> QED
      BY <2>1, <2>2, <3>1 DEF NameAt
  <2>4. NameAt(l, b)
    BY <1>0, <1>4, <2>2, <2>3, NameKept
  <2> QED
    BY <1>5, <1>6, <2>1, <2>4 DEF Reading
<1>9. Stated(parser, exec, log) => Stated(parser, y, l)
  BY <1>0, <1>4, <1>5, StatedAfter
<1>10. NameRead(parser, y, l)
  BY DEF NameRead
<1>11. NameFound(parser, l)
  BY <1>7 DEF Held, NameFound, DiscardStates
<1>12. ValueRead(parser, y, l)
  BY <1>7, <1>8, <1>9 DEF Held, ValueRead
<1> QED
  BY <1>10, <1>11, <1>12 DEF Held

LEMMA EndOfPieceNext ==
  ASSUME IgnoresResult, IInv, LengthsInv, EndOfPiece PROVE LengthNext
<1>1. /\ exec.pc = "fetch" /\ parser.errno = "OK" /\ exec.p = exec.end + 1 /\ exec.end \in Nat
      /\ IsLocals(exec) /\ Knows(parser) /\ Marking(parser, exec, LastOf(log))
      /\ log \in History /\ exec.end \in Nat
  <2>1. /\ exec.pc = "fetch" /\ exec.p > exec.end /\ exec.p <= exec.end + 1 /\ log \in History
        /\ IsLocals(exec) /\ Len(stream) \in Nat /\ Sound(parser, exec, LastOf(log))
        /\ parser.errno = "OK"
    BY InCall DEF EndOfPiece, Place, CallPcs
  <2>2. exec.p \in Nat /\ exec.end \in Nat
    BY <2>1 DEF IsLocals
  <2>3. exec.p = exec.end + 1
    BY <2>1, <2>2
  <2> QED
    BY <2>1, <2>2, <2>3, StructKnown DEF Sound
<1>2. \/ /\ \A m \in DataKinds : exec.marks[m] = 0
         /\ RETURN(parser, exec, exec.end + 1) /\ log' = log
      \/ \E m \in DataKinds :
           /\ exec.marks[m] # 0 /\ log' = Record(m, exec.marks[m], exec.end)
           /\ \/ parser' = parser /\ exec' = Unmark(exec, m)
              \/ Stopped(parser, exec, m, exec.end + 1)
  BY DataNames DEF EndOfPiece, CALLBACK_DATA, Stopped, Unmark
<1>3. CASE /\ \A m \in DataKinds : exec.marks[m] = 0
           /\ RETURN(parser, exec, exec.end + 1) /\ log' = log
  <2>1. exec'.p = exec.p /\ exec'.marks = NoMarks
    BY <1>1, <1>3 DEF RETURN, Returned, IsLocals
  <2>2. /\ exec.marks["body"] = 0 /\ exec.marks["header_field"] = 0
        /\ exec.marks["header_value"] = 0
        /\ NoMarks["body"] = 0 /\ NoMarks["header_field"] = 0 /\ NoMarks["header_value"] = 0
    BY <1>3, NoMarksZero DEF DataKinds
  <2>3. SamePlace(exec, exec')
    BY <2>1, <2>2 DEF SamePlace, Cur
  <2>4. SameLength(parser, parser') /\ parser'.errno = parser.errno
    BY <1>1, <1>3 DEF RETURN, SameLength, Knows
  <2> QED
    BY <1>3, <2>3, <2>4, PlaceNext
<1>4. ASSUME NEW m \in DataKinds, exec.marks[m] # 0, log' = Record(m, exec.marks[m], exec.end),
             \/ parser' = parser /\ exec' = Unmark(exec, m)
             \/ Stopped(parser, exec, m, exec.end + 1)
      PROVE  LengthNext
  <2>1. m = DatumOf(parser.state) /\ m \in CallbackNames
    BY <1>1, <1>4 DEF Marking, DataKinds, CallbackNames, CallbackErrors
  <2>2. CASE m = "body"
    <3>1. parser.state \in BodyMarkStates
      BY <2>1, <2>2 DEF DatumOf, MarkOfState
    <3>2. parser'.state = parser.state
      BY <1>1, <1>4 DEF Stopped, Stop, Knows
    <3>3. CASE parser.state # "s_chunk_data"
      BY <3>1, <3>2, <3>3, NextHolds DEF Early, QuietStates, BodyMarkStates
    <3>4. CASE parser.state = "s_chunk_data"
      <4>1. exec.marks[m] \in Nat
        BY <1>1, InCall DEF IsLocals
      <4>2. log' # <<>> /\ Last(log').callback = "body"
        BY <1>1, <1>4, <2>1, <2>2, <4>1, RecordStep
      <4>3. parser'.state = "s_chunk_data" /\ ChunkStated(parser', exec', log')
        BY <3>2, <3>4, <4>2 DEF ChunkStated
      <4> QED
        BY <4>3 DEF LengthNext, LengthInv, NoLengthYet, FirstLineStates, SizeRead, Held, NameRead,
           NameFound, ValueRead, BeginStates, UrlStates, UrlEndStates, LengthStates,
           ValueEndStates, LineStartStates, DiscardStates
    <3> QED
      BY <3>3, <3>4
  <2>3. CASE m \in {"url", "status"}
    <3>1. parser.state \in UrlStates \cup {"s_res_status"}
      BY <2>1, <2>3 DEF DatumOf, MarkOfState
    <3>2. "F_CONTENTLENGTH" \notin parser.flags
      BY <1>1, <3>1 DEF LengthsInv, LengthInv, NoLengthYet, FirstLineStates
    <3>3. parser'.state = parser.state /\ parser'.flags = parser.flags
      BY <1>1, <1>4 DEF Stopped, Stop, Knows
    <3> QED
      BY <3>1, <3>2, <3>3, NextHolds DEF Early, FirstLineStates
  <2>4. CASE m = "header_field"
    <3>1. parser.state = "s_header_field"
      BY <2>1, <2>4 DEF DatumOf, MarkOfState
    <3>2. CASE Stopped(parser, exec, m, exec.end + 1)
      BY <1>1, <2>1, <3>1, <3>2, StoppedNext
    <3>3. CASE parser' = parser /\ exec' = Unmark(exec, m)
      <4>1. exec'.p = exec.p /\ exec'.marks[m] = 0
        BY <1>1, <3>3 DEF Unmark, IsLocals
      <4> QED
        BY <1>1, <1>4, <2>4, <3>1, <3>3, <4>1, NameCut
    <3> QED
      BY <1>4, <3>2, <3>3
  <2>5. CASE m = "header_value"
    <3>1. parser.state = "s_header_value"
      BY <2>1, <2>5 DEF DatumOf, MarkOfState
    <3>2. CASE Stopped(parser, exec, m, exec.end + 1)
      BY <1>1, <2>1, <3>1, <3>2, StoppedNext
    <3>3. CASE parser' = parser /\ exec' = Unmark(exec, m)
      <4>1. exec'.p = exec.p /\ exec'.marks[m] = 0
        BY <1>1, <3>3 DEF Unmark, IsLocals
      <4> QED
        BY <1>1, <1>4, <2>5, <3>1, <3>3, <4>1, ValueCut
    <3> QED
      BY <1>4, <3>2, <3>3
  <2> QED
    BY <2>2, <2>3, <2>4, <2>5 DEF DataKinds
<1> QED
  BY <1>2, <1>3, <1>4

-----------------------------------------------------------------------------
(* What the invariant says of a length. *)

LEMMA LeastOfFirst ==
  ASSUME NEW m \in Nat, m >= 1
  PROVE  Min(1..m) = 1 /\ Max(1..m) = m /\ 1..m # {}
<1>1. 1 \in 1..m /\ m \in 1..m /\ 1..m \subseteq Nat /\ 1..m \subseteq Int
  OBVIOUS
<1>2. Max(1..m) = m
  BY <1>1, Greatest
<1>3. Min(1..m) \in 1..m /\ \A y \in 1..m : Min(1..m) <= y
  BY <1>1, LeastNatural
<1> QED
  BY <1>1, <1>2, <1>3

\* A blank is no letter.
LEMMA LoweredBlank == Lowered(" ") = " "
<1>1. PICK c : c = " "
  OBVIOUS
<1>2. ASSUME NEW k \in DOMAIN Lowercase PROVE Lowercase[k] # c
  <2>1. Lowercase[k] \in {"a", "b", "c", "d", "e", "f", "g", "h", "i", "j", "k", "l", "m", "n",
                          "o", "p", "q", "r", "s", "t", "u", "v", "w", "x", "y", "z"}
    BY DEF Lowercase
  <2> QED
    BY <1>1, <2>1, Zenon
<1>3. ASSUME NEW k \in DOMAIN Uppercase PROVE Uppercase[k] # c
  <2>1. Uppercase[k] \in {"A", "B", "C", "D", "E", "F", "G", "H", "I", "J", "K", "L", "M", "N",
                          "O", "P", "Q", "R", "S", "T", "U", "V", "W", "X", "Y", "Z"}
    BY DEF Uppercase
  <2> QED
    BY <1>1, <2>1, Zenon
<1>4. Lowered(c) = c
  BY <1>2, <1>3 DEF Lowered, IS_ALPHA, LetterSet, Range
<1> QED
  BY <1>1, <1>4

\* The blanks around a number are no part of it.
LEMMA NumeralText ==
  ASSUME NEW first, NEW d, NEW to \in Nat, NEW v, Numeral(first, d, to, v)
  PROVE  DecimalOf(TextIn(first, to)) = v
<1>0. /\ \A k \in first..d : IS_NUM(stream[k])
      /\ \A k \in d + 1..to : stream[k] = " "
      /\ v = Decimal(TextIn(first, d))
  BY DEF Numeral, Blank
<1>1. first \in Nat \ {0} /\ d \in Nat /\ first <= d /\ d <= to
  <2>1. first \in Nat \ {0} /\ d \in first..to
    BY Zenon DEF Numeral, Blank
  <2> QED
    BY <2>1
<1>2. PICK m \in Nat : m = d + 1 - first /\ m >= 1
  BY <1>1
<1>3. PICK n \in Nat : n = to + 1 - first /\ n >= m
  BY <1>1, <1>2
<1>4. PICK text : text = TextIn(first, to)
  OBVIOUS
<1>5. DOMAIN text = 1..n /\ \A i \in 1..n : text[i] = Lowered(stream[first + i - 1])
  BY <1>3, <1>4 DEF TextIn
<1>6. ASSUME NEW i \in 1..m PROVE text[i] # " "
  <2>1. first + i - 1 \in first..d /\ i \in 1..n
    BY <1>1, <1>2, <1>3
  <2>2. text[i] = stream[first + i - 1] /\ IS_NUM(text[i])
    BY <1>0, <1>5, <2>1, LoweredDigit
  <2> QED
    BY <2>2, NoDigit
<1>7. ASSUME NEW i \in 1..n, i > m PROVE text[i] = " "
  <2>1. first + i - 1 \in d + 1..to
    BY <1>1, <1>2, <1>3, <1>7
  <2>2. text[i] = Lowered(stream[first + i - 1])
    BY <1>3, <1>5
  <2> QED
    BY <1>0, <2>1, <2>2, LoweredBlank, Zenon
<1>8. {i \in DOMAIN text : text[i] \notin {" "}} = 1..m
  <2>1. \A i \in 1..n : text[i] \notin {" "} <=> i \in 1..m
    <3>1. ASSUME NEW i \in 1..n PROVE i \in 1..m \/ i > m
      OBVIOUS
    <3> QED
      BY <1>6, <1>7, <3>1
  <2>2. 1..m \subseteq 1..n
    BY <1>3
  <2> QED
    BY <1>5, <2>1, <2>2
<1>9. Trimmed(text, {" "}) = SubSeq(text, 1, m)
  <2>1. Min(1..m) = 1 /\ Max(1..m) = m /\ 1..m # {}
    BY <1>2, LeastOfFirst
  <2> QED
    BY <1>8, <2>1 DEF Trimmed
<1>10. PICK u : u = SubSeq(text, 1, m)
  OBVIOUS
<1>11. u = TextIn(first, d)
  <2> DEFINE S == {text[k] : k \in 1..m}
  <2>1. \A k \in 1..m : text[k] \in S
    OBVIOUS
  <2> HIDE DEF S
  <2>2. /\ u \in Seq(S) /\ Len(u) = IF 1 <= m THEN m - 1 + 1 ELSE 0
        /\ \A k \in 1..m - 1 + 1 : u[k] = text[1 + k - 1]
    BY <1>10, <2>1, SubSeqProperties
  <2>3. Len(u) = m /\ \A k \in 1..m : u[k] = text[k]
    BY <1>2, <2>2
  <2>4. u = [k \in 1..m |-> u[k]]
    BY <2>2, <2>3
  <2>5. \A k \in 1..m : u[k] = Lowered(stream[first + k - 1])
    BY <1>3, <1>5, <2>3
  <2>6. TextIn(first, d) = [k \in 1..m |-> Lowered(stream[first + k - 1])]
    BY <1>2 DEF TextIn
  <2> QED
    BY <2>4, <2>5, <2>6
<1>12. DecimalOf(text) = Decimal(u)
  BY <1>9, <1>10, Zenon DEF DecimalOf, Decimal
<1> QED
  BY <1>0, <1>4, <1>11, <1>12

-----------------------------------------------------------------------------
(* The theorem. *)

LEMMA InitLengths == Init => LengthsInv
<1> SUFFICES ASSUME Init PROVE LengthsInv
  OBVIOUS
<1>1. parser.state \in StartStates
  BY DEF Init, http_parser_init, start_state, StartStates
<1> QED
  BY <1>1, QuietHolds DEF LengthsInv, QuietStates

\* The invariant says the same of a stream that stays.
LEMMA SameStream ==
  ASSUME LengthNext, stream' = stream
  PROVE  LengthsInv'
<1>1. SizeRead(parser', exec', log') => SizeRead(parser, exec, log)'
  BY DEF SizeRead
<1>2. ChunkStated(parser', exec', log') => ChunkStated(parser, exec, log)'
  BY DEF ChunkStated
<1>3. NameRead(parser', exec', log') => NameRead(parser, exec, log)'
  BY DEF NameRead
<1>4. NameFound(parser', log') => NameFound(parser, log)'
  BY DEF NameFound, NameAt, TextIn
<1>5. ValueRead(parser', exec', log') => ValueRead(parser, exec, log)'
  <2>1. Reading(parser', exec', log') => Reading(parser, exec, log)'
    BY DEF Reading, NameAt, Numeral, TextIn
  <2>2. Stated(parser', exec', log') => Stated(parser, exec, log)'
    BY DEF Stated, States_, NameAt, Numeral, TextIn
  <2> QED
    BY <2>1, <2>2 DEF ValueRead
<1> QED
  BY <1>1, <1>2, <1>3, <1>4, <1>5 DEF LengthNext, LengthsInv, LengthInv, Held

LEMMA StepLengths ==
  ASSUME IgnoresResult
  PROVE  IInv /\ IInv' /\ LimitInv /\ LimitInv' /\ LengthsInv /\ [Next]_vars => LengthsInv'
<1> SUFFICES ASSUME IInv, LimitInv', LengthsInv, [Next]_vars PROVE LengthsInv'
  OBVIOUS
<1>1. stream' = stream
  BY DEF Next, Running, Calling, Finished, vars
<1>2. LengthNext
  <2>1. CASE Running
    BY <2>1, FetchNext, EndOfPieceNext, FirstLinesNext, HeadersNext, BodyNext DEF Running
  <2>2. CASE Calling
    <3>1. ~Resume
      BY DEF Resume
    <3> QED
      BY <2>2, <3>1, ExecuteNext, ExecuteEofNext DEF Calling
  <2>3. CASE UNCHANGED vars
    BY <2>3 DEF vars, LengthsInv, LengthNext
  <2> QED
    BY <2>1, <2>2, <2>3 DEF Next, Finished
<1> QED
  BY <1>1, <1>2, SameStream

\* The length of a header is the one its value states.
LEMMA HeaderLength ==
  ASSUME IInv, LengthsInv, At_({"s_headers_done"}), Has(parser, "F_CONTENTLENGTH")
  PROVE  \E i \in BeginOf(Len(log))..Len(log) - 1 :
           /\ log[i].callback = "header_field" /\ Text(i) = Chars("content-length")
           /\ parser.content_length = DecimalOf(Text(i + 1)) /\ parser.content_length < MaxLength
<1>1. /\ exec.pc = "switch" /\ parser.state = "s_headers_done"
      /\ "F_CONTENTLENGTH" \in parser.flags
  BY DEF At_, Has
<1>2. Held(parser, exec, log) /\ log \in History /\ Len(log) \in Nat
  BY <1>1, InHeader DEF Settled, NoTrailers
<1>3. Stated(parser, exec, log)
  BY <1>1, <1>2 DEF Held, ValueRead, LengthStates
<1>4. PICK v : v = parser.content_length
  OBVIOUS
<1>5. PICK i \in 1..Len(log) : States_(log, i, v)
  BY <1>3, <1>4 DEF Stated
<1>6. /\ i + 1 \in 1..Len(log) /\ NameAt(log, i)
      /\ \E d \in log[i + 1].from..log[i + 1].to :
           Numeral(log[i + 1].from, d, log[i + 1].to, v)
  BY <1>5 DEF States_
<1>7. /\ BeginIn(log, Len(log)) <= i /\ log[i].callback = "header_field"
      /\ TextIn(log[i].from, log[i].to) = LengthName
  BY <1>6 DEF NameAt
<1>8. \A k : Text(k) = TextIn(log[k].from, log[k].to)
  BY DEF Text, TextIn
<1>9. log[i + 1].to \in Nat
  BY <1>2, <1>6, EntryOf
<1>10. PICK d : Numeral(log[i + 1].from, d, log[i + 1].to, v)
  BY <1>6
<1>11. DecimalOf(Text(i + 1)) = v /\ v < MaxLength
  <2>1. DecimalOf(TextIn(log[i + 1].from, log[i + 1].to)) = v
    BY <1>9, <1>10, NumeralText
  <2>2. v < MaxLength
    BY <1>10, Zenon DEF Numeral
  <2> QED
    BY <1>8, <2>1, <2>2
<1>12. i \in BeginOf(Len(log))..Len(log) - 1
  BY <1>2, <1>6, <1>7 DEF BeginOf, BeginIn
<1> QED
  BY <1>4, <1>7, <1>8, <1>11, <1>12 DEF LengthName

\* The length of a body is the number its header states in decimal digits, that
\* of a chunk the number before it in hexadecimal ones, both in unbounded
\* arithmetic, whatever the stream, the pieces it is cut into and the answers of
\* the callbacks: the conservative test before each digit (http_parser.c:1561-1566
\* and 2039-2044) keeps the 64 bits from wrapping and from coming to the value
\* that means no length.
THEOREM LengthsRead == ASSUME IgnoresResult PROVE Spec => []LengthsDoNotWrap
<1>1. IInv /\ LengthsInv => LengthsDoNotWrap
  <2> SUFFICES ASSUME IInv, LengthsInv PROVE LengthsDoNotWrap
    OBVIOUS
  <2>1. ChunkStated(parser, exec, log)
    BY DEF LengthsInv, LengthInv
  <2> QED
    BY <2>1, HeaderLength DEF LengthsDoNotWrap, ChunkStated
<1>2. Init /\ [][Next]_vars => []LengthsInv
  <2>1. Init /\ [][Next]_vars => []IInv
    BY InitIInv, StepIInv, PTL
  <2>2. Init /\ [][Next]_vars => []LimitInv
    BY <2>1, InitLimit, StepLimit, PTL
  <2> QED
    BY <2>1, <2>2, InitLengths, StepLengths, PTL
<1> QED
  BY <1>1, <1>2, Invariance, PTL DEF Spec
=============================================================================
