------------------------ MODULE StringTraits_proofs ------------------------
(***************************************************************************)
(* The conversions of query arguments do what ArgumentsConvert says, for   *)
(* every text and all limits of the types.                                 *)
(*                                                                         *)
(* Two things have to be shown of an unsigned argument.  The text is       *)
(* written as a number in at most one way, and strto takes it to its end   *)
(* just if it is (TakenIsWritten, WrittenIsTaken).  And the magnitude,     *)
(* which strto computes from digit to digit, is the sum of the digits,     *)
(* each times a power of the base (PlaceValues).                           *)
(***************************************************************************)
EXTENDS StringTraits, TLAPS, SequenceTheorems, WellFoundedInduction
-----------------------------------------------------------------------------
(* Folds.  A fold over a sequence is a chosen function on the sets of its   *)
(* places; it exists by induction on the length of the sequence.            *)

NatLess == {ss \in Nat \X Nat : ss[1] < ss[2]}

LEMMA LeastNatural ==
  ASSUME NEW S, S \subseteq Nat, S # {}
  PROVE  \E x \in S : \A y \in S : x <= y
<1>1. IsWellFoundedOn(NatLess, Nat)
  BY NatLessThanWellFounded DEF OpToRel, NatLess
<1>2. PICK x \in S : \A y \in S : <<y, x>> \notin NatLess
  BY <1>1, WFMin
<1>3. ASSUME NEW y \in S PROVE x <= y
  <2>1. ~(<<y, x>>[1] < <<y, x>>[2])
    BY <1>2 DEF NatLess
  <2> QED
    BY <2>1
<1> QED
  BY <1>3

LEMMA Induction ==
  ASSUME NEW S, 0 \in S, \A n \in Nat : n \in S => n + 1 \in S
  PROVE  Nat \subseteq S
<1>1. SUFFICES ASSUME Nat \ S # {} PROVE FALSE
  OBVIOUS
<1>2. PICK m \in Nat \ S : \A y \in Nat \ S : m <= y
  BY <1>1, LeastNatural
<1>3. m # 0
  OBVIOUS
<1>4. m - 1 \in Nat \ S
  BY <1>3
<1> QED
  BY <1>2, <1>4

LEMMA Greatest ==
  ASSUME NEW S, S \subseteq Int, NEW m \in S, \A x \in S : x <= m
  PROVE  Max(S) = m
<1>1. \E x \in S : \A y \in S : x >= y
  OBVIOUS
<1>2. PICK x : x = Max(S)
  OBVIOUS
<1>3. x \in S /\ \A y \in S : x >= y
  BY <1>1, <1>2 DEF Max
<1> QED
  BY <1>2, <1>3

LEMMA LastPlace ==
  ASSUME NEW n \in Nat, NEW k \in 1..n
  PROVE  /\ 1..k # {} /\ 1..k \in SUBSET (1..n)
         /\ Max(1..k) = k /\ (1..k) \ {k} = 1..k - 1
<1>1. Max(1..k) = k
  <2>1. 1..k \subseteq Int /\ k \in 1..k /\ \A x \in 1..k : x <= k
    OBVIOUS
  <2> QED
    BY <2>1, Greatest
<1> QED
  BY <1>1

\* The greatest of some places is one of them.
LEMMA GreatestOfSome ==
  ASSUME NEW n \in Nat, NEW t \in SUBSET (1..n), t # {}
  PROVE  Max(t) \in 1..n
<1> DEFINE S == {m \in Nat : \A u \in SUBSET (1..m) : u # {} => Max(u) \in u}
<1>1. 0 \in S
  <2>1. \A u \in SUBSET (1..0) : u = {}
    OBVIOUS
  <2> QED
    BY <2>1
<1>2. ASSUME NEW m \in Nat, m \in S PROVE m + 1 \in S
  <2>1. SUFFICES ASSUME NEW u \in SUBSET (1..m + 1), u # {} PROVE Max(u) \in u
    OBVIOUS
  <2>2. CASE m + 1 \in u
    <3>1. u \subseteq Int /\ \A x \in u : x <= m + 1
      OBVIOUS
    <3> QED
      BY <2>2, <3>1, Greatest
  <2>3. CASE m + 1 \notin u
    <3>1. u \in SUBSET (1..m)
      BY <2>3
    <3> QED
      BY <1>2, <2>1, <3>1
  <2> QED
    BY <2>2, <2>3
<1> HIDE DEF S
<1>3. n \in S
  BY <1>1, <1>2, Induction
<1>4. Max(t) \in t
  BY <1>3 DEF S
<1> QED
  BY <1>4

\* A fold from c on, whose step at place k makes F[<<v, k>>] of the value v.
Steps(c, F, n, h) ==
  \A t \in SUBSET (1..n) : h[t] = IF t = {} THEN c ELSE F[<<h[t \ {Max(t)}], Max(t)>>]
FoldExists(A, c, F, n) == \E h \in [SUBSET (1..n) -> A] : Steps(c, F, n, h)

LEMMA StepsExist ==
  ASSUME NEW A, NEW c \in A, NEW n \in Nat, NEW F \in [A \X (1..n) -> A]
  PROVE  FoldExists(A, c, F, n)
<1> DEFINE S == {m \in Nat : m <= n => FoldExists(A, c, F, m)}
<1>1. 0 \in S
  <2> DEFINE h == [t \in SUBSET (1..0) |-> c]
  <2>1. \A t \in SUBSET (1..0) : t = {}
    OBVIOUS
  <2>2. h \in [SUBSET (1..0) -> A] /\ Steps(c, F, 0, h)
    BY <2>1 DEF Steps
  <2> HIDE DEF h
  <2>3. FoldExists(A, c, F, 0)
    BY <2>2 DEF FoldExists
  <2> QED
    BY <2>3
<1>2. ASSUME NEW m \in Nat, m \in S PROVE m + 1 \in S
  <2>1. SUFFICES ASSUME m + 1 <= n PROVE FoldExists(A, c, F, m + 1)
    OBVIOUS
  <2>2. PICK g \in [SUBSET (1..m) -> A] : Steps(c, F, m, g)
    <3>1. FoldExists(A, c, F, m)
      BY <1>2, <2>1
    <3> QED
      BY <3>1 DEF FoldExists
  <2> DEFINE h == [t \in SUBSET (1..m + 1) |->
                     IF m + 1 \in t THEN F[<<g[t \ {m + 1}], m + 1>>] ELSE g[t]]
  <2>3. \A t \in SUBSET (1..m + 1) : t \ {m + 1} \in SUBSET (1..m)
    OBVIOUS
  <2>4. \A t \in SUBSET (1..m + 1) : m + 1 \notin t => t \in SUBSET (1..m)
    OBVIOUS
  <2>5. \A u \in SUBSET (1..m) : F[<<g[u], m + 1>>] \in A
    <3>1. m + 1 \in 1..n
      BY <2>1
    <3>2. \A u \in SUBSET (1..m) : <<g[u], m + 1>> \in A \X (1..n)
      BY <3>1
    <3> QED
      BY <3>2
  <2>6. h \in [SUBSET (1..m + 1) -> A]
    BY <2>3, <2>4, <2>5
  <2>7. ASSUME NEW t \in SUBSET (1..m + 1)
        PROVE  h[t] = IF t = {} THEN c ELSE F[<<h[t \ {Max(t)}], Max(t)>>]
    <3>1. CASE m + 1 \in t
      <4>1. t \subseteq Int /\ \A x \in t : x <= m + 1
        OBVIOUS
      <4>2. Max(t) = m + 1
        BY <3>1, <4>1, Greatest
      <4>3. h[t \ {m + 1}] = g[t \ {m + 1}]
        BY <2>3
      <4>4. h[t] = F[<<g[t \ {m + 1}], m + 1>>]
        BY <3>1
      <4> QED
        BY <3>1, <4>2, <4>3, <4>4
    <3>2. CASE m + 1 \notin t
      <4>1. h[t] = g[t] /\ t \in SUBSET (1..m)
        BY <3>2, <2>4
      <4>2. g[t] = IF t = {} THEN c ELSE F[<<g[t \ {Max(t)}], Max(t)>>]
        BY <2>2, <4>1 DEF Steps
      <4>3. h[t \ {Max(t)}] = g[t \ {Max(t)}]
        <5>1. m + 1 \notin t \ {Max(t)} /\ t \ {Max(t)} \in SUBSET (1..m + 1)
          BY <3>2
        <5> QED
          BY <5>1
      <4> QED
        BY <4>1, <4>2, <4>3
    <3> QED
      BY <3>1, <3>2
  <2>8. Steps(c, F, m + 1, h)
    <3> HIDE DEF h
    <3> QED
      BY <2>7 DEF Steps
  <2> HIDE DEF h
  <2> QED
    BY <2>6, <2>8 DEF FoldExists
<1> HIDE DEF S
<1>3. Nat \subseteq S
  BY <1>1, <1>2, Induction
<1> QED
  BY <1>3 DEF S

-----------------------------------------------------------------------------
(* Numbers and powers. *)

LEMMA DigitNames ==
  ASSUME NEW c, IS_NUM(c)
  PROVE  /\ \E i \in 1..10 : Digits[i] = c
         /\ c \in {"0", "1", "2", "3", "4", "5", "6", "7", "8", "9"}
<1>1. PICK i \in 1..10 : Digits[i] = c
  BY DEF IS_NUM, DigitSet, Range, Digits
<1>2. /\ Digits[1] = "0" /\ Digits[2] = "1" /\ Digits[3] = "2" /\ Digits[4] = "3"
      /\ Digits[5] = "4" /\ Digits[6] = "5" /\ Digits[7] = "6" /\ Digits[8] = "7"
      /\ Digits[9] = "8" /\ Digits[10] = "9"
  BY DEF Digits
<1>3. i \in {1, 2, 3, 4, 5, 6, 7, 8, 9, 10}
  OBVIOUS
<1> QED
  BY <1>1, <1>2, <1>3

LEMMA HexRange ==
  ASSUME NEW c, IS_HEX(c) PROVE HexValue(c) \in Nat
<1>1. CASE IS_NUM(c)
  BY <1>1, DigitNames DEF HexValue, DigitValue
<1>2. CASE ~IS_NUM(c)
  <2>1. c \in {"a", "b", "c", "d", "e", "f", "A", "B", "C", "D", "E", "F"}
    BY <1>2 DEF IS_HEX
  <2>2. \E i \in 1..6 : c \in {Lowercase[i], Uppercase[i]}
    BY <2>1 DEF Lowercase, Uppercase
  <2> QED
    BY <1>2, <2>2 DEF HexValue
<1> QED
  BY <1>1, <1>2

LEMMA ZeroDigit == IS_HEX("0") /\ HexValue("0") = 0
<1>1. Digits[1] = "0" /\ \A i \in 1..10 : Digits[i] = "0" => i = 1
  <2>1. \A i \in 1..10 : i \in {1, 2, 3, 4, 5, 6, 7, 8, 9, 10}
    OBVIOUS
  <2> QED
    BY <2>1 DEF Digits
<1>2. IS_NUM("0")
  BY <1>1 DEF IS_NUM, DigitSet, Range, Digits
<1>3. DigitValue("0") = 0
  BY <1>1 DEF DigitValue
<1> QED
  BY <1>2, <1>3 DEF IS_HEX, HexValue

\* A text of digits, and what its number comes to after each of them.
IsDigits(s, n) == DOMAIN s = 1..n /\ \A k \in 1..n : IS_HEX(s[k])
Counts(s, n, base, H) ==
  /\ H \in [0..n -> Nat] /\ H[0] = 0
  /\ \A k \in 1..n : H[k] = base * H[k - 1] + HexValue(s[k])

LEMMA NumberCounts ==
  ASSUME NEW n \in Nat, NEW s, IsDigits(s, n), NEW base \in Nat
  PROVE  \E H : Counts(s, n, base, H) /\ Number(s, base) = H[n]
<1> DEFINE Table(g) == g = [t \in SUBSET (1..n) |->
                              IF t = {} THEN 0 ELSE base * g[t \ {Max(t)}] + HexValue(s[Max(t)])]
<1>1. Number(s, base) = (CHOOSE g : Table(g))[1..n]
  BY Zenon DEF Number, FoldLeft, MapThenFoldSet, IsDigits
<1>2. \A k \in 1..n : HexValue(s[k]) \in Nat
  BY HexRange DEF IsDigits
<1> DEFINE F == [x \in Nat \X (1..n) |-> base * x[1] + HexValue(s[x[2]])]
<1>3. F \in [Nat \X (1..n) -> Nat]
  <2>1. ASSUME NEW x \in Nat \X (1..n) PROVE base * x[1] + HexValue(s[x[2]]) \in Nat
    <3>1. x[1] \in Nat /\ HexValue(s[x[2]]) \in Nat
      BY <1>2
    <3>2. base * x[1] \in Nat
      BY <3>1
    <3> QED
      BY <3>1, <3>2
  <2> QED
    BY <2>1
<1>4. PICK h \in [SUBSET (1..n) -> Nat] : Steps(0, F, n, h)
  <2> HIDE DEF F
  <2> QED
    BY <1>3, StepsExist DEF FoldExists
<1>5. Table(h)
  <2>1. ASSUME NEW t \in SUBSET (1..n)
        PROVE  h[t] = IF t = {} THEN 0 ELSE base * h[t \ {Max(t)}] + HexValue(s[Max(t)])
    <3>1. h[t] = IF t = {} THEN 0 ELSE F[<<h[t \ {Max(t)}], Max(t)>>]
      BY <1>4 DEF Steps
    <3>2. ASSUME t # {}
          PROVE  F[<<h[t \ {Max(t)}], Max(t)>>] = base * h[t \ {Max(t)}] + HexValue(s[Max(t)])
      <4>1. Max(t) \in 1..n /\ h[t \ {Max(t)}] \in Nat
        BY <3>2, GreatestOfSome
      <4> QED
        BY <4>1
    <3> HIDE DEF F
    <3> QED
      BY <3>1, <3>2
  <2>2. h = [t \in SUBSET (1..n) |-> h[t]]
    OBVIOUS
  <2> QED
    BY <2>1, <2>2, Zenon
<1>6. PICK g : g = (CHOOSE f : Table(f))
  OBVIOUS
<1>7. Table(g)
  BY <1>5, <1>6, Zenon
<1>8. \A t \in SUBSET (1..n) :
        g[t] = IF t = {} THEN 0 ELSE base * g[t \ {Max(t)}] + HexValue(s[Max(t)])
  BY <1>7, Zenon
<1> HIDE DEF Table
<1>9. g[1..0] = 0 /\ \A k \in 1..n : g[1..k] = base * g[1..k - 1] + HexValue(s[k])
  <2>1. 1..0 = {} /\ 1..0 \in SUBSET (1..n)
    OBVIOUS
  <2>2. ASSUME NEW k \in 1..n PROVE g[1..k] = base * g[1..k - 1] + HexValue(s[k])
    <3>1. 1..k # {} /\ 1..k \in SUBSET (1..n) /\ Max(1..k) = k /\ (1..k) \ {k} = 1..k - 1
      BY LastPlace
    <3>2. g[1..k] = base * g[(1..k) \ {Max(1..k)}] + HexValue(s[Max(1..k)])
      BY <1>8, <3>1
    <3> QED
      BY <3>1, <3>2
  <2> QED
    BY <1>8, <2>1, <2>2
<1> DEFINE H == [k \in 0..n |-> g[1..k]]
<1> DEFINE S == {k \in Nat : k <= n => g[1..k] \in Nat}
<1>10. 0 \in S
  BY <1>9
<1>11. ASSUME NEW k \in Nat, k \in S PROVE k + 1 \in S
  <2>1. SUFFICES ASSUME k + 1 <= n PROVE g[1..k + 1] \in Nat
    OBVIOUS
  <2>2. k + 1 \in 1..n /\ (k + 1) - 1 = k
    BY <2>1
  <2>3. g[1..k + 1] = base * g[1..k] + HexValue(s[k + 1]) /\ HexValue(s[k + 1]) \in Nat
    BY <1>2, <1>9, <2>2
  <2>4. g[1..k] \in Nat
    BY <1>11, <2>1
  <2>5. base * g[1..k] \in Nat
    BY <2>4
  <2> QED
    BY <2>3, <2>5
<1> HIDE DEF S
<1>12. Nat \subseteq S
  BY <1>10, <1>11, Induction
<1>13. H \in [0..n -> Nat]
  <2>1. \A k \in 0..n : g[1..k] \in Nat
    BY <1>12 DEF S
  <2> QED
    BY <2>1
<1>14. \A k \in 1..n : H[k] = base * H[k - 1] + HexValue(s[k])
  BY <1>9
<1>15. H[0] = 0 /\ H[n] = g[1..n]
  BY <1>9
<1> HIDE DEF H
<1> QED
  BY <1>1, <1>6, <1>13, <1>14, <1>15 DEF Counts

\* The powers of the base up to the n-th.
Powers(n, base, P) ==
  P \in [0..n -> Nat] /\ P[0] = 1 /\ \A k \in 1..n : P[k] = base * P[k - 1]

LEMMA PowerIsLast ==
  ASSUME NEW n \in Nat, NEW base \in Nat
  PROVE  \E P : Powers(n, base, P) /\ Power(base, n) = P[n]
<1> DEFINE q == [i \in 1..n |-> i]
<1> DEFINE Table(g) == g = [t \in SUBSET (DOMAIN q) |->
                              IF t = {} THEN 1 ELSE base * g[t \ {Max(t)}]]
<1>1. Power(base, n) = (CHOOSE g : Table(g))[DOMAIN q]
  BY Zenon DEF Power, FoldLeft, MapThenFoldSet
<1>2. DOMAIN q = 1..n
  OBVIOUS
<1> HIDE DEF q
<1> DEFINE F == [x \in Nat \X (1..n) |-> base * x[1]]
<1>3. F \in [Nat \X (1..n) -> Nat]
  <2>1. ASSUME NEW x \in Nat \X (1..n) PROVE base * x[1] \in Nat
    <3>1. x[1] \in Nat
      OBVIOUS
    <3> QED
      BY <3>1
  <2> QED
    BY <2>1
<1>4. PICK h \in [SUBSET (1..n) -> Nat] : Steps(1, F, n, h)
  <2> HIDE DEF F
  <2> QED
    BY <1>3, StepsExist DEF FoldExists
<1>5. Table(h)
  <2>1. ASSUME NEW t \in SUBSET (1..n)
        PROVE  h[t] = IF t = {} THEN 1 ELSE base * h[t \ {Max(t)}]
    <3>1. h[t] = IF t = {} THEN 1 ELSE F[<<h[t \ {Max(t)}], Max(t)>>]
      BY <1>4 DEF Steps
    <3>2. ASSUME t # {} PROVE F[<<h[t \ {Max(t)}], Max(t)>>] = base * h[t \ {Max(t)}]
      <4>1. Max(t) \in 1..n /\ h[t \ {Max(t)}] \in Nat
        BY <3>2, GreatestOfSome
      <4> QED
        BY <4>1
    <3> HIDE DEF F
    <3> QED
      BY <3>1, <3>2
  <2>2. h = [t \in SUBSET (1..n) |-> h[t]]
    OBVIOUS
  <2> QED
    BY <1>2, <2>1, <2>2, Zenon
<1>6. PICK g : g = (CHOOSE f : Table(f))
  OBVIOUS
<1>7. Table(g)
  BY <1>5, <1>6, Zenon
<1>8. \A t \in SUBSET (1..n) : g[t] = IF t = {} THEN 1 ELSE base * g[t \ {Max(t)}]
  BY <1>2, <1>7, Zenon
<1> HIDE DEF Table
<1>9. g[1..0] = 1 /\ \A k \in 1..n : g[1..k] = base * g[1..k - 1]
  <2>1. 1..0 = {} /\ 1..0 \in SUBSET (1..n)
    OBVIOUS
  <2>2. ASSUME NEW k \in 1..n PROVE g[1..k] = base * g[1..k - 1]
    <3>1. 1..k # {} /\ 1..k \in SUBSET (1..n) /\ Max(1..k) = k /\ (1..k) \ {k} = 1..k - 1
      BY LastPlace
    <3>2. g[1..k] = base * g[(1..k) \ {Max(1..k)}]
      BY <1>8, <3>1
    <3> QED
      BY <3>1, <3>2
  <2> QED
    BY <1>8, <2>1, <2>2
<1> DEFINE P == [k \in 0..n |-> g[1..k]]
<1> DEFINE S == {k \in Nat : k <= n => g[1..k] \in Nat}
<1>10. 0 \in S
  BY <1>9
<1>11. ASSUME NEW k \in Nat, k \in S PROVE k + 1 \in S
  <2>1. SUFFICES ASSUME k + 1 <= n PROVE g[1..k + 1] \in Nat
    OBVIOUS
  <2>2. k + 1 \in 1..n /\ (k + 1) - 1 = k
    BY <2>1
  <2>3. g[1..k + 1] = base * g[1..k]
    BY <1>9, <2>2
  <2>4. g[1..k] \in Nat
    BY <1>11, <2>1
  <2> QED
    BY <2>3, <2>4
<1> HIDE DEF S
<1>12. Nat \subseteq S
  BY <1>10, <1>11, Induction
<1>13. P \in [0..n -> Nat]
  <2>1. \A k \in 0..n : g[1..k] \in Nat
    BY <1>12 DEF S
  <2> QED
    BY <2>1
<1>14. P[0] = 1 /\ P[n] = g[1..n] /\ \A k \in 1..n : P[k] = base * P[k - 1]
  BY <1>9
<1> HIDE DEF P
<1> QED
  BY <1>1, <1>2, <1>6, <1>13, <1>14 DEF Powers

LEMMA PowerNext ==
  ASSUME NEW n \in Nat, NEW base \in Nat
  PROVE  /\ Power(base, n) \in Nat /\ Power(base, 0) = 1
         /\ Power(base, n + 1) = base * Power(base, n)
<1>1. PICK P : Powers(n, base, P) /\ Power(base, n) = P[n]
  BY PowerIsLast
<1>2. PICK R : Powers(n + 1, base, R) /\ Power(base, n + 1) = R[n + 1]
  <2>1. n + 1 \in Nat
    OBVIOUS
  <2> QED
    BY <2>1, PowerIsLast
<1>3. Power(base, 0) = 1
  <2>1. PICK Z : Powers(0, base, Z) /\ Power(base, 0) = Z[0]
    BY PowerIsLast
  <2> QED
    BY <2>1 DEF Powers
<1> DEFINE S == {k \in Nat : k <= n => P[k] = R[k]}
<1>4. 0 \in S
  BY <1>1, <1>2 DEF Powers
<1>5. ASSUME NEW k \in Nat, k \in S PROVE k + 1 \in S
  <2>1. SUFFICES ASSUME k + 1 <= n PROVE P[k + 1] = R[k + 1]
    OBVIOUS
  <2>2. k + 1 \in 1..n /\ k + 1 \in 1..n + 1 /\ (k + 1) - 1 = k
    BY <2>1
  <2>3. P[k + 1] = base * P[k] /\ R[k + 1] = base * R[k]
    BY <1>1, <1>2, <2>2 DEF Powers
  <2> QED
    BY <1>5, <2>1, <2>3
<1> HIDE DEF S
<1>6. Nat \subseteq S
  BY <1>4, <1>5, Induction
<1>7. P[n] = R[n]
  BY <1>6 DEF S
<1>8. R[n + 1] = base * R[n]
  <2>1. n + 1 \in 1..n + 1 /\ (n + 1) - 1 = n
    OBVIOUS
  <2> QED
    BY <1>2, <2>1 DEF Powers
<1>9. P[n] \in Nat
  BY <1>1 DEF Powers
<1> QED
  BY <1>1, <1>2, <1>3, <1>7, <1>8, <1>9

\* What the sum over the places comes to after each of them.
Sums(s, n, base, V) ==
  /\ V \in [0..n -> Nat] /\ V[0] = 0
  /\ \A k \in 1..n : V[k] = V[k - 1] + HexValue(s[k]) * Power(base, n - k)

LEMMA ValueSums ==
  ASSUME NEW n \in Nat, NEW s, IsDigits(s, n), Len(s) = n, NEW base \in Nat
  PROVE  \E V : Sums(s, n, base, V) /\ Value(s, base) = V[n]
<1> DEFINE q == [i \in DOMAIN s |-> i]
<1> DEFINE Table(g) == g = [t \in SUBSET (DOMAIN q) |->
                              IF t = {} THEN 0
                              ELSE g[t \ {Max(t)}]
                                   + HexValue(s[q[Max(t)]]) * Power(base, Len(s) - q[Max(t)])]
<1>1. Value(s, base) = (CHOOSE g : Table(g))[DOMAIN q]
  BY Zenon DEF Value, FoldLeft, MapThenFoldSet
<1>2. DOMAIN q = 1..n /\ \A k \in 1..n : q[k] = k
  BY DEF IsDigits
<1> HIDE DEF q
<1> DEFINE D == [k \in 1..n |-> HexValue(s[q[k]]) * Power(base, Len(s) - q[k])]
<1>3. \A k \in 1..n : D[k] \in Nat /\ D[k] = HexValue(s[k]) * Power(base, n - k)
  <2> SUFFICES ASSUME NEW k \in 1..n
               PROVE  D[k] \in Nat /\ D[k] = HexValue(s[k]) * Power(base, n - k)
    OBVIOUS
  <2>1. D[k] = HexValue(s[k]) * Power(base, n - k)
    BY <1>2
  <2>2. HexValue(s[k]) \in Nat
    BY HexRange DEF IsDigits
  <2>3. Power(base, n - k) \in Nat
    <3>1. n - k \in Nat
      OBVIOUS
    <3> QED
      BY <3>1, PowerNext
  <2>4. HexValue(s[k]) * Power(base, n - k) \in Nat
    BY <2>2, <2>3
  <2> HIDE DEF D
  <2> QED
    BY <2>1, <2>4
<1>4. \A k \in 1..n : HexValue(s[q[k]]) * Power(base, Len(s) - q[k]) = D[k]
  OBVIOUS
<1> HIDE DEF D
<1> DEFINE F == [x \in Nat \X (1..n) |-> x[1] + D[x[2]]]
<1>5. F \in [Nat \X (1..n) -> Nat]
  <2>1. ASSUME NEW x \in Nat \X (1..n) PROVE x[1] + D[x[2]] \in Nat
    <3>1. x[1] \in Nat /\ D[x[2]] \in Nat
      BY <1>3
    <3> QED
      BY <3>1
  <2> QED
    BY <2>1
<1>6. PICK h \in [SUBSET (1..n) -> Nat] : Steps(0, F, n, h)
  <2> HIDE DEF F
  <2> QED
    BY <1>5, StepsExist DEF FoldExists
<1>7. Table(h)
  <2>1. ASSUME NEW t \in SUBSET (1..n)
        PROVE  h[t] = IF t = {} THEN 0
                      ELSE h[t \ {Max(t)}]
                           + HexValue(s[q[Max(t)]]) * Power(base, Len(s) - q[Max(t)])
    <3>1. h[t] = IF t = {} THEN 0 ELSE F[<<h[t \ {Max(t)}], Max(t)>>]
      BY <1>6 DEF Steps
    <3>2. ASSUME t # {}
          PROVE  F[<<h[t \ {Max(t)}], Max(t)>>]
                 = h[t \ {Max(t)}] + HexValue(s[q[Max(t)]]) * Power(base, Len(s) - q[Max(t)])
      <4>1. PICK m \in 1..n : m = Max(t)
        BY <3>2, GreatestOfSome
      <4>2. PICK w \in Nat : w = h[t \ {Max(t)}]
        OBVIOUS
      <4>3. F[<<w, m>>] = w + D[m]
        OBVIOUS
      <4> HIDE DEF F
      <4> QED
        BY <1>4, <4>1, <4>2, <4>3
    <3> HIDE DEF F
    <3> QED
      BY <3>1, <3>2, Zenon
  <2>2. h = [t \in SUBSET (1..n) |-> h[t]]
    OBVIOUS
  <2>3. DOMAIN q = 1..n
    BY <1>2
  <2> QED
    BY <2>1, <2>2, <2>3, Zenon
<1>8. PICK g : g = (CHOOSE f : Table(f))
  OBVIOUS
<1>9. Table(g)
  BY <1>7, <1>8, Zenon
<1>10. \A t \in SUBSET (1..n) :
         g[t] = IF t = {} THEN 0
                ELSE g[t \ {Max(t)}] + HexValue(s[q[Max(t)]]) * Power(base, Len(s) - q[Max(t)])
  <2>1. DOMAIN q = 1..n
    BY <1>2
  <2> QED
    BY <1>9, <2>1, Zenon
<1> HIDE DEF Table
<1>11. g[1..0] = 0 /\ \A k \in 1..n : g[1..k] = g[1..k - 1] + D[k]
  <2>1. 1..0 = {} /\ 1..0 \in SUBSET (1..n)
    OBVIOUS
  <2>2. ASSUME NEW k \in 1..n PROVE g[1..k] = g[1..k - 1] + D[k]
    <3>1. 1..k # {} /\ 1..k \in SUBSET (1..n) /\ Max(1..k) = k /\ (1..k) \ {k} = 1..k - 1
      BY LastPlace
    <3>2. g[1..k] = g[(1..k) \ {Max(1..k)}]
                    + HexValue(s[q[Max(1..k)]]) * Power(base, Len(s) - q[Max(1..k)])
      BY <1>10, <3>1, Zenon
    <3>3. g[1..k] = g[1..k - 1] + HexValue(s[q[k]]) * Power(base, Len(s) - q[k])
      BY <3>1, <3>2, Zenon
    <3>4. HexValue(s[q[k]]) * Power(base, Len(s) - q[k]) = D[k]
      BY <1>4
    <3> QED
      BY <3>3, <3>4, Zenon
  <2>3. g[1..0] = 0
    BY <1>10, <2>1, Zenon
  <2> QED
    BY <2>2, <2>3
<1> DEFINE V == [k \in 0..n |-> g[1..k]]
<1> DEFINE S == {k \in Nat : k <= n => g[1..k] \in Nat}
<1>12. 0 \in S
  BY <1>11
<1>13. ASSUME NEW k \in Nat, k \in S PROVE k + 1 \in S
  <2>1. SUFFICES ASSUME k + 1 <= n PROVE g[1..k + 1] \in Nat
    OBVIOUS
  <2>2. k + 1 \in 1..n /\ (k + 1) - 1 = k
    BY <2>1
  <2>3. g[1..k + 1] = g[1..k] + D[k + 1] /\ D[k + 1] \in Nat
    BY <1>3, <1>11, <2>2
  <2>4. g[1..k] \in Nat
    BY <1>13, <2>1
  <2> QED
    BY <2>3, <2>4
<1> HIDE DEF S
<1>14. Nat \subseteq S
  BY <1>12, <1>13, Induction
<1>15. V \in [0..n -> Nat]
  <2>1. \A k \in 0..n : g[1..k] \in Nat
    BY <1>14 DEF S
  <2> QED
    BY <2>1
<1>16. V[0] = 0 /\ V[n] = g[1..n] /\ \A k \in 1..n : V[k] = V[k - 1] + D[k]
  BY <1>11
<1>17. V[0] = 0 /\ \A k \in 1..n : V[k] = V[k - 1] + HexValue(s[k]) * Power(base, n - k)
  <2> HIDE DEF V
  <2> SUFFICES ASSUME NEW k \in 1..n
               PROVE  V[k] = V[k - 1] + HexValue(s[k]) * Power(base, n - k)
    BY <1>16
  <2>1. V[k] = V[k - 1] + D[k]
    BY <1>16
  <2>2. D[k] = HexValue(s[k]) * Power(base, n - k)
    BY <1>3
  <2> QED
    BY <2>1, <2>2, Zenon
<1> HIDE DEF V
<1>18. Value(s, base) = V[n]
  <2>1. Value(s, base) = g[1..n]
    BY <1>1, <1>2, <1>8
  <2> QED
    BY <1>16, <2>1
<1> QED
  BY <1>15, <1>17, <1>18, Zenon DEF Sums

\* From digit to digit, or digit by digit times its power: the same number.
LEMMA PlaceValues ==
  ASSUME NEW n \in Nat, NEW s, IsDigits(s, n), Len(s) = n, NEW base \in Nat
  PROVE  Number(s, base) = Value(s, base) /\ Number(s, base) \in Nat
<1>1. PICK H : Counts(s, n, base, H) /\ Number(s, base) = H[n]
  BY NumberCounts
<1>2. PICK V : Sums(s, n, base, V) /\ Value(s, base) = V[n]
  BY ValueSums
<1> DEFINE S == {k \in Nat : k <= n => H[k] * Power(base, n - k) = V[k]}
<1>3. 0 \in S
  <2>4. n - 0 = n
    OBVIOUS
  <2>1. Power(base, n) \in Nat /\ n - 0 = n
    BY <2>4, PowerNext, Zenon
  <2>2. H[0] = 0 /\ V[0] = 0
    BY <1>1, <1>2 DEF Counts, Sums
  <2> QED
    BY <2>1, <2>2
<1>4. ASSUME NEW k \in Nat, k \in S PROVE k + 1 \in S
  <2>1. SUFFICES ASSUME k + 1 <= n PROVE H[k + 1] * Power(base, n - (k + 1)) = V[k + 1]
    OBVIOUS
  <2>2. PICK r \in Nat : r = n - (k + 1)
    BY <2>1
  <2>3. n - k = r + 1 /\ k + 1 \in 1..n /\ (k + 1) - 1 = k /\ k \in 0..n /\ k + 1 \in 0..n
    BY <2>1, <2>2
  <2>4. PICK p \in Nat : p = Power(base, r)
    BY PowerNext
  <2>5. Power(base, n - k) = base * p
    BY <2>3, <2>4, PowerNext
  <2>6. PICK d \in Nat : d = HexValue(s[k + 1])
    BY <2>3, HexRange DEF IsDigits
  <2>7. PICK x \in Nat : x = H[k]
    BY <1>1, <2>3 DEF Counts
  <2>8. H[k + 1] = base * x + d
    BY <1>1, <2>3, <2>6, <2>7 DEF Counts
  <2>9. V[k + 1] = V[k] + d * p
    <3>1. V[k + 1] = V[(k + 1) - 1] + HexValue(s[k + 1]) * Power(base, n - (k + 1))
      BY <1>2, <2>3, Zenon DEF Sums
    <3> QED
      BY <2>2, <2>3, <2>4, <2>6, <3>1, Zenon
  <2>10. V[k] = x * (base * p)
    BY <1>4, <2>1, <2>5, <2>7
  <2>11. (base * x + d) * p = x * (base * p) + d * p
    OBVIOUS
  <2> QED
    BY <2>2, <2>4, <2>8, <2>9, <2>10, <2>11
<1> HIDE DEF S
<1>5. Nat \subseteq S
  BY <1>3, <1>4, Induction
<1>6. H[n] * Power(base, 0) = V[n]
  <2>1. n \in S /\ n - n = 0
    BY <1>5
  <2>2. H[n] * Power(base, n - n) = V[n]
    BY <2>1 DEF S
  <2> QED
    BY <2>1, <2>2, Zenon
<1>7. Power(base, 0) = 1 /\ H[n] \in Nat
  BY <1>1, PowerNext DEF Counts
<1> QED
  BY <1>1, <1>2, <1>6, <1>7

\* A zero in front adds nothing.
Behind0(u, s, n) ==
  /\ IsDigits(s, n + 1) /\ IsDigits(u, n) /\ s[1] = "0"
  /\ \A k \in 1..n : s[k + 1] = u[k]

LEMMA LeadingZero ==
  ASSUME NEW n \in Nat, NEW s, NEW u, Behind0(u, s, n), NEW base \in Nat
  PROVE  Number(s, base) = Number(u, base)
<1>7. IsDigits(s, n + 1) /\ IsDigits(u, n) /\ s[1] = "0"
  BY DEF Behind0
<1>1. PICK H : Counts(s, n + 1, base, H) /\ Number(s, base) = H[n + 1]
  <2>1. n + 1 \in Nat
    OBVIOUS
  <2> QED
    BY <1>7, <2>1, NumberCounts
<1>2. PICK G : Counts(u, n, base, G) /\ Number(u, base) = G[n]
  BY <1>7, NumberCounts
<1> DEFINE S == {k \in Nat : k <= n => H[k + 1] = G[k]}
<1>3. 0 \in S
  <2>1. 1 \in 1..n + 1 /\ 1 - 1 = 0
    OBVIOUS
  <2>2. H[1] = base * H[0] + HexValue(s[1]) /\ H[0] = 0 /\ G[0] = 0
    BY <1>1, <1>2, <2>1 DEF Counts
  <2>3. HexValue(s[1]) = 0
    BY <1>7, ZeroDigit
  <2> QED
    BY <2>2, <2>3
<1>4. ASSUME NEW k \in Nat, k \in S PROVE k + 1 \in S
  <2>1. SUFFICES ASSUME k + 1 <= n PROVE H[(k + 1) + 1] = G[k + 1]
    OBVIOUS
  <2>2. /\ k + 1 \in 1..n /\ (k + 1) + 1 \in 1..n + 1 /\ (k + 1) - 1 = k
        /\ ((k + 1) + 1) - 1 = k + 1
    BY <2>1
  <2>3. H[(k + 1) + 1] = base * H[k + 1] + HexValue(s[(k + 1) + 1])
    BY <1>1, <2>2 DEF Counts
  <2>4. G[k + 1] = base * G[k] + HexValue(u[k + 1])
    BY <1>2, <2>2 DEF Counts
  <2>5. s[(k + 1) + 1] = u[k + 1]
    BY <2>2 DEF Behind0
  <2>6. H[k + 1] = G[k]
    BY <1>4, <2>1
  <2> QED
    BY <2>3, <2>4, <2>5, <2>6
<1> HIDE DEF S
<1>5. Nat \subseteq S
  BY <1>3, <1>4, Induction
<1>6. H[n + 1] = G[n]
  BY <1>5 DEF S
<1> QED
  BY <1>1, <1>2, <1>6

-----------------------------------------------------------------------------
(* The parts of a text, as strto takes it apart. *)

LEMMA GreatestIn ==
  ASSUME NEW n \in Nat, NEW S \in SUBSET (0..n), S # {}
  PROVE  Max(S) \in S /\ \A x \in S : x <= Max(S)
<1> DEFINE T == {n - k : k \in S}
<1>1. T \subseteq Nat /\ T # {}
  <2>1. \A k \in S : k \in 0..n /\ n - k \in Nat
    OBVIOUS
  <2> QED
    BY <2>1
<1> HIDE DEF T
<1>2. PICK m \in T : \A y \in T : m <= y
  BY <1>1, LeastNatural
<1>3. PICK k \in S : m = n - k
  BY <1>2 DEF T
<1>4. ASSUME NEW j \in S PROVE j <= k
  <2>1. n - j \in T
    BY DEF T
  <2>2. n - k <= n - j
    BY <1>2, <1>3, <2>1
  <2> QED
    BY <2>2
<1>5. Max(S) = k
  <2>1. S \subseteq Int
    OBVIOUS
  <2> QED
    BY <1>4, <2>1, Greatest
<1> QED
  BY <1>4, <1>5

BaseFrom(s, a) ==
  IF a + 3 <= Len(s) /\ s[a + 1] = "0" /\ s[a + 2] \in {"x", "X"} /\ IS_HEX(s[a + 3]) THEN 16
  ELSE IF a < Len(s) /\ s[a + 1] = "0" THEN 8 ELSE 10
FirstFrom(a, base) == a + IF base = 16 THEN 2 ELSE 0

\* The text is taken apart behind b blanks and k signs, to the base given.
Taken(s, b, k, base) ==
  /\ b = BlanksOf(s) /\ k = SignOf(s, b) /\ base = BaseFrom(s, b + k)

LEMMA BlanksAre ==
  ASSUME NEW s \in Seq(STRING), NEW b \in 0..Len(s), \A j \in 1..b : s[j] \in Blanks,
         b < Len(s) => s[b + 1] \notin Blanks
  PROVE  BlanksOf(s) = b
<1> DEFINE S == {0} \cup {i \in DOMAIN s : \A j \in 1..i : s[j] \in Blanks}
<1>1. DOMAIN s = 1..Len(s) /\ Len(s) \in Nat
  OBVIOUS
<1>2. b \in S /\ S \subseteq Int
  BY <1>1
<1>3. ASSUME NEW x \in S PROVE x <= b
  <2>1. CASE x = 0
    BY <2>1
  <2>2. CASE x # 0
    <3>1. x \in 1..Len(s) /\ \A j \in 1..x : s[j] \in Blanks
      BY <1>1, <2>2
    <3>2. x > b => b + 1 \in 1..x
      BY <3>1
    <3> QED
      BY <3>1, <3>2
  <2> QED
    BY <2>1, <2>2
<1> HIDE DEF S
<1>4. Max(S) = b
  BY <1>2, <1>3, Greatest
<1> QED
  BY <1>4 DEF S, BlanksOf

LEMMA BlanksHold ==
  ASSUME NEW s \in Seq(STRING)
  PROVE  BlanksOf(s) \in 0..Len(s) /\ \A j \in 1..BlanksOf(s) : s[j] \in Blanks
<1> DEFINE S == {0} \cup {i \in DOMAIN s : \A j \in 1..i : s[j] \in Blanks}
<1>1. PICK n \in Nat : n = Len(s) /\ DOMAIN s = 1..n
  OBVIOUS
<1>2. S \in SUBSET (0..n) /\ S # {}
  BY <1>1
<1>3. \A x \in S : \A j \in 1..x : s[j] \in Blanks
  OBVIOUS
<1> HIDE DEF S
<1>4. Max(S) \in S
  BY <1>2, GreatestIn
<1>5. BlanksOf(s) = Max(S)
  BY DEF S, BlanksOf
<1> QED
  BY <1>1, <1>2, <1>3, <1>4, <1>5

LEMMA BaseOfRest ==
  ASSUME NEW s \in Seq(STRING), NEW a \in 0..Len(s)
  PROVE  BaseOf(SubSeq(s, a + 1, Len(s))) = BaseFrom(s, a)
<1>1. PICK rest : rest = SubSeq(s, a + 1, Len(s))
  OBVIOUS
<1>2. PICK n \in Nat : n = Len(s)
  OBVIOUS
<1>3. /\ rest \in Seq(STRING) /\ Len(rest) = n - a
      /\ \A k \in 1..n - a : rest[k] = s[a + k]
  <2>1. a + 1 \in Int /\ n \in Int /\ \A i \in a + 1..n : s[i] \in STRING
    BY <1>2
  <2>2. /\ rest \in Seq(STRING)
        /\ Len(rest) = IF a + 1 <= n THEN n - (a + 1) + 1 ELSE 0
        /\ \A i \in 1..n - (a + 1) + 1 : rest[i] = s[a + 1 + i - 1]
    BY <1>1, <1>2, <2>1, SubSeqProperties
  <2>3. n - (a + 1) + 1 = n - a /\ \A i \in 1..n - a : a + 1 + i - 1 = a + i
    BY <1>2
  <2>4. Len(rest) = n - a
    BY <1>2, <2>2
  <2> QED
    BY <2>2, <2>3, <2>4
<1>4. rest # <<>> <=> a < n
  BY <1>2, <1>3
<1>5. a < n => Head(rest) = s[a + 1] /\ rest[1] = s[a + 1]
  BY <1>2, <1>3, <1>4
<1>6. a + 3 <= n <=> Len(rest) >= 3
  BY <1>2, <1>3
<1>7. a + 3 <= n => rest[1] = s[a + 1] /\ rest[2] = s[a + 2] /\ rest[3] = s[a + 3]
  BY <1>2, <1>3
<1>8. BaseOf(rest) = BaseFrom(s, a)
  BY <1>2, <1>4, <1>5, <1>6, <1>7 DEF BaseOf, BaseFrom
<1> QED
  BY <1>1, <1>8

LEMMA StrtoParts ==
  ASSUME NEW s \in Seq(STRING), NEW b, NEW k, NEW base, Taken(s, b, k, base),
         NEW first, first = FirstFrom(b + k, base)
  PROVE  /\ b \in 0..Len(s) /\ k \in {0, 1} /\ b + k \in 0..Len(s) /\ base \in {8, 10, 16}
         /\ strto(s).magnitude = Number(SubSeq(s, first + 1, LastDigit(s, first, base)), base)
         /\ strto(s).negated = (k = 1 /\ s[b + 1] = "-")
         /\ strto(s).end = IF LastDigit(s, first, base) = first THEN 0 ELSE LastDigit(s, first, base)
<1>1. b \in 0..Len(s)
  BY BlanksHold DEF Taken
<1>2. k \in {0, 1} /\ b + k \in 0..Len(s)
  BY <1>1 DEF Taken, SignOf
<1>3. base \in {8, 10, 16}
  BY DEF Taken, BaseFrom
<1>4. BaseOf(SubSeq(s, b + k + 1, Len(s))) = base
  BY <1>2, BaseOfRest DEF Taken
<1>5. strto(s) = [magnitude |-> Number(SubSeq(s, first + 1, LastDigit(s, first, base)), base),
                  negated |-> k = 1 /\ s[b + 1] = "-",
                  end |-> IF LastDigit(s, first, base) = first THEN 0
                          ELSE LastDigit(s, first, base)]
  <2>1. BlanksOf(s) = b /\ SignOf(s, b) = k /\ b + k + (IF base = 16 THEN 2 ELSE 0) = first
    BY DEF Taken, FirstFrom
  <2> QED
    BY <1>4, <2>1, Zenon DEF strto
<1> QED
  BY <1>1, <1>2, <1>3, <1>5

\* All characters from there on are digits: they are taken to the end.
LEMMA LastIs ==
  ASSUME NEW s \in Seq(STRING), NEW first \in Nat, first < Len(s), NEW base,
         \A j \in first + 1..Len(s) : Digit(s[j], base)
  PROVE  LastDigit(s, first, base) = Len(s)
<1> DEFINE S == {first} \cup {i \in first + 1..Len(s) : \A j \in first + 1..i : Digit(s[j], base)}
<1>1. Len(s) \in Nat
  OBVIOUS
<1>2. Len(s) \in S /\ S \subseteq Int /\ \A x \in S : x <= Len(s)
  BY <1>1
<1> HIDE DEF S
<1>3. Max(S) = Len(s)
  BY <1>2, Greatest
<1> QED
  BY <1>3, Zenon DEF S, LastDigit

LEMMA LastHolds ==
  ASSUME NEW s \in Seq(STRING), NEW first \in Nat, NEW base,
         LastDigit(s, first, base) = Len(s), Len(s) # first, Len(s) # 0
  PROVE  first < Len(s) /\ \A j \in first + 1..Len(s) : Digit(s[j], base)
<1> DEFINE S == {first} \cup {i \in first + 1..Len(s) : \A j \in first + 1..i : Digit(s[j], base)}
<1>1. PICK n \in Nat : n = Len(s)
  OBVIOUS
<1>2. S \in SUBSET (0..first + n) /\ S # {} /\ first + n \in Nat
  BY <1>1
<1>3. \A x \in S : x # first => x > first /\ \A j \in first + 1..x : Digit(s[j], base)
  BY <1>1
<1> HIDE DEF S
<1>4. Max(S) \in S
  BY <1>2, GreatestIn
<1>5. LastDigit(s, first, base) = Max(S)
  BY Zenon DEF S, LastDigit
<1> QED
  BY <1>3, <1>4, <1>5

-----------------------------------------------------------------------------
(* What is written as a number is taken to its end, and the other way round. *)

LEMMA DigitMarks ==
  ASSUME NEW c, IS_HEX(c)
  PROVE  c \notin Blanks /\ c \notin {"+", "-", "x", "X"}
<1>1. \/ c \in {"0", "1", "2", "3", "4", "5", "6", "7", "8", "9"}
      \/ c \in {"a", "b", "c", "d", "e", "f", "A", "B", "C", "D", "E", "F"}
  BY DigitNames DEF IS_HEX
<1>2. c \notin Blanks
  <2>1. CASE c \in {"0", "1", "2", "3", "4", "5", "6", "7", "8", "9"}
    BY <2>1, Zenon DEF Blanks, TAB, LF, FF, CR
  <2>2. CASE c \in {"a", "b", "c", "d", "e", "f", "A", "B", "C", "D", "E", "F"}
    BY <2>2, Zenon DEF Blanks, TAB, LF, FF, CR
  <2> QED
    BY <1>1, <2>1, <2>2
<1>3. c \notin {"+", "-", "x", "X"}
  BY <1>1
<1> QED
  BY <1>2, <1>3

\* The texts of signs and prefixes.
Marks == {"+", "-", "0", "x", "X"}

LEMMA ShortTexts ==
  /\ <<>> \in Seq(Marks) /\ Len(<<>>) = 0
  /\ \A c \in Marks : <<c>> \in Seq(Marks) /\ Len(<<c>>) = 1
  /\ \A c, d \in Marks : <<c, d>> \in Seq(Marks) /\ Len(<<c, d>>) = 2
<1>1. \A S : \A c \in S : <<c>> \in Seq(S) /\ Len(<<c>>) = 1
  OBVIOUS
<1>2. \A S : \A c, d \in S : <<c, d>> \in Seq(S) /\ Len(<<c, d>>) = 2
  OBVIOUS
<1>3. \A S : <<>> \in Seq(S) /\ Len(<<>>) = 0
  OBVIOUS
<1> QED
  BY <1>1, <1>2, <1>3, Zenon

LEMMA SignMarks == \A c \in {"+", "-"} : c \notin Blanks
BY Zenon DEF Blanks, TAB, LF, FF, CR

\* The parts of a writing: b blanks, k signs, a prefix, the digits.
Parts(s, w, b, k) ==
  /\ b \in 0..Len(s) /\ k \in {0, 1} /\ \A j \in 1..b : s[j] \in Blanks
  /\ k = 0 => w.sign = <<>>
  /\ k = 1 => w.sign = <<s[b + 1]>> /\ s[b + 1] \in {"+", "-"}
  /\ w.from \in 1..Len(s) /\ \A j \in w.from..Len(s) : Digit(s[j], w.notation.base)
  /\ \/ /\ w.notation = [prefix |-> <<>>, base |-> 10] /\ w.from = b + k + 1
        /\ w.from < Len(s) => s[w.from] # "0"
     \/ /\ w.notation = [prefix |-> <<"0">>, base |-> 8] /\ w.from = b + k + 2
        /\ s[b + k + 1] = "0"
     \/ /\ w.notation = [prefix |-> <<"0", s[b + k + 2]>>, base |-> 16] /\ w.from = b + k + 3
        /\ s[b + k + 1] = "0" /\ s[b + k + 2] \in {"x", "X"}

LEMMA WritingParts ==
  ASSUME NEW s \in Seq(STRING), NEW w \in Writings(s)
  PROVE  \E b, k : Parts(s, w, b, k)
<1>1. /\ w \in [from : 1..Len(s), sign : Signs, notation : Notations]
      /\ w.from - Len(w.sign \o w.notation.prefix) \in 1..w.from
      /\ SubSeq(s, w.from - Len(w.sign \o w.notation.prefix), w.from - 1)
         = w.sign \o w.notation.prefix
      /\ \A j \in 1..(w.from - Len(w.sign \o w.notation.prefix)) - 1 : s[j] \in Blanks
      /\ \A j \in w.from..Len(s) : Digit(s[j], w.notation.base)
      /\ w.notation.base = 10 /\ w.from < Len(s) => s[w.from] # "0"
  BY Zenon DEF Writings
<1>2. PICK sign \in Signs : sign = w.sign
  BY <1>1
<1>3. PICK prefix : prefix = w.notation.prefix
  OBVIOUS
<1>4. /\ sign \in Seq(Marks) /\ Len(sign) \in {0, 1}
      /\ Len(sign) = 0 => sign = <<>>
      /\ Len(sign) = 1 => sign \in {<<"+">>, <<"-">>}
  <2>1. sign \in {<<>>, <<"+">>, <<"-">>}
    BY DEF Signs
  <2>2. CASE sign = <<>>
    BY <2>2, ShortTexts
  <2>3. ASSUME NEW c \in {"+", "-"}, sign = <<c>>
        PROVE  sign \in Seq(Marks) /\ Len(sign) = 1
    <3>1. c \in Marks
      BY DEF Marks
    <3> QED
      BY <2>3, <3>1, ShortTexts, Zenon
  <2>4. sign \in {<<"+">>, <<"-">>} => sign \in Seq(Marks) /\ Len(sign) = 1
    BY <2>3, Zenon
  <2>5. Len(sign) = 0 => sign = <<>>
    BY <2>1, <2>4
  <2>6. Len(sign) = 1 => sign \in {<<"+">>, <<"-">>}
    BY <2>1, <2>2
  <2> QED
    BY <2>1, <2>2, <2>4, <2>5, <2>6
<1>21. prefix \in Seq(Marks) /\ Len(prefix) \in {0, 1, 2}
  <2>1. prefix \in {<<>>, <<"0">>, <<"0", "x">>, <<"0", "X">>}
    BY <1>1, <1>3 DEF Notations
  <2>2. "0" \in Marks /\ "x" \in Marks /\ "X" \in Marks
    BY DEF Marks
  <2>3. prefix \in Seq(Marks) /\ (Len(prefix) = 0 \/ Len(prefix) = 1 \/ Len(prefix) = 2)
    BY <2>1, <2>2, ShortTexts, Zenon
  <2> QED
    BY <2>3
<1>5. PICK k \in {0, 1} : k = Len(sign)
  BY <1>4
<1>20. PICK m \in {0, 1, 2} : m = Len(prefix)
  BY <1>21
<1>6. PICK before : before = sign \o prefix
  OBVIOUS
<1>7. /\ Len(before) = k + m
      /\ \A i \in 1..k : before[i] = sign[i]
      /\ \A i \in 1..m : before[k + i] = prefix[i]
  BY <1>4, <1>5, <1>6, <1>20, <1>21
<1>8. PICK from \in 1..Len(s) : from = w.from
  BY <1>1
<1>9. PICK start \in 1..from : start = from - Len(before)
  BY <1>1, <1>2, <1>3, <1>6, <1>8
<1>10. SubSeq(s, start, from - 1) = before /\ \A j \in 1..start - 1 : s[j] \in Blanks
  BY <1>1, <1>2, <1>3, <1>6, <1>8, <1>9
<1>11. \A i \in 1..Len(before) : s[start + i - 1] = before[i]
  <2>1. PICK to \in Nat : to = from - 1
    OBVIOUS
  <2>2. \A i \in start..to : s[i] \in STRING
    BY <2>1
  <2>3. PICK u : u = SubSeq(s, start, to)
    OBVIOUS
  <2>4. \A i \in 1..to - start + 1 : u[i] = s[start + i - 1]
    BY <2>2, <2>3, SubSeqProperties
  <2>5. u = before /\ to - start + 1 = Len(before)
    BY <1>7, <1>9, <1>10, <2>1, <2>3
  <2> QED
    BY <2>4, <2>5
<1>12. PICK b \in 0..Len(s) : b = start - 1
  <2>1. start - 1 \in 0..Len(s)
    OBVIOUS
  <2> QED
    BY <2>1
<1>13. k = 0 => w.sign = <<>>
  BY <1>2, <1>4, <1>5
<1>14. k = 1 => w.sign = <<s[b + 1]>> /\ s[b + 1] \in {"+", "-"}
  <2>1. SUFFICES ASSUME k = 1 PROVE w.sign = <<s[b + 1]>> /\ s[b + 1] \in {"+", "-"}
    OBVIOUS
  <2>2. sign \in {<<"+">>, <<"-">>}
    BY <1>4, <1>5, <2>1
  <2>3. s[b + 1] = sign[1]
    BY <1>7, <1>11, <1>12, <2>1
  <2> QED
    BY <1>2, <2>2, <2>3
<1>15. \A i \in 1..m : s[b + k + i] = prefix[i]
  <2> SUFFICES ASSUME NEW i \in 1..m PROVE s[b + k + i] = prefix[i]
    OBVIOUS
  <2>1. k + i \in 1..Len(before) /\ start + (k + i) - 1 = b + k + i
    BY <1>7, <1>12
  <2> QED
    BY <1>7, <1>11, <2>1
<1>16. from = b + k + 1 + m
  BY <1>7, <1>9, <1>12
<1>17. \/ /\ w.notation = [prefix |-> <<>>, base |-> 10] /\ w.from = b + k + 1
          /\ w.from < Len(s) => s[w.from] # "0"
       \/ /\ w.notation = [prefix |-> <<"0">>, base |-> 8] /\ w.from = b + k + 2
          /\ s[b + k + 1] = "0"
       \/ /\ w.notation = [prefix |-> <<"0", s[b + k + 2]>>, base |-> 16] /\ w.from = b + k + 3
          /\ s[b + k + 1] = "0" /\ s[b + k + 2] \in {"x", "X"}
  <2>1. w.notation \in Notations
    BY <1>1
  <2>5. "0" \in Marks /\ "x" \in Marks /\ "X" \in Marks
    BY DEF Marks
  <2>2. CASE w.notation = [prefix |-> <<>>, base |-> 10]
    <3>1. m = 0 /\ w.notation.base = 10
      BY <1>3, <1>20, <2>2, ShortTexts
    <3> QED
      BY <1>1, <1>8, <1>16, <2>2, <3>1
  <2>3. CASE w.notation = [prefix |-> <<"0">>, base |-> 8]
    <3>1. m = 1 /\ prefix[1] = "0"
      BY <1>3, <1>20, <2>3, <2>5, ShortTexts
    <3> QED
      BY <1>8, <1>15, <1>16, <2>3, <3>1
  <2>4. ASSUME NEW x \in {"x", "X"}, w.notation = [prefix |-> <<"0", x>>, base |-> 16]
        PROVE  /\ w.notation = [prefix |-> <<"0", s[b + k + 2]>>, base |-> 16]
               /\ w.from = b + k + 3 /\ s[b + k + 1] = "0" /\ s[b + k + 2] \in {"x", "X"}
    <3>1. m = 2 /\ prefix[1] = "0" /\ prefix[2] = x
      <4>1. x \in Marks
        BY DEF Marks
      <4>2. prefix = <<"0", x>>
        BY <1>3, <2>4
      <4> QED
        BY <1>20, <2>5, <4>1, <4>2, ShortTexts
    <3>2. s[b + k + 1] = "0" /\ s[b + k + 2] = x /\ from = b + k + 3
      BY <1>15, <1>16, <3>1
    <3> QED
      BY <1>8, <2>4, <3>2
  <2> QED
    BY <2>1, <2>2, <2>3, <2>4 DEF Notations
<1>18. w.from \in 1..Len(s)
  BY <1>1
<1>19. \A j \in 1..b : s[j] \in Blanks
  BY <1>10, <1>12
<1>22. \A j \in w.from..Len(s) : Digit(s[j], w.notation.base)
  BY <1>1
<1>23. Parts(s, w, b, k)
  BY <1>13, <1>14, <1>17, <1>18, <1>19, <1>22, Zenon DEF Parts
<1> QED
  BY <1>23

\* t is the n characters from place a on, all of them digits.
DigitsFrom(s, a, t, n) ==
  /\ a \in 1..Len(s) /\ \A j \in a..Len(s) : IS_HEX(s[j])
  /\ t = SubSeq(s, a, Len(s)) /\ n = Len(s) - a + 1

TextOf(s, a, t, n) == IsDigits(t, n) /\ Len(t) = n /\ \A k \in 1..n : t[k] = s[a + k - 1]

LEMMA DigitsText ==
  ASSUME NEW s \in Seq(STRING), NEW a, NEW t, NEW n, DigitsFrom(s, a, t, n)
  PROVE  TextOf(s, a, t, n)
<1>1. PICK m \in Nat : m = Len(s)
  OBVIOUS
<1>7. a \in 1..m /\ n \in Nat /\ t = SubSeq(s, a, m) /\ n = m - a + 1
  BY <1>1 DEF DigitsFrom
<1>2. a \in Int /\ m \in Int /\ \A i \in a..m : s[i] \in STRING
  BY <1>1, <1>7
<1>3. /\ t \in Seq(STRING) /\ Len(t) = IF a <= m THEN m - a + 1 ELSE 0
      /\ \A i \in 1..m - a + 1 : t[i] = s[a + i - 1]
  BY <1>2, <1>7, SubSeqProperties
<1>4. Len(t) = n /\ \A k \in 1..n : t[k] = s[a + k - 1]
  BY <1>3, <1>7
<1>5. DOMAIN t = 1..n
  BY <1>3, <1>4
<1>6. \A k \in 1..n : IS_HEX(t[k])
  <2> SUFFICES ASSUME NEW k \in 1..n PROVE IS_HEX(t[k])
    OBVIOUS
  <2>1. a + k - 1 \in a..Len(s)
    BY <1>1, <1>7
  <2>2. IS_HEX(s[a + k - 1])
    BY <2>1 DEF DigitsFrom
  <2> QED
    BY <1>4, <2>2
<1> QED
  BY <1>4, <1>5, <1>6 DEF IsDigits, TextOf

\* Where the digits of a writing begin the same for strto.
LEMMA SameDigits ==
  ASSUME NEW s \in Seq(STRING), NEW b, NEW k, NEW base, Taken(s, b, k, base),
         NEW first \in Nat, first = FirstFrom(b + k, base), first < Len(s),
         \A j \in first + 1..Len(s) : Digit(s[j], base)
  PROVE  /\ strto(s).end = Len(s)
         /\ strto(s).magnitude = Number(SubSeq(s, first + 1, Len(s)), base)
         /\ strto(s).magnitude = Value(SubSeq(s, first + 1, Len(s)), base)
         /\ strto(s).magnitude \in Nat
<1>1. LastDigit(s, first, base) = Len(s)
  BY LastIs
<1>2. /\ strto(s).end = Len(s) /\ base \in Nat
      /\ strto(s).magnitude = Number(SubSeq(s, first + 1, Len(s)), base)
  <2>1. /\ strto(s).magnitude = Number(SubSeq(s, first + 1, LastDigit(s, first, base)), base)
        /\ strto(s).end = IF LastDigit(s, first, base) = first THEN 0
                          ELSE LastDigit(s, first, base)
        /\ base \in {8, 10, 16}
    BY StrtoParts
  <2>2. Len(s) # first /\ base \in Nat
    BY <2>1
  <2> QED
    BY <1>1, <2>1, <2>2, Zenon
<1>8. PICK m \in Nat : m = Len(s)
  OBVIOUS
<1>3. PICK a \in 1..m : a = first + 1
  BY <1>8
<1>4. PICK n \in Nat : n = m - a + 1
  OBVIOUS
<1>5. PICK t : t = SubSeq(s, a, Len(s))
  OBVIOUS
<1>6. IsDigits(t, n) /\ Len(t) = n
  <2>1. \A j \in a..Len(s) : IS_HEX(s[j])
    BY <1>3 DEF Digit
  <2>2. DigitsFrom(s, a, t, n)
    BY <1>4, <1>5, <1>8, <2>1 DEF DigitsFrom
  <2> QED
    BY <2>2, DigitsText DEF TextOf
<1>7. Number(t, base) = Value(t, base) /\ Number(t, base) \in Nat
  BY <1>2, <1>6, PlaceValues
<1> QED
  BY <1>2, <1>3, <1>5, <1>7, Zenon

LEMMA WrittenIsTaken ==
  ASSUME NEW s \in Seq(STRING), NEW w, NEW b, NEW k, Parts(s, w, b, k)
  PROVE  /\ strto(s).end = Len(s)
         /\ strto(s).negated = (w.sign = <<"-">>)
         /\ strto(s).magnitude = ValueOf(s, w) /\ strto(s).magnitude \in Nat
<1>1. PICK n \in Nat : n = Len(s)
  OBVIOUS
<1>2. b \in 0..n /\ k \in {0, 1} /\ w.from \in 1..n
  BY <1>1 DEF Parts
<1>3. /\ \A j \in w.from..n : IS_HEX(s[j])
      /\ w.notation.base \in {8, 10, 16}
  BY <1>1 DEF Parts, Digit
<1>4. b + k + 1 <= n /\ IS_HEX(s[b + k + 1]) /\ b + k + 1 <= w.from
  <2>1. CASE w.from = b + k + 1
    BY <1>2, <1>3, <2>1
  <2>2. CASE s[b + k + 1] = "0" /\ w.from > b + k + 1
    BY <1>2, <2>2, ZeroDigit
  <2> QED
    BY <1>2, <2>1, <2>2 DEF Parts
<1>5. /\ b < n /\ s[b + 1] \notin Blanks
      /\ s[b + 1] \in {"+", "-"} <=> k = 1
  <2>1. CASE k = 0
    <3>1. b + k + 1 = b + 1
      BY <1>2, <2>1
    <3>2. s[b + 1] \notin Blanks /\ s[b + 1] \notin {"+", "-"}
      BY <1>4, <3>1, DigitMarks
    <3> QED
      BY <1>2, <1>4, <2>1, <3>2
  <2>2. CASE k = 1
    <3>1. s[b + 1] \in {"+", "-"}
      BY <2>2 DEF Parts
    <3>2. s[b + 1] \notin Blanks
      BY <3>1, SignMarks
    <3> QED
      BY <1>2, <1>4, <2>2, <3>1, <3>2
  <2> QED
    BY <1>2, <2>1, <2>2
<1>6. BlanksOf(s) = b
  <2>1. \A j \in 1..b : s[j] \in Blanks
    BY DEF Parts
  <2>2. b \in 0..Len(s)
    BY <1>1, <1>2
  <2> QED
    BY <1>5, <2>1, <2>2, BlanksAre
<1>7. SignOf(s, b) = k
  BY <1>1, <1>2, <1>5 DEF SignOf
<1>8. strto(s).negated = (w.sign = <<"-">>)
  <2>1. PICK base : base = BaseFrom(s, b + k)
    OBVIOUS
  <2>2. Taken(s, b, k, base)
    BY <1>6, <1>7, <2>1 DEF Taken
  <2>3. PICK first : first = FirstFrom(b + k, base)
    OBVIOUS
  <2>4. strto(s).negated = (k = 1 /\ s[b + 1] = "-")
    BY <2>2, <2>3, StrtoParts
  <2>5. CASE k = 0
    <3>1. w.sign = <<>> /\ w.sign # <<"-">>
      BY <2>5 DEF Parts
    <3> QED
      BY <2>4, <2>5, <3>1
  <2>6. CASE k = 1
    <3>1. PICK c : c = s[b + 1]
      OBVIOUS
    <3>2. w.sign = <<c>>
      BY <2>6, <3>1 DEF Parts
    <3>3. w.sign = <<"-">> <=> c = "-"
      BY <3>2
    <3>4. strto(s).negated = (c = "-")
      BY <2>4, <2>6, <3>1
    <3>5. strto(s).negated \in BOOLEAN
      BY <2>4
    <3> QED
      BY <3>3, <3>4, Zenon
  <2> QED
    BY <1>2, <2>5, <2>6
<1>9. CASE w.notation.base = 16
  <2>1. /\ w.from = b + k + 3 /\ s[b + k + 1] = "0" /\ s[b + k + 2] \in {"x", "X"}
    BY <1>9 DEF Parts
  <2>2. BaseFrom(s, b + k) = 16
    <3>1. b + k + 3 <= Len(s) /\ IS_HEX(s[b + k + 3])
      BY <1>1, <1>2, <1>3, <2>1
    <3> QED
      BY <2>1, <3>1 DEF BaseFrom
  <2>3. PICK first \in Nat : first = b + k + 2
    BY <1>2
  <2>4. first = FirstFrom(b + k, 16) /\ first + 1 = w.from /\ first < Len(s)
    BY <1>1, <1>2, <2>1, <2>3 DEF FirstFrom
  <2>5. Taken(s, b, k, 16)
    BY <1>6, <1>7, <2>2 DEF Taken
  <2>6. \A j \in first + 1..Len(s) : Digit(s[j], 16)
    BY <1>9, <2>4 DEF Parts
  <2>7. /\ strto(s).end = Len(s) /\ strto(s).magnitude \in Nat
        /\ strto(s).magnitude = Value(SubSeq(s, first + 1, Len(s)), 16)
    BY <2>4, <2>5, <2>6, SameDigits
  <2> QED
    BY <1>8, <1>9, <2>4, <2>7, Zenon DEF ValueOf
<1>10. CASE w.notation.base = 8
  <2>1. w.from = b + k + 2 /\ s[b + k + 1] = "0"
    BY <1>10 DEF Parts
  <2>2. BaseFrom(s, b + k) = 8
    <3>1. IS_HEX(s[b + k + 2])
      BY <1>2, <1>3, <2>1
    <3>2. s[b + k + 2] \notin {"x", "X"}
      BY <3>1, DigitMarks
    <3>3. b + k < Len(s)
      BY <1>1, <1>2, <1>4
    <3> QED
      BY <2>1, <3>2, <3>3 DEF BaseFrom
  <2>3. PICK first \in Nat : first = b + k
    BY <1>2
  <2>4. first = FirstFrom(b + k, 8) /\ first + 2 = w.from /\ first < Len(s)
    BY <1>1, <1>2, <2>1, <2>3 DEF FirstFrom
  <2>5. Taken(s, b, k, 8)
    BY <1>6, <1>7, <2>2 DEF Taken
  <2>6. Digit("0", 8)
    BY ZeroDigit DEF Digit
  <2>7. \A j \in first + 1..Len(s) : Digit(s[j], 8)
    <3> SUFFICES ASSUME NEW j \in first + 1..Len(s) PROVE Digit(s[j], 8)
      OBVIOUS
    <3>1. CASE j = first + 1
      BY <2>1, <2>3, <2>6, <3>1
    <3>2. CASE j # first + 1
      <4>1. j \in w.from..Len(s)
        <5>1. j \in Int /\ j > first + 1 /\ j <= Len(s)
          BY <1>1, <3>2
        <5>2. PICK from \in Int : from = w.from
          BY <1>2
        <5>3. from <= j
          BY <2>4, <5>1, <5>2
        <5> QED
          BY <1>1, <5>1, <5>2, <5>3
      <4> QED
        BY <1>10, <4>1 DEF Parts
    <3> QED
      BY <3>1, <3>2
  <2>8. /\ strto(s).end = Len(s) /\ strto(s).magnitude \in Nat
        /\ strto(s).magnitude = Number(SubSeq(s, first + 1, Len(s)), 8)
    BY <2>4, <2>5, <2>7, SameDigits
  <2>9. PICK m \in Nat : m = n - (first + 1)
    BY <1>1, <2>4
  <2>10. PICK t : t = SubSeq(s, first + 1, Len(s))
    OBVIOUS
  <2>11. PICK u : u = SubSeq(s, w.from, Len(s))
    OBVIOUS
  <2>12. IsDigits(t, m + 1) /\ \A i \in 1..m + 1 : t[i] = s[first + i]
    <3>1. PICK a \in 1..n : a = first + 1
      BY <1>1, <2>4
    <3>2. \A j \in a..Len(s) : IS_HEX(s[j])
      BY <2>7, <3>1 DEF Digit
    <3>3. PICK l \in Nat : l = m + 1 /\ l = n - a + 1
      BY <2>9, <3>1
    <3>4. IsDigits(t, l) /\ \A i \in 1..l : t[i] = s[a + i - 1]
      <4>1. t = SubSeq(s, a, Len(s))
        BY <2>10, <3>1
      <4>2. DigitsFrom(s, a, t, l)
        BY <1>1, <3>2, <3>3, <4>1 DEF DigitsFrom
      <4>3. TextOf(s, a, t, l)
        BY <4>2, DigitsText
      <4> QED
        BY <4>3, Zenon DEF TextOf
    <3>5. \A i \in 1..l : a + i - 1 = first + i
      BY <3>1
    <3> QED
      BY <3>3, <3>4, <3>5
  <2>13. IsDigits(u, m) /\ Len(u) = m /\ \A i \in 1..m : u[i] = s[first + 1 + i]
    <3>1. PICK a \in 1..n : a = w.from
      BY <1>2
    <3>2. \A j \in a..n : IS_HEX(s[j])
      BY <1>3, <3>1
    <3>3. m = n - a + 1
      <4>1. a = first + 2
        BY <2>4, <3>1
      <4> QED
        BY <2>9, <4>1
    <3>6. u = SubSeq(s, a, Len(s))
      BY <2>11, <3>1
    <3>4. IsDigits(u, m) /\ Len(u) = m /\ \A i \in 1..m : u[i] = s[a + i - 1]
      <4>1. DigitsFrom(s, a, u, m)
        BY <1>1, <3>2, <3>3, <3>6 DEF DigitsFrom
      <4>3. TextOf(s, a, u, m)
        BY <4>1, DigitsText
      <4> QED
        BY <4>3, Zenon DEF TextOf
    <3>5. \A i \in 1..m : a + i - 1 = first + 1 + i
      BY <2>4, <3>1
    <3> QED
      BY <3>4, <3>5
  <2>14. t[1] = "0" /\ \A i \in 1..m : t[i + 1] = u[i]
    <3>1. t[1] = s[first + 1] /\ first + 1 = b + k + 1
      BY <2>3, <2>12
    <3>2. ASSUME NEW i \in 1..m PROVE t[i + 1] = u[i]
      <4>1. i + 1 \in 1..m + 1 /\ first + (i + 1) = first + 1 + i
        OBVIOUS
      <4>2. t[i + 1] = s[first + (i + 1)] /\ u[i] = s[first + 1 + i]
        BY <2>12, <2>13, <4>1, Zenon
      <4> QED
        BY <4>1, <4>2, Zenon
    <3>3. t[1] = "0"
      BY <2>1, <3>1, Zenon
    <3> QED
      BY <3>2, <3>3
  <2>15. PICK e \in Nat : e = 8
    OBVIOUS
  <2>16. Number(t, e) = Number(u, e)
    <3>1. Behind0(u, t, m)
      BY <2>12, <2>13, <2>14, Zenon DEF Behind0
    <3> QED
      BY <3>1, LeadingZero
  <2>17. Number(u, e) = Value(u, e)
    BY <2>13, PlaceValues
  <2>18. ValueOf(s, w) = Value(u, 8)
    BY <1>10, <2>11, Zenon DEF ValueOf
  <2> QED
    BY <1>8, <2>8, <2>10, <2>15, <2>16, <2>17, <2>18, Zenon
<1>11. CASE w.notation.base = 10 /\ s[w.from] # "0"
  <2>1. w.from = b + k + 1
    BY <1>11 DEF Parts
  <2>2. BaseFrom(s, b + k) = 10
    BY <1>11, <2>1 DEF BaseFrom
  <2>3. PICK first \in Nat : first = b + k
    BY <1>2
  <2>4. first = FirstFrom(b + k, 10) /\ first + 1 = w.from /\ first < Len(s)
    BY <1>1, <1>2, <2>1, <2>3 DEF FirstFrom
  <2>5. Taken(s, b, k, 10)
    BY <1>6, <1>7, <2>2 DEF Taken
  <2>6. \A j \in first + 1..Len(s) : Digit(s[j], 10)
    BY <1>11, <2>4 DEF Parts
  <2>7. /\ strto(s).end = Len(s) /\ strto(s).magnitude \in Nat
        /\ strto(s).magnitude = Value(SubSeq(s, first + 1, Len(s)), 10)
    BY <2>4, <2>5, <2>6, SameDigits
  <2> QED
    BY <1>8, <1>11, <2>4, <2>7, Zenon DEF ValueOf
<1>12. CASE w.notation.base = 10 /\ s[w.from] = "0"
  <2>1. w.from = b + k + 1 /\ w.from = n
    BY <1>1, <1>2, <1>12 DEF Parts
  <2>2. BaseFrom(s, b + k) = 8
    <3>1. b + k < Len(s) /\ ~(b + k + 3 <= Len(s))
      BY <1>1, <1>2, <2>1
    <3> QED
      BY <1>12, <2>1, <3>1 DEF BaseFrom
  <2>3. PICK first \in Nat : first = b + k
    BY <1>2
  <2>4. first = FirstFrom(b + k, 8) /\ first + 1 = w.from /\ first < Len(s)
    BY <1>1, <1>2, <2>1, <2>3 DEF FirstFrom
  <2>5. Taken(s, b, k, 8)
    BY <1>6, <1>7, <2>2 DEF Taken
  <2>6. \A j \in first + 1..Len(s) : Digit(s[j], 8)
    <3>1. ASSUME NEW j \in first + 1..Len(s) PROVE s[j] = "0"
      <4>1. first + 1 = n
        BY <2>1, <2>4
      <4>2. j = n
        BY <1>1, <4>1
      <4> QED
        BY <1>12, <2>1, <4>2
    <3> QED
      BY <3>1, ZeroDigit DEF Digit
  <2>7. /\ strto(s).end = Len(s) /\ strto(s).magnitude \in Nat
        /\ strto(s).magnitude = Number(SubSeq(s, first + 1, Len(s)), 8)
    BY <2>4, <2>5, <2>6, SameDigits
  <2>8. PICK t : t = SubSeq(s, w.from, Len(s))
    OBVIOUS
  <2>9. IsDigits(t, 1) /\ Len(t) = 1 /\ t[1] = "0"
    <3>1. PICK a \in 1..n : a = w.from
      BY <1>2
    <3>2. \A j \in a..n : IS_HEX(s[j])
      BY <1>3, <3>1
    <3>3. PICK l \in Nat : l = 1 /\ l = n - a + 1
      BY <2>1, <3>1
    <3>6. t = SubSeq(s, a, Len(s))
      BY <2>8, <3>1
    <3>4. IsDigits(t, l) /\ Len(t) = l /\ \A i \in 1..l : t[i] = s[a + i - 1]
      <4>1. DigitsFrom(s, a, t, l)
        BY <1>1, <3>2, <3>3, <3>6 DEF DigitsFrom
      <4>3. TextOf(s, a, t, l)
        BY <4>1, DigitsText
      <4> QED
        BY <4>3, Zenon DEF TextOf
    <3>5. t[1] = s[a]
      BY <3>3, <3>4
    <3> QED
      BY <1>12, <3>1, <3>3, <3>4, <3>5
  <2>10. ASSUME NEW e \in Nat PROVE Number(t, e) = 0
    <3>1. PICK one \in Nat : one = 1
      OBVIOUS
    <3>2. PICK H : Counts(t, one, e, H) /\ Number(t, e) = H[one]
      BY <2>9, <3>1, NumberCounts
    <3>3. H[1] = e * H[1 - 1] + HexValue(t[1]) /\ H[0] = 0
      BY <3>1, <3>2 DEF Counts
    <3> QED
      BY <2>9, <3>1, <3>2, <3>3, ZeroDigit
  <2>11. Number(t, 8) = 0 /\ Value(t, 10) = 0
    <3>1. PICK e \in Nat : e = 10
      OBVIOUS
    <3>2. PICK one \in Nat : one = 1
      OBVIOUS
    <3>3. Number(t, e) = Value(t, e)
      BY <2>9, <3>2, PlaceValues
    <3>4. Number(t, e) = 0 /\ Number(t, 8) = 0
      BY <2>10
    <3> QED
      BY <3>1, <3>3, <3>4
  <2>12. ValueOf(s, w) = Value(t, 10)
    BY <1>12, <2>8, Zenon DEF ValueOf
  <2> QED
    BY <1>8, <2>4, <2>7, <2>8, <2>11, <2>12, Zenon
<1> QED
  BY <1>3, <1>9, <1>10, <1>11, <1>12

-----------------------------------------------------------------------------
(* The other way round. *)

Fields(w) == w = [from |-> w.from, sign |-> w.sign, notation |-> w.notation]

LEMMA PartsWrite ==
  ASSUME NEW s \in Seq(STRING), NEW w, NEW b, NEW k, Parts(s, w, b, k), Fields(w)
  PROVE  w \in Writings(s)
<1>1. PICK n \in Nat : n = Len(s)
  OBVIOUS
<1>2. b \in 0..n /\ k \in {0, 1} /\ w.from \in 1..n
  BY <1>1 DEF Parts
<1>20. b \in Nat /\ k \in Nat
  BY <1>2
<1>21. PICK from \in Nat : from = w.from /\ from \in 1..n
  BY <1>2
<1>3. PICK sign : sign = w.sign
  OBVIOUS
<1>4. PICK prefix : prefix = w.notation.prefix
  OBVIOUS
<1>5. /\ sign \in Signs /\ sign \in Seq(Marks) /\ Len(sign) = k
      /\ \A i \in 1..k : sign[i] = s[b + i]
  <2>1. CASE k = 0
    <3>1. sign = <<>>
      BY <1>3, <2>1 DEF Parts
    <3> QED
      BY <2>1, <3>1, ShortTexts DEF Signs
  <2>2. CASE k = 1
    <3>1. PICK c \in {"+", "-"} : c = s[b + 1]
      BY <2>2 DEF Parts
    <3>2. sign = <<c>>
      BY <1>3, <2>2, <3>1 DEF Parts
    <3>3. c \in Marks
      BY DEF Marks
    <3>4. sign \in Signs
      BY <3>2, Zenon DEF Signs
    <3>5. sign \in Seq(Marks) /\ Len(sign) = 1
      BY <3>2, <3>3, ShortTexts, Zenon
    <3>6. sign[1] = s[b + 1]
      BY <3>1, <3>2
    <3> QED
      BY <2>2, <3>4, <3>5, <3>6
  <2> QED
    BY <1>2, <2>1, <2>2
<1>6. PICK m \in {0, 1, 2} :
        /\ prefix \in Seq(Marks) /\ Len(prefix) = m /\ from = b + k + m + 1
        /\ w.notation \in Notations
        /\ \A i \in 1..m : prefix[i] = s[b + k + i]
        /\ w.notation.base = 10 /\ w.from < Len(s) => s[w.from] # "0"
  <2>5. "0" \in Marks /\ "x" \in Marks /\ "X" \in Marks
    BY DEF Marks
  <2>1. CASE /\ w.notation = [prefix |-> <<>>, base |-> 10] /\ w.from = b + k + 1
             /\ w.from < Len(s) => s[w.from] # "0"
    <3>1. prefix = <<>> /\ w.notation \in Notations
      BY <1>4, <2>1 DEF Notations
    <3>2. prefix \in Seq(Marks) /\ Len(prefix) = 0
      BY <3>1, ShortTexts
    <3>3. from = b + k + 0 + 1 /\ \A i \in 1..0 : prefix[i] = s[b + k + i]
      BY <1>20, <1>21, <2>1
    <3> QED
      BY <2>1, <3>1, <3>2, <3>3
  <2>2. CASE /\ w.notation = [prefix |-> <<"0">>, base |-> 8] /\ w.from = b + k + 2
             /\ s[b + k + 1] = "0"
    <3>1. prefix = <<"0">> /\ w.notation \in Notations /\ w.notation.base = 8
      BY <1>4, <2>2 DEF Notations
    <3>2. prefix \in Seq(Marks) /\ Len(prefix) = 1 /\ prefix[1] = "0"
      BY <2>5, <3>1, ShortTexts
    <3>4. from = b + k + 1 + 1
      BY <1>20, <1>21, <2>2
    <3>3. \A i \in 1..1 : prefix[i] = s[b + k + i]
      BY <2>2, <3>2
    <3> QED
      BY <3>1, <3>2, <3>3, <3>4
  <2>3. CASE /\ w.notation = [prefix |-> <<"0", s[b + k + 2]>>, base |-> 16]
             /\ w.from = b + k + 3
             /\ s[b + k + 1] = "0" /\ s[b + k + 2] \in {"x", "X"}
    <3>1. PICK x \in {"x", "X"} : x = s[b + k + 2]
      BY <2>3
    <3>2. prefix = <<"0", x>> /\ w.notation.base = 16 /\ x \in Marks
      BY <1>4, <2>3, <3>1 DEF Marks
    <3>3. w.notation \in Notations
      BY <2>3, <3>1, Zenon DEF Notations
    <3>4. prefix \in Seq(Marks) /\ Len(prefix) = 2
      BY <2>5, <3>2, ShortTexts, Zenon
    <3>5. prefix[1] = "0" /\ prefix[2] = x
      BY <3>2
    <3>8. from = b + k + 2 + 1
      BY <1>20, <1>21, <2>3
    <3>6. \A i \in 1..2 : i = 1 \/ i = 2
      OBVIOUS
    <3>7. \A i \in 1..2 : prefix[i] = s[b + k + i]
      BY <2>3, <3>1, <3>5, <3>6
    <3> QED
      BY <3>2, <3>3, <3>4, <3>7, <3>8
  <2> QED
    BY <2>1, <2>2, <2>3 DEF Parts
<1>7. PICK l \in Nat : l = k + m
  BY <1>2
<1>8. PICK before : before = sign \o prefix
  OBVIOUS
<1>9. /\ before \in Seq(Marks) /\ Len(before) = l
      /\ \A i \in 1..l : before[i] = s[b + i]
  <2>3. sign \in Seq(Marks) /\ Len(sign) = k /\ prefix \in Seq(Marks) /\ Len(prefix) = m
    BY <1>5, <1>6
  <2>1. /\ before \in Seq(Marks) /\ Len(before) = l
        /\ \A i \in 1..k : before[i] = sign[i]
        /\ \A i \in 1..m : before[k + i] = prefix[i]
    <3>1. /\ before \in Seq(Marks) /\ Len(before) = k + m
          /\ \A i \in 1..k + m : before[i] = IF i <= k THEN sign[i] ELSE prefix[i - k]
      BY <1>8, <2>3, ConcatProperties
    <3>2. ASSUME NEW i \in 1..k PROVE before[i] = sign[i]
      <4>1. i \in 1..k + m /\ i <= k
        BY <1>20
      <4> QED
        BY <3>1, <4>1
    <3>3. ASSUME NEW i \in 1..m PROVE before[k + i] = prefix[i]
      <4>1. k + i \in 1..k + m /\ ~(k + i <= k) /\ (k + i) - k = i
        BY <1>20
      <4> QED
        BY <3>1, <4>1
    <3> QED
      BY <1>7, <3>1, <3>2, <3>3
  <2>2. ASSUME NEW i \in 1..l PROVE before[i] = s[b + i]
    <3>1. CASE i <= k
      <4>1. i \in 1..k
        BY <1>2, <3>1
      <4> QED
        BY <1>5, <2>1, <4>1
    <3>2. CASE i > k
      <4>1. PICK d \in 1..m : i = k + d
        <5>1. i - k \in 1..m /\ i = k + (i - k)
          BY <1>7, <1>20, <3>2
        <5> QED
          BY <5>1
      <4>2. b + k + d = b + i
        BY <1>2, <4>1
      <4> QED
        BY <1>6, <2>1, <4>1, <4>2
    <3> QED
      BY <1>2, <3>1, <3>2
  <2> QED
    BY <2>1, <2>2
<1>22. from = b + l + 1
  BY <1>6, <1>7, <1>20
<1>10. PICK start \in 1..n : start = b + 1 /\ start = from - Len(before) /\ start <= from
  <2>1. b + 1 \in 1..n /\ b + 1 = from - l /\ b + 1 <= from
    BY <1>20, <1>21, <1>22
  <2> QED
    BY <1>9, <2>1
<1>11. PICK to \in Nat : to = from - 1 /\ to - start + 1 = l /\ to <= n
  <2>1. from - 1 \in Nat /\ (from - 1) - start + 1 = l /\ from - 1 <= n
    BY <1>10, <1>20, <1>21, <1>22
  <2> QED
    BY <2>1
<1>12. PICK u : u = SubSeq(s, start, to)
  OBVIOUS
<1>13. u \in Seq(STRING) /\ Len(u) = l /\ \A i \in 1..l : u[i] = s[start + i - 1]
  <2>1. \A i \in start..to : s[i] \in STRING
    BY <1>1, <1>11
  <2> QED
    BY <1>11, <1>12, <2>1, SubSeqProperties
<1>14. u = before
  <2>1. ASSUME NEW i \in 1..l PROVE u[i] = before[i]
    <3>1. start + i - 1 = b + i
      BY <1>2, <1>10
    <3> QED
      BY <1>9, <1>13, <3>1
  <2>2. u \in [1..l -> STRING] /\ before \in [1..l -> Marks]
    BY <1>9, <1>13
  <2> QED
    BY <2>1, <2>2
<1>15. w \in [from : 1..Len(s), sign : Signs, notation : Notations]
  BY <1>1, <1>2, <1>3, <1>5, <1>6, <1>21 DEF Fields
<1>16. \A j \in 1..start - 1 : s[j] \in Blanks
  <2>1. start - 1 = b
    BY <1>2, <1>10
  <2> QED
    BY <2>1 DEF Parts
<1>17. \A j \in w.from..Len(s) : Digit(s[j], w.notation.base)
  BY DEF Parts
<1>18. /\ start \in 1..w.from /\ SubSeq(s, start, w.from - 1) = before
       /\ start = w.from - Len(before)
  BY <1>10, <1>11, <1>12, <1>14, <1>21
<1>19. w.notation.base = 10 /\ w.from < Len(s) => s[w.from] # "0"
  BY <1>6
<1> QED
  BY <1>3, <1>4, <1>8, <1>15, <1>16, <1>17, <1>18, <1>19, Zenon DEF Writings

LEMMA TakenIsWritten ==
  ASSUME NEW s \in Seq(STRING), s # <<>>, strto(s).end = Len(s)
  PROVE  Writings(s) # {}
<1>1. PICK n \in Nat : n = Len(s) /\ n # 0
  OBVIOUS
<1>2. PICK b : b = BlanksOf(s)
  OBVIOUS
<1>3. PICK k : k = SignOf(s, b)
  OBVIOUS
<1>4. PICK base : base = BaseFrom(s, b + k)
  OBVIOUS
<1>5. PICK first : first = FirstFrom(b + k, base)
  OBVIOUS
<1>6. Taken(s, b, k, base)
  BY <1>2, <1>3, <1>4 DEF Taken
<1>7. /\ b \in 0..Len(s) /\ k \in {0, 1} /\ b + k \in 0..Len(s) /\ base \in {8, 10, 16}
      /\ strto(s).end = IF LastDigit(s, first, base) = first THEN 0
                        ELSE LastDigit(s, first, base)
  BY <1>5, <1>6, StrtoParts
<1>8. PICK a \in 0..n : a = b + k
  BY <1>1, <1>7
<1>9. first \in Nat /\ first = IF base = 16 THEN a + 2 ELSE a
  BY <1>5, <1>7, <1>8 DEF FirstFrom
<1>10. first < Len(s) /\ \A j \in first + 1..Len(s) : Digit(s[j], base)
  <2>1. LastDigit(s, first, base) = Len(s) /\ Len(s) # first /\ Len(s) # 0
    BY <1>1, <1>7
  <2> QED
    BY <1>9, <2>1, LastHolds
<1>11. a < n /\ base = BaseFrom(s, a)
  BY <1>1, <1>4, <1>7, <1>8, <1>9, <1>10
<1>12. \A j \in 1..b : s[j] \in Blanks
  BY <1>2, BlanksHold
<1>13. k = 1 => s[b + 1] \in {"+", "-"}
  BY <1>3 DEF SignOf
<1>14. PICK sign : (k = 0 => sign = <<>>) /\ (k = 1 => sign = <<s[b + 1]>>)
  <2>1. CASE k = 0
    BY <2>1
  <2>2. CASE k = 1
    <3>1. PICK t : t = <<s[b + 1]>>
      OBVIOUS
    <3> QED
      BY <2>2, <3>1
  <2> QED
    BY <1>7, <2>1, <2>2
<1>15. ASSUME NEW from \in 1..n, NEW notation,
              \A j \in from..n : Digit(s[j], notation.base),
              \/ /\ notation = [prefix |-> <<>>, base |-> 10] /\ from = a + 1
                 /\ from < n => s[from] # "0"
              \/ /\ notation = [prefix |-> <<"0">>, base |-> 8] /\ from = a + 2
                 /\ s[a + 1] = "0"
              \/ /\ notation = [prefix |-> <<"0", s[a + 2]>>, base |-> 16] /\ from = a + 3
                 /\ s[a + 1] = "0" /\ s[a + 2] \in {"x", "X"}
       PROVE  Writings(s) # {}
  <2>1. PICK w : w = [from |-> from, sign |-> sign, notation |-> notation]
    OBVIOUS
  <2>2. w.from = from /\ w.sign = sign /\ w.notation = notation
    BY <2>1
  <2>3. Fields(w)
    BY <2>1, <2>2, Zenon DEF Fields
  <2>4. w.from \in 1..Len(s)
    BY <1>1, <2>2
  <2>5. Parts(s, w, b, k)
    BY <1>1, <1>7, <1>8, <1>12, <1>13, <1>14, <1>15, <2>2, <2>4, Zenon DEF Parts
  <2>6. w \in Writings(s)
    BY <2>3, <2>5, PartsWrite
  <2> QED
    BY <2>6
<1>16. CASE base = 16
  <2>1. s[a + 1] = "0" /\ s[a + 2] \in {"x", "X"}
    BY <1>11, <1>16 DEF BaseFrom
  <2>2. PICK from \in 1..n : from = a + 3 /\ from = first + 1
    BY <1>1, <1>9, <1>10, <1>16
  <2>3. PICK notation : notation = [prefix |-> <<"0", s[a + 2]>>, base |-> 16]
    OBVIOUS
  <2>4. \A j \in from..n : Digit(s[j], notation.base)
    BY <1>1, <1>10, <1>16, <2>2, <2>3
  <2> QED
    BY <1>15, <2>1, <2>2, <2>3, <2>4, Zenon
<1>17. CASE base = 8 /\ n = a + 1
  <2>1. s[a + 1] = "0"
    BY <1>11, <1>17 DEF BaseFrom
  <2>2. PICK from \in 1..n : from = a + 1 /\ from = n
    BY <1>17
  <2>3. PICK notation : notation = [prefix |-> <<>>, base |-> 10]
    OBVIOUS
  <2>4. Digit("0", 10)
    BY ZeroDigit DEF Digit
  <2>5. \A j \in from..n : j = n
    BY <2>2
  <2>6. \A j \in from..n : Digit(s[j], notation.base)
    BY <1>17, <2>1, <2>3, <2>4, <2>5
  <2>7. ~(from < n)
    BY <2>2
  <2> QED
    BY <1>15, <2>2, <2>3, <2>6, <2>7, Zenon
<1>18. CASE base = 8 /\ n # a + 1
  <2>1. s[a + 1] = "0"
    BY <1>11, <1>18 DEF BaseFrom
  <2>2. PICK from \in 1..n : from = a + 2
    <3>1. a + 2 \in 1..n
      BY <1>11, <1>18
    <3> QED
      BY <3>1
  <2>3. PICK notation : notation = [prefix |-> <<"0">>, base |-> 8]
    OBVIOUS
  <2>4. \A j \in from..n : j \in first + 1..Len(s)
    BY <1>1, <1>9, <1>18, <2>2
  <2>5. \A j \in from..n : Digit(s[j], notation.base)
    BY <1>10, <1>18, <2>3, <2>4
  <2> QED
    BY <1>15, <2>1, <2>2, <2>3, <2>5, Zenon
<1>19. CASE base = 10
  <2>1. s[a + 1] # "0"
    BY <1>1, <1>11, <1>19 DEF BaseFrom
  <2>2. PICK from \in 1..n : from = a + 1
    BY <1>11
  <2>3. PICK notation : notation = [prefix |-> <<>>, base |-> 10]
    OBVIOUS
  <2>4. \A j \in from..n : j \in first + 1..Len(s)
    BY <1>1, <1>9, <1>19, <2>2
  <2>5. \A j \in from..n : Digit(s[j], notation.base)
    BY <1>10, <1>19, <2>3, <2>4
  <2> QED
    BY <1>15, <2>1, <2>2, <2>3, <2>5, Zenon
<1> QED
  BY <1>7, <1>16, <1>17, <1>18, <1>19

LEMMA UnsignedIs ==
  ASSUME NEW s \in Seq(STRING), s # <<>>, ULLONG_MAX \in Nat,
         NEW m, m = strto(s).magnitude, NEW v, v = IF strto(s).negated THEN Negated(m) ELSE m
  PROVE  /\ strto(s).end = Len(s) => m \in Nat
         /\ Unsigned(s) = IF strto(s).end = Len(s) /\ m <= ULLONG_MAX THEN {v} ELSE {}
<1>1. ASSUME NEW w \in Writings(s)
      PROVE  /\ strto(s).end = Len(s) /\ m \in Nat /\ ValueOf(s, w) = m
             /\ v = IF w.sign = <<"-">> THEN Negated(ValueOf(s, w)) ELSE ValueOf(s, w)
  <2>1. PICK b, k : Parts(s, w, b, k)
    BY WritingParts
  <2>2. /\ strto(s).end = Len(s)
        /\ strto(s).negated = (w.sign = <<"-">>)
        /\ strto(s).magnitude = ValueOf(s, w) /\ strto(s).magnitude \in Nat
    BY <2>1, WrittenIsTaken
  <2> QED
    BY <2>2, Zenon
<1>2. strto(s).end = Len(s) => \E w : w \in Writings(s)
  BY TakenIsWritten
<1>3. CASE strto(s).end = Len(s) /\ m <= ULLONG_MAX
  <2>1. PICK w : w \in Writings(s)
    BY <1>2, <1>3
  <2>2. ValueOf(s, w) <= ULLONG_MAX
    BY <1>1, <1>3, <2>1, Zenon
  <2>3. v \in Unsigned(s)
    BY <1>1, <2>1, <2>2, Zenon DEF Unsigned
  <2>4. \A x \in Unsigned(s) : x = v
    BY <1>1, Zenon DEF Unsigned
  <2> QED
    BY <1>1, <1>3, <2>1, <2>3, <2>4
<1>4. CASE ~(strto(s).end = Len(s) /\ m <= ULLONG_MAX)
  <2>1. \A x \in Unsigned(s) : FALSE
    BY <1>1, <1>4, Zenon DEF Unsigned
  <2> QED
    BY <1>1, <1>2, <1>4, <2>1
<1> QED
  BY <1>3, <1>4

-----------------------------------------------------------------------------
(* The conversions. *)

LEMMA EmptyText ==
  /\ strto(<<>>).magnitude = 0 /\ ~strto(<<>>).negated /\ strto(<<>>).end = 0
<1>1. PICK s \in Seq(STRING) : s = <<>> /\ Len(s) = 0
  <2>1. <<>> \in Seq(STRING) /\ Len(<<>>) = 0
    OBVIOUS
  <2> QED
    BY <2>1
<1>2. BlanksOf(s) = 0
  <2>1. BlanksOf(s) \in 0..0
    BY <1>1, BlanksHold
  <2> QED
    BY <2>1
<1>3. SignOf(s, 0) = 0
  BY <1>1 DEF SignOf
<1>4. BaseFrom(s, 0) = 10
  BY <1>1 DEF BaseFrom
<1>5. PICK zero \in Nat : zero = 0
  OBVIOUS
<1>6. Taken(s, zero, zero, 10)
  BY <1>2, <1>3, <1>4, <1>5 DEF Taken
<1>7. zero = FirstFrom(zero + zero, 10)
  BY <1>5 DEF FirstFrom
<1>8. LastDigit(s, zero, 10) = zero
  <2> DEFINE S == {zero} \cup {i \in zero + 1..Len(s) : \A j \in zero + 1..i : Digit(s[j], 10)}
  <2>1. S = {zero}
    BY <1>1, <1>5
  <2> HIDE DEF S
  <2>2. Max(S) = zero
    <3>1. S \subseteq Int /\ zero \in S /\ \A x \in S : x <= zero
      BY <1>5, <2>1
    <3> QED
      BY <3>1, Greatest
  <2> QED
    BY <2>2, Zenon DEF S, LastDigit
<1>9. /\ strto(s).magnitude = Number(SubSeq(s, zero + 1, LastDigit(s, zero, 10)), 10)
      /\ strto(s).negated = (zero = 1 /\ s[zero + 1] = "-")
      /\ strto(s).end = IF LastDigit(s, zero, 10) = zero THEN 0 ELSE LastDigit(s, zero, 10)
  BY <1>6, <1>7, StrtoParts
<1>10. PICK t : t = SubSeq(s, zero + 1, LastDigit(s, zero, 10))
  OBVIOUS
<1>11. Number(t, 10) = 0
  <2>1. t = <<>>
    BY <1>1, <1>5, <1>8, <1>10
  <2>2. IsDigits(t, zero)
    BY <1>5, <2>1 DEF IsDigits
  <2>3. PICK base \in Nat : base = 10
    OBVIOUS
  <2>4. PICK H : Counts(t, zero, base, H) /\ Number(t, base) = H[zero]
    BY <2>2, NumberCounts
  <2> QED
    BY <1>5, <2>3, <2>4 DEF Counts
<1> QED
  <2>1. strto(s).magnitude = 0
    BY <1>9, <1>10, <1>11, Zenon
  <2>2. strto(s).end = 0
    BY <1>8, <1>9
  <2>3. ~strto(s).negated
    <3>1. ~(zero = 1 /\ s[zero + 1] = "-")
      BY <1>5
    <3> QED
      BY <1>9, <3>1, Zenon
  <2>4. s = <<>>
    BY <1>1
  <2> QED
    BY <2>1, <2>2, <2>3, <2>4, Zenon

LEMMA NegatedNatural ==
  ASSUME NEW m \in Nat, m <= ULLONG_MAX PROVE Negated(m) \in Nat
BY LimitsAssumption DEF Negated

\* The numbers of a type an unsigned argument may be: one or none.
Fits(s, limit) == {n \in IF s = <<>> THEN {0} ELSE Unsigned(s) : n <= limit}

LEMMA UnsignedConverts ==
  ASSUME NEW s \in Seq(STRING), NEW limit \in {UINT_MAX, ULLONG_MAX}
  PROVE  \/ Fits(s, limit) = {} /\ ConvertUnsigned(s, limit) = Thrown
         \/ /\ Fits(s, limit) = {ConvertUnsigned(s, limit)}
            /\ ConvertUnsigned(s, limit) \in Nat
<1>1. limit \in Nat /\ ULLONG_MAX \in Nat
  BY LimitsAssumption
<1>2. PICK m : m = strto(s).magnitude
  OBVIOUS
<1>3. PICK v : v = IF strto(s).negated THEN Negated(m) ELSE m
  OBVIOUS
<1>4. ConvertUnsigned(s, limit) = IF m > ULLONG_MAX \/ v > limit \/ strto(s).end # Len(s)
                                  THEN Thrown ELSE v
  BY <1>2, <1>3, Zenon DEF ConvertUnsigned
<1>5. CASE s = <<>>
  <2>1. m = 0 /\ v = 0 /\ strto(s).end = 0 /\ Len(s) = 0
    BY <1>2, <1>3, <1>5, EmptyText
  <2>2. ConvertUnsigned(s, limit) = 0
    BY <1>1, <1>4, <2>1
  <2>3. Fits(s, limit) = {0}
    BY <1>1, <1>5 DEF Fits
  <2> QED
    BY <2>2, <2>3
<1>6. CASE s # <<>>
  <2>1. /\ strto(s).end = Len(s) => m \in Nat
        /\ Unsigned(s) = IF strto(s).end = Len(s) /\ m <= ULLONG_MAX THEN {v} ELSE {}
    BY <1>1, <1>2, <1>3, <1>6, UnsignedIs
  <2>2. Fits(s, limit) = {n \in Unsigned(s) : n <= limit}
    BY <1>6, Zenon DEF Fits
  <2>3. CASE strto(s).end = Len(s) /\ m <= ULLONG_MAX
    <3>1. m \in Nat
      BY <2>1, <2>3
    <3>2. v \in Nat
      BY <1>3, <2>3, <3>1, NegatedNatural
    <3>3. Unsigned(s) = {v}
      BY <2>1, <2>3
    <3>4. CASE v <= limit
      <4>1. ConvertUnsigned(s, limit) = v
        BY <1>1, <1>4, <2>3, <3>1, <3>2, <3>4
      <4> QED
        BY <2>2, <3>2, <3>3, <3>4, <4>1
    <3>5. CASE v > limit
      <4>1. ConvertUnsigned(s, limit) = Thrown
        BY <1>4, <3>5
      <4>2. ~(v <= limit)
        BY <1>1, <3>2, <3>5
      <4> QED
        BY <2>2, <3>3, <4>1, <4>2
    <3> QED
      BY <1>1, <3>2, <3>4, <3>5
  <2>4. CASE ~(strto(s).end = Len(s) /\ m <= ULLONG_MAX)
    <3>1. Unsigned(s) = {}
      BY <2>1, <2>4
    <3>2. strto(s).end # Len(s) \/ m > ULLONG_MAX
      BY <1>1, <2>1, <2>4
    <3>3. ConvertUnsigned(s, limit) = Thrown
      BY <1>4, <3>2
    <3> QED
      BY <2>2, <3>1, <3>3
  <2> QED
    BY <2>3, <2>4
<1> QED
  BY <1>5, <1>6

\* The condition of the range holds whatever the value is.
LEMMA SignedThrows == \A s : ConvertSigned(s) = Thrown
<1>1. INT_MAX # 0
  BY LimitsAssumption
<1>2. \A value : SignedRangeError(value)
  BY <1>1 DEF SignedRangeError
<1> QED
  BY <1>2, Zenon DEF ConvertSigned

LEMMA WordsDiffer == \A word \in FalseWords : word \notin TruthWords
<1>1. /\ <<"f", "a", "l", "s", "e">> # <<"t", "r", "u", "e">>
      /\ <<"f", "a", "l", "s", "e">> # <<"1">>
      /\ <<"0">> # <<"t", "r", "u", "e">> /\ <<"0">> # <<"1">>
  OBVIOUS
<1> QED
  BY <1>1, Zenon DEF FalseWords, TruthWords

LEMMA BoolConverts ==
  ASSUME NEW s
  PROVE  \/ /\ ToLower(s) \in TruthWords \cup FalseWords
            /\ ConvertBool(s) = (ToLower(s) \in TruthWords)
            /\ ConvertBool(s) \in BOOLEAN
         \/ ToLower(s) \notin TruthWords \cup FalseWords /\ ConvertBool(s) = Thrown
<1>1. PICK word : word = ToLower(s)
  OBVIOUS
<1>2. ConvertSigned(s) = Thrown
  BY SignedThrows
<1>3. ConvertBool(s) = CASE word \in TruthWords -> TRUE
                         [] word \in FalseWords -> FALSE
                         [] OTHER -> IF ConvertSigned(s) = Thrown THEN Thrown
                                     ELSE ConvertSigned(s) # 0
  BY <1>1, Zenon DEF ConvertBool
<1>4. CASE word \in TruthWords
  <2>1. word \notin FalseWords
    BY <1>4, WordsDiffer
  <2>2. ConvertBool(s) = TRUE
    BY <1>3, <1>4, <2>1
  <2> QED
    BY <1>1, <1>4, <2>2
<1>5. CASE word \in FalseWords
  <2>1. word \notin TruthWords
    BY <1>5, WordsDiffer
  <2>2. ConvertBool(s) = FALSE
    BY <1>3, <1>5, <2>1
  <2>3. (word \in TruthWords) = FALSE
    BY <2>1
  <2>4. ConvertBool(s) = (word \in TruthWords)
    BY <2>2, <2>3, Zenon
  <2>5. ConvertBool(s) \in BOOLEAN
    BY <2>2
  <2> QED
    BY <1>1, <1>5, <2>4, <2>5, Zenon
<1>6. CASE word \notin TruthWords /\ word \notin FalseWords
  <2>1. ConvertBool(s) = Thrown
    BY <1>2, <1>3, <1>6
  <2> QED
    BY <1>1, <1>6, <2>1
<1> QED
  BY <1>4, <1>5, <1>6

\* What asking for an argument of the text s may answer.
Answered(s, type, value) ==
  /\ type = "int" => value \in {Thrown, Default}
  /\ type = "bool" => IF ToLower(s) \in TruthWords \cup FalseWords
                      THEN value = (ToLower(s) \in TruthWords)
                      ELSE value \in {Thrown, Default}
  /\ type = "unsigned" =>
       IF Fits(s, UINT_MAX) = {} THEN value \in {Thrown, Default} ELSE {value} = Fits(s, UINT_MAX)
  /\ type = "unsigned_long_long" =>
       IF Fits(s, ULLONG_MAX) = {} THEN value \in {Thrown, Default} ELSE {value} = Fits(s, ULLONG_MAX)
  /\ type = "string" => value = s

LEMMA ConvertAnswers ==
  ASSUME NEW s \in Texts, NEW type \in Types, NEW c, c = Convert(type, s),
         NEW value, value = IF c = Thrown THEN Default ELSE c
  PROVE  Answered(s, type, c) /\ Answered(s, type, value)
<1>1. s \in Seq(STRING) /\ s # Thrown /\ \A n \in Nat \cup BOOLEAN : n # Thrown
  BY TextsAssumption
<1>2. CASE type = "int"
  <2>1. c = ConvertSigned(s)
    BY <1>2 DEF Convert
  <2>2. c = Thrown /\ value = Default
    BY <2>1, SignedThrows
  <2> QED
    BY <1>2, <2>2 DEF Answered
<1>3. CASE type = "bool"
  <2>1. c = ConvertBool(s)
    BY <1>3 DEF Convert
  <2>2. CASE /\ ToLower(s) \in TruthWords \cup FalseWords
             /\ c = (ToLower(s) \in TruthWords) /\ c \in BOOLEAN
    <3>1. c # Thrown /\ value = c
      BY <1>1, <2>2
    <3>2. c = (ToLower(s) \in TruthWords) /\ value = (ToLower(s) \in TruthWords)
      BY <2>2, <3>1, Zenon
    <3>3. type # "int" /\ type # "unsigned" /\ type # "unsigned_long_long" /\ type # "string"
      BY <1>3
    <3> QED
      BY <2>2, <3>2, <3>3, Zenon DEF Answered
  <2>3. CASE ToLower(s) \notin TruthWords \cup FalseWords /\ c = Thrown
    <3>1. value = Default
      BY <2>3
    <3> QED
      BY <1>3, <2>3, <3>1 DEF Answered
  <2> QED
    BY <2>1, <2>2, <2>3, BoolConverts
<1>4. CASE type = "unsigned"
  <2>1. c = ConvertUnsigned(s, UINT_MAX)
    BY <1>4 DEF Convert
  <2>2. PICK limit \in {UINT_MAX, ULLONG_MAX} : limit = UINT_MAX
    OBVIOUS
  <2>3. (Fits(s, limit) = {} /\ c = Thrown) \/ (Fits(s, limit) = {c} /\ c \in Nat)
    BY <1>1, <2>1, <2>2, UnsignedConverts
  <2>4. CASE Fits(s, UINT_MAX) = {} /\ c = Thrown
    BY <1>4, <2>4 DEF Answered
  <2>5. CASE Fits(s, UINT_MAX) = {c} /\ c \in Nat
    <3>1. value = c
      BY <1>1, <2>5
    <3> QED
      BY <1>4, <2>5, <3>1 DEF Answered
  <2> QED
    BY <2>2, <2>3, <2>4, <2>5
<1>5. CASE type = "unsigned_long_long"
  <2>1. c = ConvertUnsigned(s, ULLONG_MAX)
    BY <1>5 DEF Convert
  <2>2. PICK limit \in {UINT_MAX, ULLONG_MAX} : limit = ULLONG_MAX
    OBVIOUS
  <2>3. (Fits(s, limit) = {} /\ c = Thrown) \/ (Fits(s, limit) = {c} /\ c \in Nat)
    BY <1>1, <2>1, <2>2, UnsignedConverts
  <2>4. CASE Fits(s, ULLONG_MAX) = {} /\ c = Thrown
    BY <1>5, <2>4 DEF Answered
  <2>5. CASE Fits(s, ULLONG_MAX) = {c} /\ c \in Nat
    <3>1. value = c
      BY <1>1, <2>5
    <3> QED
      BY <1>5, <2>5, <3>1 DEF Answered
  <2> QED
    BY <2>2, <2>3, <2>4, <2>5
<1>6. CASE type = "string"
  <2>1. c = s
    BY <1>6 DEF Convert
  <2>2. value = s
    BY <1>1, <2>1
  <2> QED
    BY <1>6, <2>1, <2>2 DEF Answered
<1> QED
  BY <1>2, <1>3, <1>4, <1>5, <1>6 DEF Types

\* The next state of a handler that asks.
LEMMA AskedConverts ==
  ASSUME asked' \in Types, text' = Missing => answer' \in {Thrown, Default},
         text' # Missing => Answered(text', asked', answer')
  PROVE  ArgumentsConvert'
<1> DEFINE limit == IF asked' = "unsigned" THEN UINT_MAX ELSE ULLONG_MAX
<1> DEFINE fits == {n \in IF text' = <<>> THEN {0} ELSE Unsigned(text') : n <= limit}
<1>1. fits = Fits(text', limit)
  BY Zenon DEF Fits
<1> HIDE DEF fits
<1>2. CASE text' = Missing
  BY <1>2 DEF ArgumentsConvert
<1>3. CASE text' # Missing /\ asked' = "int"
  <2>1. answer' \in {Thrown, Default}
    BY <1>3 DEF Answered
  <2> QED
    BY <1>3, <2>1 DEF ArgumentsConvert
<1>4. CASE text' # Missing /\ asked' = "bool"
  <2>1. IF ToLower(text') \in TruthWords \cup FalseWords
        THEN answer' = (ToLower(text') \in TruthWords) ELSE answer' \in {Thrown, Default}
    BY <1>4, Zenon DEF Answered
  <2> QED
    BY <1>4, <2>1 DEF ArgumentsConvert
<1>5. CASE text' # Missing /\ asked' \in {"unsigned", "unsigned_long_long"}
  <2>1. IF fits = {} THEN answer' \in {Thrown, Default} ELSE {answer'} = fits
    BY <1>1, <1>5 DEF Answered
  <2> QED
    BY <1>5, <2>1 DEF ArgumentsConvert, fits
<1>6. CASE text' # Missing /\ asked' = "string"
  <2>1. answer' = text'
    BY <1>6 DEF Answered
  <2> QED
    BY <1>6, <2>1 DEF ArgumentsConvert
<1> QED
  BY <1>2, <1>3, <1>4, <1>5, <1>6 DEF Types

\* The argument stays the one of the query.
Known == text \in Texts \cup {Missing}

LEMMA InitConverts == ASSUME Init PROVE Known /\ ArgumentsConvert
<1>1. asked = None /\ text \in Texts \cup {Missing}
  BY DEF Init
<1> QED
  BY <1>1, Zenon DEF Known, ArgumentsConvert

LEMMA NextConverts ==
  ASSUME Known, ArgumentsConvert, [Next]_vars PROVE Known' /\ ArgumentsConvert'
<1>1. CASE UNCHANGED vars
  <2>1. text' = text /\ asked' = asked /\ answer' = answer
    BY <1>1 DEF vars
  <2> QED
    BY <2>1, Zenon DEF Known, ArgumentsConvert
<1>2. ASSUME NEW type \in Types, getQueryArg(type) \/ getQueryArgOr(type)
      PROVE  Known' /\ ArgumentsConvert'
  <2>1. PICK c : c = Convert(type, text)
    OBVIOUS
  <2>2. /\ text' = text /\ asked' = type
        /\ text = Missing => answer' \in {Thrown, Default}
        /\ text # Missing => answer' \in {c, IF c = Thrown THEN Default ELSE c}
    BY <1>2, <2>1, Zenon DEF getQueryArg, getQueryArgOr, Answer
  <2>3. text # Missing => Answered(text, type, answer')
    <3>1. SUFFICES ASSUME text # Missing PROVE Answered(text, type, answer')
      OBVIOUS
    <3>2. PICK s \in Texts : s = text
      BY <3>1 DEF Known
    <3>3. PICK value : value = IF c = Thrown THEN Default ELSE c
      OBVIOUS
    <3>4. Answered(s, type, c) /\ Answered(s, type, value)
      BY <2>1, <3>2, <3>3, ConvertAnswers
    <3> QED
      BY <2>2, <3>1, <3>2, <3>3, <3>4
  <2>4. Known'
    BY <2>2 DEF Known
  <2>5. asked' \in Types
    BY <2>2
  <2>6. text' = Missing => answer' \in {Thrown, Default}
    BY <2>2
  <2>7. text' # Missing => Answered(text', asked', answer')
    BY <2>2, <2>3, Zenon
  <2> QED
    BY <2>4, <2>5, <2>6, <2>7, AskedConverts
<1> QED
  BY <1>1, <1>2 DEF Next

\* Whatever the text and the limits of the types, a handler that asks for an
\* argument is answered what ArgumentsConvert says of string_traits.h.
THEOREM ArgumentsConverted == Spec => []ArgumentsConvert
<1>1. Init => Known /\ ArgumentsConvert
  BY InitConverts
<1>2. (Known /\ ArgumentsConvert) /\ [Next]_vars => (Known /\ ArgumentsConvert)'
  BY NextConverts
<1> QED
  BY <1>1, <1>2, PTL DEF Spec
=============================================================================
