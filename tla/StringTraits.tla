---------------------------- MODULE StringTraits ----------------------------
(***************************************************************************)
(* StringTraits (src/definitions/strings/string_traits.h) and the two      *)
(* getQueryArg of HttpRequest (src/http/http_request.h) that convert a     *)
(* query argument with it.  A handler asks once, for an argument of any    *)
(* text.  Floating point is left out.                                      *)
(***************************************************************************)
EXTENDS HttpCharacters, SequencesExt, FiniteSetsExt

CONSTANTS
  Texts,        \* what an argument may be
  ULLONG_MAX, UINT_MAX, INT_MAX,  \* the greatest values of the types
  Missing,      \* no argument of the name
  Thrown,       \* an exception
  Default,      \* the defaultParam given
  None          \* nothing asked yet

ASSUME LimitsAssumption ==
  INT_MAX \in Nat \ {0} /\ UINT_MAX \in Nat \ 0..INT_MAX /\ ULLONG_MAX \in Nat \ 0..UINT_MAX - 1

ASSUME TextsAssumption ==
  Texts \subseteq Seq(STRING) /\ Thrown \notin Nat \cup BOOLEAN \cup Texts

VARIABLES
  text,         \* the argument's entry in mQueryArgs
  asked,        \* the type asked for
  answer

vars == <<text, asked, answer>>

-----------------------------------------------------------------------------
(* strtoull and strtoll, base 0, as far as they agree. *)

Blanks == {" ", TAB, LF, "VT", FF, CR}
Digit(c, base) == IS_HEX(c) /\ HexValue(c) < base
Number(digits, base) == FoldLeft(LAMBDA n, c : base * n + HexValue(c), 0, digits)
BaseOf(rest) ==
  CASE Len(rest) >= 3 /\ rest[1] = "0" /\ rest[2] \in {"x", "X"} /\ IS_HEX(rest[3]) -> 16
    [] OTHER -> IF rest # <<>> /\ Head(rest) = "0" THEN 8 ELSE 10

\* The leading blanks, whether a sign follows them, and the last digit behind
\* the first characters.
BlanksOf(s) == Max({0} \cup {i \in DOMAIN s : \A j \in 1..i : s[j] \in Blanks})
SignOf(s, blanks) == IF blanks < Len(s) /\ s[blanks + 1] \in {"+", "-"} THEN 1 ELSE 0
LastDigit(s, first, base) ==
  Max({first} \cup {i \in first + 1..Len(s) : \A j \in first + 1..i : Digit(s[j], base)})

\* The magnitude, whether it is negated and how many characters were taken:
\* none where no digit is.
strto(s) ==
  LET blanks == BlanksOf(s)
      sign == SignOf(s, blanks)
      base == BaseOf(SubSeq(s, blanks + sign + 1, Len(s)))
      first == blanks + sign + IF base = 16 THEN 2 ELSE 0
      last == LastDigit(s, first, base)
  IN [magnitude |-> Number(SubSeq(s, first + 1, last), base),
      negated |-> sign = 1 /\ s[blanks + 1] = "-",
      end |-> IF last = first THEN 0 ELSE last]

-----------------------------------------------------------------------------
(* The conversions. *)

\* A negated value wraps.
Negated(n) == IF n = 0 THEN 0 ELSE ULLONG_MAX + 1 - n

\* IntegerConverter<T, false>.  The range is tested when the value has wrapped.
ConvertUnsigned(s, limit) ==
  LET read == strto(s)
      value == IF read.negated THEN Negated(read.magnitude) ELSE read.magnitude
  IN IF read.magnitude > ULLONG_MAX \/ value > limit \/ read.end # Len(s)
     THEN Thrown ELSE value

INT_MIN == -INT_MAX - 1

\* Mistake: the value is compared with the upper limit.
SignedRangeErrorTested(value) == value < INT_MIN \/ value > INT_MAX

\* The upper limit is not compared with the value, it is the condition.
SignedRangeError(value) == value < INT_MIN \/ INT_MAX # 0

\* IntegerConverter<T, true>.
ConvertSigned(s) ==
  LET read == strto(s)
      value == IF read.negated THEN -read.magnitude ELSE read.magnitude
  IN IF SignedRangeError(value) \/ read.end # Len(s) THEN Thrown ELSE value

\* A word, or else what an int would be.
TruthWords == {<<"t", "r", "u", "e">>, <<"1">>}
FalseWords == {<<"f", "a", "l", "s", "e">>, <<"0">>}
ToLower(s) == [i \in DOMAIN s |-> Lowered(s[i])]
ConvertBool(s) ==
  CASE ToLower(s) \in TruthWords -> TRUE
    [] ToLower(s) \in FalseWords -> FALSE
    [] OTHER -> IF ConvertSigned(s) = Thrown THEN Thrown ELSE ConvertSigned(s) # 0

Types == {"int", "unsigned", "unsigned_long_long", "bool", "string"}
Convert(type, s) ==
  CASE type = "int" -> ConvertSigned(s)
    [] type = "unsigned" -> ConvertUnsigned(s, UINT_MAX)
    [] type = "unsigned_long_long" -> ConvertUnsigned(s, ULLONG_MAX)
    [] type = "bool" -> ConvertBool(s)
    [] type = "string" -> s

-----------------------------------------------------------------------------

Init == text \in Texts \cup {Missing} /\ asked = None /\ answer = None

Answer(type, value) == asked = None /\ asked' = type /\ answer' = value /\ UNCHANGED text

getQueryArg(type) == Answer(type, IF text = Missing THEN Thrown ELSE Convert(type, text))

getQueryArgOr(type) ==
  Answer(type, IF text = Missing THEN Default
               ELSE IF Convert(type, text) = Thrown THEN Default ELSE Convert(type, text))

Next == \E type \in Types : getQueryArg(type) \/ getQueryArgOr(type)

Spec == Init /\ [][Next]_vars

-----------------------------------------------------------------------------

\* How a number may be written: blanks, a sign, a prefix and the digits of its
\* base.  A decimal number does not begin with 0.
Notations == {[prefix |-> <<>>, base |-> 10], [prefix |-> <<"0">>, base |-> 8],
              [prefix |-> <<"0", "x">>, base |-> 16], [prefix |-> <<"0", "X">>, base |-> 16]}
Signs == {<<>>, <<"+">>, <<"-">>}
Writings(s) ==
  {w \in [from : 1..Len(s), sign : Signs, notation : Notations] :
     LET before == w.sign \o w.notation.prefix
         start == w.from - Len(before)
     IN /\ start \in 1..w.from /\ SubSeq(s, start, w.from - 1) = before
        /\ \A j \in 1..start - 1 : s[j] \in Blanks
        /\ \A j \in w.from..Len(s) : Digit(s[j], w.notation.base)
        /\ w.notation.base = 10 /\ w.from < Len(s) => s[w.from] # "0"}

\* Its value: the sum of its digits, each times the power of the base at its place.
Power(base, n) == FoldLeft(LAMBDA p, i : base * p, 1, [i \in 1..n |-> i])
Value(digits, base) ==
  FoldLeft(LAMBDA sum, i : sum + HexValue(digits[i]) * Power(base, Len(digits) - i), 0,
           [i \in DOMAIN digits |-> i])
ValueOf(s, w) == Value(SubSeq(s, w.from, Len(s)), w.notation.base)

\* What the text s is as an unsigned number: one number or none.
Unsigned(s) ==
  {IF w.sign = <<"-">> THEN Negated(ValueOf(s, w)) ELSE ValueOf(s, w) :
     w \in {v \in Writings(s) : ValueOf(s, v) <= ULLONG_MAX}}

\* Whatever the text: no handler ever gets a signed argument (string_traits.h:34)
\* nor, through it, a bool that is written as another number than 0 and 1; an
\* unsigned argument is the number written - in octal behind a 0, modulo the
\* width behind a minus - if its type has it, and 0 of an empty text.  What does
\* not convert throws, or is the default, never another value.
ArgumentsConvert ==
  asked # None =>
    LET refused == answer \in {Thrown, Default}
        limit == IF asked = "unsigned" THEN UINT_MAX ELSE ULLONG_MAX
        fits == {n \in IF text = <<>> THEN {0} ELSE Unsigned(text) : n <= limit}
    IN CASE text = Missing \/ asked = "int" -> refused
         [] text # Missing /\ asked = "bool" ->
              IF ToLower(text) \in TruthWords \cup FalseWords
              THEN answer = (ToLower(text) \in TruthWords)
              ELSE refused
         [] text # Missing /\ asked \in {"unsigned", "unsigned_long_long"} ->
              IF fits = {} THEN refused ELSE {answer} = fits
         [] text # Missing /\ asked = "string" -> answer = text
=============================================================================
