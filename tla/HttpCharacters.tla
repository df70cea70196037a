--------------------------- MODULE HttpCharacters ---------------------------
(***************************************************************************)
(* The character classes of http_parser.c, strict build: a character is a  *)
(* string of length one, or a name: NUL, BEL (a control character without  *)
(* meaning), DEL, GRAVE (the backquote), HIGH (a byte above 127).          *)
(***************************************************************************)
EXTENDS Integers, Sequences, Functions, TLC

CR  == "\r"
LF  == "\n"
TAB == "\t"
FF  == "\f"

\* What reading past the end of a C string literal yields.
NUL == "NUL"

Lowercase == <<"a", "b", "c", "d", "e", "f", "g", "h", "i", "j", "k", "l", "m",
               "n", "o", "p", "q", "r", "s", "t", "u", "v", "w", "x", "y", "z">>
Uppercase == <<"A", "B", "C", "D", "E", "F", "G", "H", "I", "J", "K", "L", "M",
               "N", "O", "P", "Q", "R", "S", "T", "U", "V", "W", "X", "Y", "Z">>
Digits == <<"0", "1", "2", "3", "4", "5", "6", "7", "8", "9">>
Punctuation == {"!", "\"", "#", "$", "%", "&", "'", "(", ")", "*", "+", ",", "-",
                ".", "/", ":", ";", "<", "=", ">", "?", "@", "[", "\\", "]", "^",
                "_", "GRAVE", "{", "|", "}", "~"}
Controls == {CR, LF, TAB, FF, NUL, "BEL", "DEL"}

DigitSet == Range(Digits)
LetterSet == Range(Lowercase) \cup Range(Uppercase)

IS_NUM(c) == c \in DigitSet
IS_ALPHA(c) == c \in LetterSet
IS_ALPHANUM(c) == IS_NUM(c) \/ IS_ALPHA(c)
IS_HEX(c) == IS_NUM(c) \/ c \in {"a", "b", "c", "d", "e", "f",
                                 "A", "B", "C", "D", "E", "F"}
Visible(c) == IS_ALPHANUM(c) \/ c \in Punctuation

\* c | 0x20.  A letter becomes its lower case, but others move as well: a tab
\* becomes a parenthesis, NUL a blank.
Setting0x20 ==
  [x \in Range(Uppercase) |-> Lowercase[CHOOSE i \in 1..26 : Uppercase[i] = x]]
  @@ ("@" :> "GRAVE") @@ ("[" :> "{") @@ ("\\" :> "|") @@ ("]" :> "}")
  @@ ("^" :> "~") @@ ("_" :> "DEL") @@ (NUL :> " ") @@ ("BEL" :> "'")
  @@ (TAB :> ")") @@ (LF :> "*") @@ (FF :> ",") @@ (CR :> "-")

LOWER(c) == IF c \in DOMAIN Setting0x20 THEN Setting0x20[c] ELSE c

Separators == {"(", ")", "<", ">", "@", ",", ";", ":", "\\", "\"", "/", "[", "]",
               "?", "=", "{", "}"}

\* TOKEN and STRICT_TOKEN: whether the tokens table has an entry.  The entry is
\* the lower case of the character.
TOKEN(c) == Visible(c) /\ c \notin Separators
Lowered(c) == IF IS_ALPHA(c) THEN LOWER(c) ELSE c

IS_MARK(c) == c \in {"-", "_", ".", "!", "~", "*", "'", "(", ")"}
IS_USERINFO_CHAR(c) == \/ IS_ALPHANUM(c) \/ IS_MARK(c)
                       \/ c \in {"%", ";", ":", "&", "=", "+", "$", ","}
IS_HOST_CHAR(c) == IS_ALPHANUM(c) \/ c \in {".", "-"}

\* normal_url_char, strict.
IS_URL_CHAR(c) == Visible(c) /\ c \notin {"#", "?"}

IS_HEADER_CHAR(c) == c \in {CR, LF, TAB} \/ c \notin Controls

DigitValue(c) == (CHOOSE i \in 1..10 : Digits[i] = c) - 1
\* unhex, where it is not -1.
HexValue(c) ==
  IF IS_NUM(c) THEN DigitValue(c)
  ELSE 9 + CHOOSE i \in 1..6 : c \in {Lowercase[i], Uppercase[i]}

\* word[i] of a C string literal.
At(word, i) == IF i < Len(word) THEN word[i + 1] ELSE NUL
=============================================================================
