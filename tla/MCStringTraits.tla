--------------------------- MODULE MCStringTraits ---------------------------
(***************************************************************************)
(* Every text of up to four of the characters that numbers are written     *)
(* with, a number behind a tab, and the spellings of the truth values.  A  *)
(* byte is the widest type and an int has three bits, so that every range  *)
(* ends inside.                                                            *)
(***************************************************************************)
EXTENDS StringTraits

Words == {<<"t", "r", "u", "e">>, <<"T", "R", "u", "E">>, <<"F", "a", "l", "s", "e">>}
MCTexts == Words \cup {<<TAB, "7">>} \cup UNION {[1..n -> {"0", "1", "7", "9", "f", "x", "-", " "}] : n \in 0..4}
=============================================================================
