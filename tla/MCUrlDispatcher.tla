-------------------------- MODULE MCUrlDispatcher --------------------------
(***************************************************************************)
(* Routes and requests for model checking UrlDispatcher.                   *)
(***************************************************************************)
EXTENDS UrlDispatcher

CONSTANTS GET, POST

Path(segments) == FoldLeft(LAMBDA path, s : path \o <<"/">> \o s, <<>>, segments)

X == <<"{", "x", "}">>
A == <<"a">>
B == <<"b">>
AB == <<"a", "b">>

\* Routes without arguments: prefixes of each other at every character, and
\* two that part inside a segment.
LiteralPaths == {<<"/">>, Path(<<A>>), Path(<<AB>>), Path(<<AB, B>>),
                 Path(<<A, B>>)}

\* Routes with arguments: behind a literal, behind an argument, and with
\* literals below that are prefixes of each other.
ArgumentPaths == {Path(<<A>>), Path(<<A, X>>), Path(<<A, X, A>>),
                  Path(<<A, X, AB>>), Path(<<B, X, X>>)}

\* An argument under two names.
RenamedPaths == {Path(<<A>>), Path(<<A, X>>), Path(<<A, <<"{", "i", "d", "}">>, B>>)}

Owner(paths, methods, most) == [paths |-> paths, methods |-> methods, most |-> most]
MCOwners == {Owner(LiteralPaths, {GET, POST}, 4), Owner(ArgumentPaths, {GET}, 5)}
RenamingOwners == {Owner(RenamedPaths, {GET}, 5)}

\* Every path of up to three segments, and the root.
AllRequests == {<<"/">>} \cup
  {Path(s) : s \in UNION {[1..n -> {A, B, AB}] : n \in 1..3}}

=============================================================================
