------------------------------- MODULE Routes -------------------------------
(***************************************************************************)
(* The segments of a route and of a path, as src/http/url_dispatcher.cpp   *)
(* and the tree below it take them apart, and which paths a route promises *)
(* to match.  A segment in braces is an argument.                          *)
(***************************************************************************)
EXTENDS Naturals, Sequences, SequencesExt

splitBySlash(path) ==
  FoldLeft(LAMBDA parts, c :
             IF c = "/" THEN Append(parts, <<>>)
             ELSE Front(parts) \o <<Append(Last(parts), c)>>,
           << <<>> >>, path)

isDynamicPathPart(part) ==
  Len(part) > 2 /\ Head(part) = "{" /\ Last(part) = "}"

\* Where a segment begins, as addHandler counts: from 1, the characters of the
\* segments before without their slashes.
StartOf(parts, i) ==
  FoldLeft(LAMBDA pos, part : pos + Len(part), 1, SubSeq(parts, 1, i - 1))

\* The arguments of a route.  A name keeps its closing brace.
PathArgs(path) ==
  LET parts == splitBySlash(path)
  IN {[arg_name |-> Tail(parts[i]), segment_pos |-> StartOf(parts, i)] :
        i \in {j \in DOMAIN parts : isDynamicPathPart(parts[j])}}

\* string::find from position n on: how many characters stand before the c
\* it finds, Len(s) if it finds none.
FindFrom(s, c, n) ==
  LET at == {i \in n+1..Len(s) : s[i] = c}
  IN IF at = {} THEN Len(s)
     ELSE (CHOOSE i \in at : \A j \in at : i <= j) - 1

-----------------------------------------------------------------------------
(* What a route promises, told segment by segment. *)

Matches(path, request) ==
  LET p == splitBySlash(path)
      q == splitBySlash(request)
  IN /\ Len(p) = Len(q)
     /\ \A i \in DOMAIN p : isDynamicPathPart(p[i]) \/ p[i] = q[i]

\* Where two routes part, both have an argument or neither has: routes of
\* which a path matches two are not told apart by the code.
Compatible(p, q) ==
  LET a == splitBySlash(p)
      b == splitBySlash(q)
  IN \A i \in DOMAIN a \cap DOMAIN b :
       \/ isDynamicPathPart(a[i]) = isDynamicPathPart(b[i])
       \/ SubSeq(a, 1, i - 1) # SubSeq(b, 1, i - 1)
=============================================================================
