----------------------------- MODULE RadixTree -----------------------------
(***************************************************************************)
(* radix_tree_map (src/radix_tree/radix_tree_map.hpp): a tree of fragments *)
(* of keys, in which a path segment in braces stands for any segment.      *)
(*                                                                         *)
(* A key is a sequence of characters, because the tree cuts keys between   *)
(* any two of them.  The tree is a forest: the sequence of nodes chained   *)
(* by `next`, each with its fragment, its value and the forest that starts *)
(* at `minor`.  `parent` is left out: only iterators follow it.            *)
(***************************************************************************)
EXTENDS Routes

CONSTANTS
  NoValue,   \* boost::none
  Thrown     \* what a lookup that throws ends with

Node(key, value, minor) == [key |-> key, value |-> value, minor |-> minor]

Drop(s, n) == SubSeq(s, n + 1, Len(s))
Take(s, n) == SubSeq(s, 1, n)

-----------------------------------------------------------------------------
(***************************************************************************)
(* prefix_comparator: how much of a node's key and of a path match.        *)
(***************************************************************************)

\* No match has this form, so it stands for the exception of an argument
\* whose brace is not closed.
Unclosed(key) == <<Len(key) + 1, 0>>

\* The loop with i1 characters of key and i2 of path matched.  An argument
\* is looked for where a segment starts, and at the start of every fragment.
RECURSIVE MatchFrom(_, _, _, _, _)
MatchFrom(key, path, i1, i2, startSegment) ==
  IF i1 = Len(key) \/ i2 = Len(path)
  THEN <<i1, i2>>
  ELSE IF startSegment /\ key[i1 + 1] = "{"
  THEN IF FindFrom(key, "}", i1) = Len(key)
       THEN Unclosed(key)
       ELSE MatchFrom(key, path, FindFrom(key, "}", i1) + 1,
                      FindFrom(path, "/", i2), TRUE)
  ELSE IF path[i2 + 1] # key[i1 + 1]
  THEN <<i1, i2>>
  ELSE MatchFrom(key, path, i1 + 1, i2 + 1, path[i2 + 1] = "/")

FindCommonPrefix(key, path) == MatchFrom(key, path, 0, 0, TRUE)

-----------------------------------------------------------------------------
(***************************************************************************)
(* insert_internal: the new tree, and whether the call inserted, refused   *)
(* (the pair with false) or threw.                                         *)
(***************************************************************************)
Outcomes == {"inserted", "refused", "thrown"}

\* Mistake: the lower node is not given the children (line 267 missing).
SplitLosesMinor(x, n, v) ==
  Node(Take(x.key, n), v, <<Node(Drop(x.key, n), x.value, <<>>)>>)

\* Mistake: the upper node keeps the value (line 278 missing).
SplitKeepsValue(x, n, v) ==
  Node(Take(x.key, n), x.value, <<Node(Drop(x.key, n), x.value, x.minor)>>)

\* The node x cut after n characters: its value and its children go to a new
\* node below it, and it takes the value v.
Split(x, n, v) ==
  Node(Take(x.key, n), v, <<Node(Drop(x.key, n), x.value, x.minor)>>)

\* Mistake: one character of the rest is lost.
CutOneMore(key, m) == Drop(key, m[1] + 1)

\* What is left of a key that goes below a node matched as a whole.  The
\* code cuts as many characters as the node's key has, not as many as matched
\* in the key; they differ where an argument's name has another length.
CutBelow(key, m) == Drop(key, m[1])

RECURSIVE Insert(_, _, _)
Insert(forest, key, value) ==
  IF forest = <<>>
  THEN [tree |-> <<Node(key, value, <<>>)>>, outcome |-> "inserted"]
  ELSE
    LET x == Head(forest)
        m == FindCommonPrefix(x.key, key)
        whole == m[1] = Len(x.key)
        none == m = <<0, 0>>
        Put(node, outcome) ==
          [tree |-> <<node>> \o Tail(forest), outcome |-> outcome]
        Below(node, rest) ==
          LET r == Insert(node.minor, rest, value)
          IN Put([node EXCEPT !.minor = r.tree], r.outcome)
    IN CASE \/ m = Unclosed(x.key)
            \/ whole /\ m[2] < Len(key) /\ m[1] > Len(key) ->
              Put(x, "thrown")
         [] whole /\ m[2] = Len(key) ->
              Put(x, "refused")
         [] none /\ ~(whole /\ Len(key) = 0) ->
              LET r == Insert(Tail(forest), key, value)
              IN [tree |-> <<x>> \o r.tree, outcome |-> r.outcome]
         [] ~none /\ m[1] < Len(x.key) /\ m[2] = Len(key) ->
              Put(Split(x, m[1], value), "inserted")
         [] ~none /\ m[1] < Len(x.key) /\ m[2] < Len(key) ->
              Below(Split(x, m[1], NoValue), Drop(key, m[2]))
         [] ~none /\ whole /\ m[1] <= Len(key) /\ m[2] < Len(key) ->
              Below(x, CutBelow(key, m))

-----------------------------------------------------------------------------
(***************************************************************************)
(* lookup, with `found` characters of the key matched.                     *)
(***************************************************************************)
RECURSIVE LookupFrom(_, _, _)
LookupFrom(forest, key, found) ==
  IF forest = <<>>
  THEN NoValue
  ELSE
    LET x == Head(forest)
        m == FindCommonPrefix(x.key, Drop(key, found))
    IN CASE m = Unclosed(x.key) -> Thrown
         [] m[1] = Len(x.key) ->
              IF found + m[2] = Len(key)
              THEN x.value
              ELSE LookupFrom(x.minor, key, found + m[2])
         [] m[1] = 0 /\ m[1] < Len(x.key) ->
              LookupFrom(Tail(forest), key, found)
         [] m[1] \in 1..Len(x.key)-1 -> NoValue

Lookup(tree, key) == LookupFrom(tree, key, 0)

-----------------------------------------------------------------------------
\* The shape insert keeps: no search has to go back to a node it has left.
RECURSIVE WellShaped(_)
WellShaped(forest) ==
  \A i \in DOMAIN forest :
    /\ forest[i].key # <<>>
    /\ \A j \in 1..i-1 : Head(forest[j].key) # Head(forest[i].key)
    /\ forest[i].value = NoValue => Len(forest[i].minor) >= 2
    /\ WellShaped(forest[i].minor)

=============================================================================
