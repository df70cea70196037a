--------------------------- MODULE UrlDispatcher ---------------------------
(***************************************************************************)
(* UrlDispatcher (src/http/url_dispatcher.cpp and .hpp): handlers per      *)
(* route and method, kept in a radix_tree_map of resources.                *)
(*                                                                         *)
(* Before the server starts, its owner registers handlers one by one, in   *)
(* any order; requests then look their path up.  `calls` is the history of *)
(* the registrations: the i-th handler is the number i.                    *)
(***************************************************************************)
EXTENDS Routes, FiniteSets

CONSTANTS
  Methods,
  Owners,     \* what owners register: [paths, methods, most], the routes, the
              \* methods and, a bound, how many handlers
  Requests,   \* the paths asked for
  NoValue,    \* no resource
  Thrown,     \* a lookup that throws
  NoHandler   \* nullptr

VARIABLES
  owner,
  routes_,
  calls       \* [method, path, outcome] of every addHandler so far

vars == <<owner, routes_, calls>>

R == INSTANCE RadixTree

ASSUME BoundIsNat == \A o \in Owners : o.most \in Nat /\ o.methods \subseteq Methods
ASSUME PathsCompatible == \A o \in Owners : \A p, q \in o.paths : Compatible(p, q)

\* The paths of requests have no empty segments but the first, which is
\* before the leading slash, or the one after the slash of the root.
ASSUME RequestsHaveSegments ==
  \A q \in Requests : \A i \in 2..Len(splitBySlash(q)) :
    splitBySlash(q)[i] # <<>> \/ q = <<"/">>

-----------------------------------------------------------------------------
\* A resource whose first handler is the one of the call being made.
NewResource(method, path) ==
  [path |-> path,
   handlers |-> [m \in Methods |->
                   IF m = method THEN Len(calls) + 1 ELSE NoHandler],
   args |-> PathArgs(path)]

Record(method, path, outcome) ==
  calls' = Append(calls, [method |-> method, path |-> path,
                          outcome |-> outcome])

\* lookup returns a copy: a handler added to a resource that exists already
\* is added to the copy, and gone with it when the call returns.
addHandler(method, path) ==
  LET found == R!Lookup(routes_, path)
      r == R!Insert(routes_, path, NewResource(method, path))
  IN IF found = NoValue
     THEN /\ routes_' = r.tree
          /\ Record(method, path, r.outcome)
     ELSE /\ UNCHANGED routes_
          /\ Record(method, path,
                    IF found = Thrown THEN "thrown" ELSE "dropped")

getResource(path) == R!Lookup(routes_, path)

getHandler(path, method) ==
  LET found == getResource(path)
  IN IF found \in {NoValue, Thrown} THEN NoHandler ELSE found.handlers[method]

-----------------------------------------------------------------------------
Init == owner \in Owners /\ routes_ = <<>> /\ calls = <<>>

Next ==
  /\ Len(calls) < owner.most
  /\ \E method \in owner.methods, path \in owner.paths : addHandler(method, path)
  /\ UNCHANGED owner

Spec == Init /\ [][Next]_vars

-----------------------------------------------------------------------------
(***************************************************************************)
(* Properties                                                              *)
(***************************************************************************)

\* What lets insert and lookup walk down without ever going back: siblings
\* start differently, no fragment is empty, and a node without a value is
\* there only because the routes below it part.
TreeShape == R!WellShaped(routes_)

\* getHandler answers only with a handler that was registered for the method
\* and for a route the path matches, whatever the tree was cut into since.
OnlyMatchingHandlers ==
  \A q \in Requests, m \in Methods :
    getHandler(q, m) # NoHandler =>
      LET call == calls[getHandler(q, m)]
      IN call.method = m /\ Matches(call.path, q)

\* A handler that went into the tree is what every path of its route gets
\* for its method from then on, and the one handler of its route.
InsertedIsServed ==
  \A i \in DOMAIN calls : calls[i].outcome = "inserted" =>
    \A q \in Requests : Matches(calls[i].path, q) =>
      \A m \in Methods :
        getHandler(q, m) = IF m = calls[i].method THEN i ELSE NoHandler

\* core/tests/src/radix_tree_test.cpp:35-42 lets two routes match across an
\* argument they name differently, each with its own length, so a route is
\* served whatever names others gave to the arguments they share.
ServedWhateverTheNames == InsertedIsServed

\* Two routes registered before the i-th call part just behind its path.
Fork(i) ==
  LET path == calls[i].path
      Longer(j) == /\ calls[j].outcome = "inserted"
                   /\ Len(calls[j].path) > Len(path)
                   /\ IsPrefix(path, calls[j].path)
  IN \E j, k \in 1..i-1 :
       /\ Longer(j) /\ Longer(k)
       /\ calls[j].path[Len(path) + 1] # calls[k].path[Len(path) + 1]

\* addHandler tells nobody that a handler did not go in.  It happens for two
\* reasons and no other: the route has a handler already, or its path is
\* where two routes registered before it part.  It throws never.
LostForTwoReasons ==
  \A i \in DOMAIN calls :
    CASE calls[i].outcome = "inserted" -> TRUE
      [] calls[i].outcome = "dropped" ->
           \E j \in 1..i-1 : /\ Matches(calls[j].path, calls[i].path)
                             /\ calls[j].outcome = "inserted"
      [] calls[i].outcome = "refused" -> Fork(i)
      [] calls[i].outcome = "thrown" -> FALSE

=============================================================================
