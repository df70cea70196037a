------------------------ MODULE MCHttpRequestParser ------------------------
(***************************************************************************)
(* Requests and routes for model checking HttpRequestParser, with the tree *)
(* of the dispatcher below it.                                             *)
(***************************************************************************)
EXTENDS HttpRequestParser

R == INSTANCE RadixTree

RegisteredTree(deployment) ==
  FoldLeft(LAMBDA tree, r :
             R!Insert(tree, r.path, [handlers |-> {r.method}, args |-> PathArgs(r.path)]).tree,
           <<>>, deployment)
TreeLookup(tree, path) == R!Lookup(tree, path)

Length == <<"Content-", "Length">>
HostName == <<"Ho", "st">>

Url(schema, userinfo, host, port, path, query, fragment) ==
  [schema |-> schema, userinfo |-> userinfo, host |-> host, port |-> port, path |-> path,
   query |-> query, fragment |-> fragment]
Local(path, query) == Url(<<>>, <<>>, <<>>, <<>>, path, query, <<>>)
Absolute(host, port, path) == Url(<<"a">>, <<>>, host, port, path, <<>>, <<>>)

H(name, value) == [name |-> name, value |-> value]
Usual == <<H(HostName, <<"h">>), H(Length, <<"1">>)>>

Asking(method, url, headers, hasBody) ==
  [method |-> method, url |-> url, headers |-> headers, hasBody |-> hasBody]
Get(url) == Asking("GET", url, Usual, FALSE)

A == <<"/", "a">>
AB == <<"/", "a", "/", "b">>

\* One request that asks for the URL.  The last paths are longer than a field is
\* wide, by the length of a route or of a piece that begins with its slash.
Urls ==
  {Local(<<"/">>, <<>>), Local(A, <<>>), Local(AB, <<>>), Local(<<"*">>, <<>>),
   Local(<<"/", "b", "c">>, <<>>), Local(<<"/", "a", "/", "b", "c">>, <<>>),
   Local(<<"/", "a", "a", "/", "b">>, <<>>), Local(<<"/", "a", "/", "b", "/", "b">>, <<>>),
   Local(A, <<"x", "=", "1", "&", "y", "=", "2">>), Local(A, <<"a", "&", "b", "=", "1">>),
   Local(A, <<"a", "=">>), Local(A, <<"a", "=", "&", "a", "=", "=">>),
   Local(A, <<"a", "=", "1", "&">>), Local(A, <<"?", "=", "/", "a">>),
   [Local(A, <<"x">>) EXCEPT !.fragment = <<"f", "?">>],
   [Local(A, <<>>) EXCEPT !.fragment = <<"f">>],
   Absolute(<<"b">>, <<>>, A), Absolute(<<"b">>, <<>>, <<"/", "a", "a", "a", "a", "a">>),
   Absolute(<<"b">>, <<"8", "0">>, <<>>), Absolute(<<"b">>, <<"6", "5", "5", "3", "5">>, <<"/">>),
   Absolute(<<"b">>, <<"6", "5", "5", "3", "6">>, <<"/">>),
   Absolute(<<"[", ":", ":", "1", "]">>, <<"8">>, <<"/">>),
   Absolute(<<"[", ":", "%", "e", "]">>, <<>>, <<>>), Absolute(<<"[", "]">>, <<>>, <<>>),
   [Absolute(<<"b">>, <<"1">>, A) EXCEPT !.userinfo = <<"u", ":", "p">>],
   [Absolute(<<"b">>, <<>>, <<>>) EXCEPT !.query = <<"x">>],
   Local(<<"/", "a", ":", "/", "/", "b", "/", "a", "a", "a", "a", "a">>, <<>>),
   Local(A \o [i \in 1..16 |-> "c"], <<>>), Local(<<"/">> \o A \o [i \in 1..15 |-> "c"], <<>>),
   Local([i \in 1..15 |-> "/"], <<"q">>)}

\* Headers: a name that ends like another, two values, none, a length behind a
\* blank, one that no int holds, and no host.
HeaderLists ==
  {<<H(<<"X-">> \o Length, <<"z">>)>> \o Usual, Usual \o <<H(<<"X-">> \o Length, <<"9">>)>>,
   <<H(<<"A">>, <<"1", "2">>), H(<<"A">>, <<"3">>)>> \o Usual,
   <<H(HostName, <<"h">>)>>, <<H(Length, <<"1", "2">>)>>,
   <<H(HostName, <<"h">>), H(Length, <<" ", "1", "0">>)>>,
   <<H(HostName, <<"h">>), H(Length, <<"1", "0", "0">>)>>}

\* Requests on one connection: a query, a method, headers and a path left over.
Pipelines ==
  {<<Get(Local(A, <<"x", "=", "1">>)), Asking("POST", Local(<<"/">>, <<>>), Usual, TRUE)>>,
   <<Get(Local(A, <<>>)), Asking("DELETE", Local(A, <<>>), <<H(Length, <<"5">>)>>, FALSE)>>,
   <<Asking("PUT", Local(A, <<>>), Usual, TRUE), Get(Local(AB, <<"x", "=", "1">>))>>,
   <<Get(Local(A, <<"x">>)), Get(Absolute(<<"b">>, <<>>, <<>>))>>}

MCExchanges ==
  {<<Get(u)>> : u \in Urls}
  \cup {<<Asking("POST", Local(A, <<>>), headers, TRUE)>> : headers \in HeaderLists}
  \cup {<<Asking(m, Local(A, <<>>), Usual, FALSE)>> : m \in {"PUT", "PATCH", "DELETE"}}
  \cup Pipelines

\* A request with a query, and one without whose path does not begin its URL.
FieldExchanges ==
  {<<Get(Local(A, <<"b", "=", "1", "2", "3", "4", "5", "6">>)),
     Get(Absolute(<<"b">>, <<>>, <<"/", "a", "=", "a", "a", "a", "a", "a">>))>>}

\* A path of two segments, a length of two digits.
PieceExchanges ==
  {<<Asking("POST", Local(<<"/", "b">> \o A, <<>>), <<H(HostName, <<"h">>), H(Length, <<"1", "2">>)>>,
            TRUE)>>}

Route(path) == [path |-> path, method |-> "GET"]
X == <<"{", "x", "}">>
Y == <<"{", "y", "}">>

\* An argument behind a literal, alone, before a literal, two arguments, two of one
\* name, one whose name is longer than any path, and one whose position, by a wrong
\* count, is that of the same text.
MCDeployments ==
  {<<Route(<<"/">>), Route(A), Route(A \o <<"/">> \o Y)>>,
   <<Route(<<"/">> \o X)>>, <<Route(<<"/">> \o X \o <<"/", "b">>)>>,
   <<Route(<<"/">> \o X \o <<"/">> \o Y)>>, <<Route(<<"/">> \o X \o <<"/">> \o X)>>,
   <<Route(<<"/", "{", "x", "x", "}", "/">> \o Y \o <<"/", "b">>)>>,
   <<Route(<<"/", "{", "l", "o", "n", "g", "}", "/">> \o Y)>>}
=============================================================================
