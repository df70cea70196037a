------------------------- MODULE HttpRequestParser -------------------------
(***************************************************************************)
(* HttpRequestParser and HttpRequestBuilder (src/http/parser/              *)
(* http_request_parser.cpp, src/http/http_request_builder.cpp) with the    *)
(* HttpHeaders they fill: what the callbacks of http_parser make of a      *)
(* request whose URL, header names and header values arrive in pieces, and *)
(* the HttpRequest that HttpConnection::handle has built of it.            *)
(*                                                                         *)
(* The environment is CallbackOrder, which HttpParser implements: every    *)
(* datum comes in one call or in several, and the last is empty when a     *)
(* read ended just behind the datum.  One parser serves all requests of a  *)
(* connection.  Names and values are sequences of cells, the smallest      *)
(* parts a read may separate.                                              *)
(***************************************************************************)
EXTENDS HttpUrl, HttpMethods, HttpHeaders, Routes

CONSTANTS
  Exchanges,       \* the requests a client sends in a row, as sequences
  Deployments,     \* the routes registered, as sequences of [path, method]
  Resources(_),    \* the dispatcher's tree, with a resource for each route
  getResource(_, _), \* what it finds for a path: a resource, NoValue or Thrown
  ContentLength,   \* BasicHeaders::kContentLength, in cells
  Host,            \* BasicHeaders::kHost, in cells
  MaxInt,          \* INT_MAX
  NoValue,         \* no resource
  Thrown,          \* the result of a call that throws
  None,            \* an empty optional, shared_ptr or function
  Unspecified,     \* a byte read behind a URL: none that a URL has
  MaxCuts          \* a bound: into how many pieces more than they are the data
                   \* of an exchange come

Text == Seq(STRING)

\* What a client asks for: a URL by its parts, of which one that is empty has no
\* delimiter either, names and values.
Request ==
  [method : Methods,
   url : [schema : Text, userinfo : Text, host : Text, port : Text, path : Text,
          query : Text, fragment : Text],
   headers : Seq([name : Text, value : Text]), hasBody : BOOLEAN]

\* Whether the parts of a URL are such: of one without a schema there is only
\* what begins with the path; a path of any other begins with a slash.
Written(u) ==
  LET none(part, chars) == \A i \in DOMAIN part : part[i] \notin chars
      visible(part, others) == \A i \in DOMAIN part : IS_URL_CHAR(part[i]) \/ part[i] \in others
  IN /\ visible(u.path, {}) /\ visible(u.query, {"?"}) /\ visible(u.fragment, {"?", "#"})
     /\ IF u.schema = <<>>
        THEN /\ u.userinfo = <<>> /\ u.host = <<>> /\ u.port = <<>>
             /\ u.path # <<>> /\ u.path[1] \in {"/", "*"}
        ELSE /\ none(u.schema, {"/", "*", ":"})
             /\ none(u.userinfo, {"/", "?"}) /\ none(u.host, {"/", "?"}) /\ none(u.port, {"/", "?"})
             /\ u.path # <<>> => u.path[1] = "/"

\* Requests are such.
ASSUME ExchangesAssumption == Exchanges \subseteq Seq(Request)
ASSUME UrlsAssumption == \A e \in Exchanges : \A m \in DOMAIN e : Written(e[m].url)
\* No route is found for the empty path.
ASSUME NoRouteAssumption ==
  \A d \in Deployments : getResource(Resources(d), <<>>) \in {NoValue, Thrown}

\* A route that is found for a path asked for is one that promises to match it.
ASSUME FoundAssumption ==
  \A d \in Deployments, e \in Exchanges : \A m \in DOMAIN e :
    LET found == getResource(Resources(d), e[m].url.path)
    IN found \notin {NoValue, Thrown} =>
         \E route \in Range(d) :
           /\ Matches(route.path, e[m].url.path)
           /\ found.args = PathArgs(route.path)
ASSUME DeploymentsAssumption == Deployments \subseteq Seq([path : Text, method : Methods])

\* The first letters of two methods are what they are.
ASSUME LettersAssumption == Head("GET") = "G" /\ Head("POST") = "P"

VARIABLES
  requests,    \* the exchange of this connection
  deployed,    \* the deployment of the server
  routes_,     \* the dispatcher's tree
  fed,         \* the callbacks made: message, item, bytes of the item, whether
               \* more of it follows
  mParseState, mUrlParser, mCurrentHeaderField,
  builder,     \* mRequestBuilder
  outcome,     \* "running", or how it stopped: "refused" by a callback's result
               \* or "thrown" by an exception
  built,       \* the result of buildRequest
  cut          \* history: <<message, item, from>> of every later piece

sent == <<requests, deployed, routes_>>
parserVars == <<mParseState, mUrlParser, mCurrentHeaderField>>
vars == <<sent, fed, parserVars, builder, outcome, built, cut>>

-----------------------------------------------------------------------------
(* The client's side: what a request consists of. *)

Delimited(before, part, after) == IF part = <<>> THEN <<>> ELSE before \o part \o after
UrlText(u) ==
  Delimited(<<>>, u.schema, <<":", "/", "/">>) \o Delimited(<<>>, u.userinfo, <<"@">>)
  \o u.host \o Delimited(<<":">>, u.port, <<>>) \o u.path
  \o Delimited(<<"?">>, u.query, <<>>) \o Delimited(<<"#">>, u.fragment, <<>>)

\* The data of a request in their order: the URL, then names and values.
Items(r) ==
  [item \in 1..2 * Len(r.headers) + 1 |->
     CASE item = 1 -> UrlText(r.url)
       [] item > 1 /\ item % 2 = 0 -> r.headers[item \div 2].name
       [] OTHER -> r.headers[item \div 2].value]

Asked == requests[fed.msg]
Data == Items(Asked)
Remaining == Len(Data[fed.item]) - fed.from

-----------------------------------------------------------------------------
(* What the builder asks of the headers. *)

hasContentLength(headers) == ContentLength \in DOMAIN headers

\* std::stoi: leading blanks, then digits up to the first other character.  A
\* sign is left out: a length that does not begin with a digit is refused before
\* its callback (http_parser.c:1437), so only the value of another header, whose
\* name a read cut in front of Content-Length, could have one.
\* The exceptions: no digit, or a value that no int holds.
stoi(text) ==
  LET blanks == Max({0} \cup {i \in DOMAIN text : \A j \in 1..i : text[j] = " "})
      digits == {i \in blanks + 1..Len(text) : \A j \in blanks + 1..i : IS_NUM(text[j])}
      value == FoldLeft(LAMBDA n, c : 10 * n + DigitValue(c), 0,
                        SubSeq(text, blanks + 1, Max({blanks} \cup digits)))
  IN IF digits = {} \/ value > MaxInt THEN Thrown ELSE value

\* The last value counts; at() throws where there is none.
getContentLength(headers) ==
  IF hasContentLength(headers) THEN stoi(Last(headers[ContentLength])) ELSE Thrown
getHost(headers) == IF Host \in DOMAIN headers THEN Last(headers[Host]) ELSE Thrown

-----------------------------------------------------------------------------
(* The callbacks. *)

\* The pointer to a body reader, which promises a length.
NoReader == <<>>
Reader(length) == <<length>>

\* What buildRequest has returned before its first call.
NotBuilt == <<>>

NewBuilder ==
  [path |-> None, http_version |-> None, method |-> None, query |-> <<>>,
   headers |-> NoHeaders, body_reader |-> NoReader]

Init ==
  /\ requests \in Exchanges
  /\ deployed \in Deployments /\ routes_ = Resources(deployed)
  /\ fed = [msg |-> 1, item |-> 0, from |-> 0]
  /\ mParseState = "INITED" /\ mUrlParser = http_parser_url_init
  /\ mCurrentHeaderField = <<>>
  /\ builder = NewBuilder
  /\ outcome = "running" /\ built = NotBuilt /\ cut = {}

\* A callback may be made: the next item is this one.
Due(item) == outcome = "running" /\ fed.msg \in DOMAIN requests /\ fed.item = item
NextItem == fed' = [fed EXCEPT !.item = @ + 1, !.from = 0]

\* parser->method when only the first letter of the request was read.
Guess(method) == MethodOfLetter[Head(method)]

\* Mistake: only the first request of a connection sets the method.
OnMessageBeginOnce ==
  /\ Due(0) /\ NextItem
  /\ mParseState' = "IN_PROGRESS"
  /\ builder' = [builder EXCEPT
       !.method = IF @ = None /\ Guess(Asked.method) \in {"GET", "POST"}
                  THEN Guess(Asked.method) ELSE @,
       !.http_version = IF fed.msg = 1 THEN 0 ELSE 1]
  /\ UNCHANGED <<sent, mUrlParser, mCurrentHeaderField, outcome, built, cut>>

\* on_message_begin.  Only two methods are taken over, and the version is the
\* one of the message before.
onMessageBegin ==
  /\ Due(0) /\ NextItem
  /\ mParseState' = "IN_PROGRESS"
  /\ builder' = [builder EXCEPT
       !.method = IF Guess(Asked.method) \in {"GET", "POST"} THEN Guess(Asked.method) ELSE @,
       !.http_version = IF fed.msg = 1 THEN 0 ELSE 1]
  /\ UNCHANGED <<sent, mUrlParser, mCurrentHeaderField, outcome, built, cut>>

\* Mistake: a value ends only at an ampersand.
ParseQueryToAmpersand(text) ==
  LET Character(acc, i) ==
        CASE ~acc.value /\ text[i] = "=" ->
               [acc EXCEPT !.value = TRUE, !.name = SubSeq(text, acc.begin, i - 1), !.begin = i + 1]
          [] acc.value /\ text[i] = "&" ->
               [acc EXCEPT !.value = FALSE, !.begin = i + 1,
                           !.query = set(@, acc.name, SubSeq(text, acc.begin, i - 1))]
          [] OTHER -> acc
  IN FoldLeftDomain(Character, [value |-> FALSE, begin |-> 1, name |-> <<>>, query |-> <<>>],
                    text).query

\* The loop of onUrlImpl over the query: a name ends at =, a value at & or with
\* the query.  A name behind & begins where the value ended.
QueryCharacter(text, acc, i) ==
  CASE ~acc.value /\ text[i] = "=" ->
         [acc EXCEPT !.value = TRUE, !.name = SubSeq(text, acc.begin, i - 1), !.begin = i + 1]
    [] acc.value /\ (text[i] = "&" \/ i = Len(text)) ->
         [acc EXCEPT !.value = FALSE, !.begin = i + 1,
                     !.query = set(@, acc.name, SubSeq(text, acc.begin,
                                                       IF text[i] = "&" THEN i - 1 ELSE i))]
    [] OTHER -> acc

ParseQuery(text) ==
  LET Character(acc, i) == QueryCharacter(text, acc, i)
  IN FoldLeftDomain(Character, [value |-> FALSE, begin |-> 1, name |-> <<>>, query |-> <<>>],
                    text).query

\* The bytes from offset off up to offset to, be they the piece's or behind it.
Slice(piece, off, to) ==
  SubSeq(piece \o [i \in 1..to |-> Unspecified], off + 1, to)

Stop(how) == outcome' = how /\ UNCHANGED builder

\* Mistake: of a URL in pieces the first is kept.
TakeUrlOnce(piece, u) ==
  IF u.off["path"] > u.len["path"] THEN Stop("thrown")
  ELSE /\ builder' = [builder EXCEPT
            !.path = IF @ = None THEN Slice(piece, u.off["path"], u.len["path"]) ELSE @]
       /\ UNCHANGED outcome

\* The path ends at its length, not at its offset and length: a string that ends
\* before it begins throws.
TakeUrl(piece, u) ==
  IF u.off["path"] > u.len["path"] THEN Stop("thrown")
  ELSE /\ builder' = [builder EXCEPT
            !.path = Slice(piece, u.off["path"], u.len["path"]),
            !.query = ParseQuery(Slice(piece, u.off["query"], u.off["query"] + u.len["query"]))]
       /\ UNCHANGED outcome

\* on_url parses each piece by itself.  A set of fields that is shifted left is
\* not empty, whatever is in it: the path and the query are taken from the
\* struct even if this URL has none.
onUrl(piece) ==
  /\ \E parsed \in {http_parser_parse_url(piece, FALSE, mUrlParser)} :
       /\ mUrlParser' = parsed.u
       /\ IF ~parsed.ok \/ parsed.u.field_set = {} THEN Stop("refused")
          ELSE TakeUrl(piece, parsed.u)
  /\ UNCHANGED <<mParseState, mCurrentHeaderField>>

onHeaderField(piece) ==
  /\ mCurrentHeaderField' = piece
  /\ UNCHANGED <<mParseState, mUrlParser, builder, outcome>>

onHeaderValue(piece) ==
  /\ builder' = [builder EXCEPT !.headers = add(@, mCurrentHeaderField, piece)]
  /\ UNCHANGED <<parserVars, outcome>>

\* A data callback with the next n cells; more says that the item goes on in
\* the next read, be it only with its end.
Deliver(n, more) ==
  /\ Due(fed.item) /\ fed.item \in DOMAIN Data
  /\ (fed.from = 0 \/ Cardinality(cut) < MaxCuts)
  /\ n <= Remaining /\ (more \/ n = Remaining) /\ (n > 0 \/ (Remaining = 0 /\ ~more))
  /\ LET piece == SubSeq(Data[fed.item], fed.from + 1, fed.from + n)
     IN CASE fed.item = 1 -> onUrl(piece)
          [] fed.item > 1 /\ fed.item % 2 = 0 -> onHeaderField(piece)
          [] OTHER -> onHeaderValue(piece)
  /\ IF more THEN fed' = [fed EXCEPT !.from = @ + n] ELSE NextItem
  /\ cut' = IF fed.from > 0 THEN cut \cup {<<fed.msg, fed.item, fed.from>>} ELSE cut
  /\ UNCHANGED <<sent, built>>

\* HttpRequestBuilder::onHeadersComplete: a reader that promises the length.
OnHeadersComplete(b) ==
  IF hasContentLength(b.headers)
  THEN [b EXCEPT !.body_reader = Reader(getContentLength(b.headers))]
  ELSE b

onHeadersComplete ==
  /\ Due(Len(Data) + 1) /\ NextItem
  /\ mParseState' = "HEADERS_COMPLETE"
  /\ IF OnHeadersComplete(builder).body_reader = Reader(Thrown) THEN Stop("thrown")
     ELSE builder' = OnHeadersComplete(builder) /\ UNCHANGED outcome
  /\ UNCHANGED <<sent, mUrlParser, mCurrentHeaderField, built, cut>>

\* on_body: AppendBody throws where no reader was made.
onMessageBody ==
  /\ Due(Len(Data) + 2) /\ NextItem
  /\ outcome' = IF Asked.hasBody /\ builder.body_reader = NoReader THEN "thrown" ELSE outcome
  /\ UNCHANGED <<sent, parserVars, builder, built, cut>>

onMessageComplete ==
  /\ Due(Len(Data) + 3)
  /\ fed' = [msg |-> fed.msg + 1, item |-> 0, from |-> 0]
  /\ mParseState' = "COMPLETE"
  /\ UNCHANGED <<sent, mUrlParser, mCurrentHeaderField, builder, outcome, built, cut>>

-----------------------------------------------------------------------------
(* BuildRequest, called by handle when a read is parsed and the headers or *)
(* the message were complete.                                              *)

\* string::substr(pos, n): throws behind the end.
substr(text, pos, n) ==
  IF pos > Len(text) THEN Thrown
  ELSE SubSeq(text, pos + 1, IF pos + n > Len(text) THEN Len(text) ELSE pos + n)

\* Mistake: the position counts from 1.
PathArgFromOne(path, pos) == substr(path, pos - 1, FindFrom(path, "/", pos - 1))

\* The argument that a position of the route stands for: from there, as many
\* characters as the index of the next slash.
PathArg(path, pos) == substr(path, pos, FindFrom(path, "/", pos))

\* path_args_, by name: of two arguments with one name the later counts.
ArgsOf(args, path) ==
  [name \in {arg.arg_name : arg \in args} |->
     PathArg(path, Max({arg.segment_pos : arg \in {a \in args : a.arg_name = name}}))]

\* None of the conditions of BuildRequest throws.
Buildable(found) ==
  /\ found \notin {NoValue, Thrown}
  /\ builder.method # None /\ builder.http_version # None
  /\ getContentLength(builder.headers) # Thrown /\ getHost(builder.headers) # Thrown
  /\ \A arg \in found.args : PathArg(builder.path, arg.segment_pos) # Thrown

\* What is moved into the request is left behind empty.
MovedFrom(b) == [b EXCEPT !.path = <<>>, !.query = <<>>, !.headers = NoHeaders]

BuildRequest ==
  /\ outcome = "running" /\ built = NotBuilt
  /\ mParseState \in {"HEADERS_COMPLETE", "COMPLETE"}
  /\ LET found == getResource(routes_, builder.path)
     IN IF Buildable(found)
        THEN /\ built' = [msg |-> IF mParseState = "COMPLETE" THEN fed.msg - 1 ELSE fed.msg,
                          method |-> builder.method, path |-> builder.path,
                          query |-> builder.query, headers |-> builder.headers,
                          body |-> builder.body_reader,
                          args |-> ArgsOf(found.args, builder.path),
                          handler |-> builder.method \in found.handlers]
             /\ builder' = MovedFrom(builder)
             /\ UNCHANGED outcome
        ELSE outcome' = "thrown" /\ UNCHANGED <<builder, built>>
  /\ UNCHANGED <<sent, fed, parserVars, cut>>

-----------------------------------------------------------------------------

Callback ==
  \/ onMessageBegin
  \/ \E n \in 0..IF fed.msg \in DOMAIN requests /\ fed.item \in DOMAIN Data THEN Remaining ELSE 0,
        more \in BOOLEAN : Deliver(n, more)
  \/ onHeadersComplete \/ onMessageBody \/ onMessageComplete

Next == Callback \/ BuildRequest

Spec == Init /\ [][Next]_vars

-----------------------------------------------------------------------------
(* What a request promises, told by what the client asked for. *)

Whole(msg, item) == \A c \in cut : <<c[1], c[2]>> # <<msg, item>>
Fits(text) == Len(text) <= UINT16_MAX
OriginForm(u) == u.schema = <<>> /\ u.path # <<>>

\* The elements of a query that have a = in them, as name and value: the last of
\* a name counts.  The last of all needs a value.
Pairs(query) ==
  LET Where(c) == {i \in DOMAIN query : query[i] = c}
      ends == Where("&") \cup {Len(query) + 1}
      begins == {i + 1 : i \in Where("&") \cup {0}}
      Element(b) == <<b, Min({e \in ends : e >= b})>>
      Equal(e) == Min({i \in Where("=") : e[1] <= i /\ i < e[2]})
      elements == {e \in {Element(b) : b \in begins} :
                     /\ \E i \in Where("=") : e[1] <= i /\ i < e[2]
                     /\ Equal(e) < Len(query)}
      Name(e) == SubSeq(query, e[1], Equal(e) - 1)
      Latest(n) == CHOOSE e \in elements : Name(e) = n
                     /\ \A f \in elements : Name(f) = n => f[1] <= e[1]
  IN [n \in {Name(e) : e \in elements} |-> SubSeq(query, Equal(Latest(n)) + 1, Latest(n)[2] - 1)]

\* No element that another follows lacks the =.
Regular(query) ==
  \A i \in DOMAIN query : query[i] = "&" =>
    \E j \in 1..i - 1 : query[j] = "=" /\ \A k \in j..i - 1 : query[k] # "&"

\* A URL that is read at once is served as it was asked if, and only if, it has
\* only a path and the path's length fits into its field; an absolute URL, which
\* RFC 7230 has every server accept, never is (http_request_parser.cpp:185).
\* The query is the one asked for, unless it is left from an earlier request:
\* of a URL without one, the struct still has the last (line 190).  No such URL
\* is refused.  That is what the code does, against http_parser.h:365-366 and
\* 375-376: see TakenByFields.
UrlAsAsked ==
  /\ built # NotBuilt /\ Whole(built.msg, 1) =>
       LET u == requests[built.msg].url
       IN /\ built.path = u.path <=> OriginForm(u) /\ Fits(u.path)
          /\ Fits(UrlText(u)) /\ Regular(u.query) /\ (built.msg = 1 \/ u.query # <<>>)
               => built.query = Pairs(u.query)
  /\ outcome = "refused" /\ fed.item = 2 /\ Whole(fed.msg, 1) => ~OriginForm(Asked.url)

\* Where the later pieces of a message's URL begin.
Pieces(msg) == {c[3] : c \in {d \in cut : d[1] = msg /\ d[2] = 1}}

\* A text up to its first ? or #.
UpToQuery(text) ==
  SubSeq(text, 1, Min({Len(text)} \cup {i - 1 : i \in {j \in DOMAIN text :
                                                     text[j] \in {"?", "#"}}}))

\* A request whose URL came in pieces is served only if each piece begins like a
\* URL of its own, and then by what the last one says: /a then /b is /b, as long
\* as its path fits, and a read that ends just behind the URL refuses the request.
\* Only a last piece that begins with a letter is read as an absolute URL: of
\* /a://b/c what follows the slash.  That is what the code does, which takes every
\* piece for the URL (lines 177 to 220), against http_parser.h:86-88: see
\* PiecesMakeOneString.
CutUrl ==
  built # NotBuilt /\ ~Whole(built.msg, 1) =>
    LET text == UrlText(requests[built.msg].url)
        rest == SubSeq(text, Max(Pieces(built.msg)) + 1, Len(text))
    IN /\ \A from \in Pieces(built.msg) :
            from < Len(text) /\ (text[from + 1] \in {"/", "*"} \/ IS_ALPHA(text[from + 1]))
       /\ ~IS_ALPHA(rest[1]) => (built.path = UpToQuery(rest) <=> Fits(UpToQuery(rest)))

\* The headers of the first msg requests, by their places.
Places(msg) == UNION {{m} \X DOMAIN requests[m].headers : m \in 1..msg}
Name(p) == requests[p[1]].headers[p[2]].name
Value(p) == requests[p[1]].headers[p[2]].value
UpTo(p) == {q \in Places(p[1]) : q[1] < p[1] \/ q[2] <= p[2]}
Rank(p) == Cardinality({q \in UpTo(p) : Name(q) = Name(p)})

\* All values of the names sent at some places, in their order.
AsSent(headers, places) ==
  /\ DOMAIN headers = {Name(p) : p \in places}
  /\ \A n \in DOMAIN headers : Len(headers[n]) = Cardinality({p \in places : Name(p) = n})
  /\ \A p \in places : headers[Name(p)][Rank(p)] = Value(p)

\* The last length that is sent.
LengthPlaces(places) ==
  {p \in places : Name(p) = ContentLength
                  /\ \A q \in places : Name(q) = ContentLength => q \in UpTo(p)}

\* Where every name and value came whole, a request has all values of the names
\* sent, in their order - those of the requests before it on the connection too,
\* for the builder keeps them until a request is built - and its body is
\* promised to be as long as the last length says.  It is thrown out where no
\* length was sent, or one that no int holds (http_headers.cpp:109).
HeadersAsSent ==
  LET uncut(msg) == \A c \in cut : c[1] <= msg => c[2] = 1
  IN /\ built # NotBuilt /\ uncut(built.msg) =>
          /\ AsSent(built.headers, Places(built.msg))
          /\ \A p \in LengthPlaces(Places(built.msg)) : built.body = Reader(stoi(Value(p)))
     /\ outcome = "thrown" /\ mParseState = "HEADERS_COMPLETE"
          /\ builder.body_reader = NoReader /\ uncut(fed.msg) =>
            \A p \in LengthPlaces(Places(fed.msg)) : stoi(Value(p)) = Thrown

\* A request has the method asked for only if that is GET or POST: the method is
\* taken over when one letter of it was read (line 88), so PUT and PATCH are
\* POST, and any other is the one of the request before.
MethodAsAsked ==
  built # NotBuilt =>
    LET asked == requests[built.msg].method
    IN /\ built.method = asked <=> asked \in {"GET", "POST"}
       /\ Head(asked) = "P" => built.method = "POST"

\* The value of an argument, the last of its name, is the segment that stands for
\* it only by chance: where the whole rest of the path, from a position that
\* counts the segments before with their names in braces and without their slashes
\* (url_dispatcher.cpp:40), is that segment.  The cut is as long as the index of
\* the next slash (http_request_builder.cpp:74), so it never ends at a slash.
ArgumentIsSegment ==
  built # NotBuilt /\ Whole(built.msg, 1) /\ OriginForm(requests[built.msg].url)
    /\ Fits(requests[built.msg].url.path) =>
    \E route \in Range(deployed) :
      LET p == splitBySlash(route.path)
          q == splitBySlash(built.path)
      IN /\ Matches(route.path, built.path)
         /\ \A i \in DOMAIN p :
              isDynamicPathPart(p[i]) /\ (\A j \in DOMAIN p : j > i => p[j] # p[i]) =>
                /\ Tail(p[i]) \in DOMAIN built.args
                /\ built.args[Tail(p[i])] = q[i] <=>
                     SubSeq(built.path, StartOf(p, i) + 1, Len(built.path)) = q[i]

\* The fields of a URL read at once are the parts it was written of, the host
\* without the brackets of an address, and the port is its value.
FieldsAsWritten ==
  LET u == Asked.url
      text == UrlText(u)
      part(f) == IF f = "host" /\ u.host # <<>> /\ Head(u.host) = "["
                 THEN SubSeq(u.host, 2, Len(u.host) - 1) ELSE u[f]
      field(f) == Slice(text, mUrlParser.off[f], mUrlParser.off[f] + mUrlParser.len[f])
  IN fed.msg \in DOMAIN requests /\ fed.item = 2 /\ fed.from = 0 /\ outcome # "refused"
       /\ Whole(fed.msg, 1) /\ Fits(text) =>
     /\ \A f \in UrlFields : IF part(f) = <<>> THEN f \notin mUrlParser.field_set
                             ELSE f \in mUrlParser.field_set /\ field(f) = part(f)
     /\ mUrlParser.port = FoldLeft(LAMBDA n, c : 10 * n + DigitValue(c), 0, u.port)

-----------------------------------------------------------------------------
(* What http_parser.h says of its callbacks and of its URLs, and the parser's  *)
(* user does not do.                                                           *)

\* The run of bytes of a field, none where the URL has no such field.
FieldOf(text, f) ==
  IF f \notin mUrlParser.field_set THEN <<>>
  ELSE Slice(text, mUrlParser.off[f], mUrlParser.off[f] + mUrlParser.len[f])

\* http_parser.h:365-366, 375-376: a field is there iff its bit is set, and is a
\* run of bytes from its offset, as long as its length.  So of a URL read whole
\* the path (http_request_parser.cpp:181-185), or at the least the query
\* (189-220), is that of the URL's own field.
TakenByFields ==
  fed.msg \in DOMAIN requests /\ fed.item = 2 /\ fed.from = 0 /\ outcome = "running"
    /\ Whole(fed.msg, 1) =>
      LET text == UrlText(Asked.url)
      IN \/ builder.path = FieldOf(text, "path")
         \/ builder.query = ParseQuery(FieldOf(text, "query"))

\* http_parser.h:86-88: the data callbacks are made any number of times for each
\* string.  So of a request in pieces the path (http_request_parser.cpp:177), or at
\* the least the promised length (233), is that of the whole string.
PiecesMakeOneString ==
  built # NotBuilt =>
    \/ built.path = requests[built.msg].url.path
    \/ \A p \in LengthPlaces(Places(built.msg)) : built.body = Reader(stoi(Value(p)))
=============================================================================
