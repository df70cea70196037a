# empty_d: a verification project

TLA+ models of the HTTP server in this repository, TLC configurations that
check them on small instances, and TLAPS proofs for all instances. Paths are
relative to the repository; in `PROJECT.json` they carry the prefix `src/`.

## 1. The system

| component | source | state | operations |
|---|---|---|---|
| HttpServer | `src/http/http_server.cpp/.h` | `mIsRunning`, the acceptor, a pool of 16 threads | `start`, `acceptLoop`, `shutDown`, `registerHandler` |
| ConnectionsManager | the same files | `mActiveConnections`, a mutex nobody locks | `startHandleConnection`; `stopHandleConnection` and `stopAll` are empty |
| HttpConnection | `src/http/http_connection.cpp/.h` | socket, read buffer | `handle` (coroutine H), `readRequestBody` (coroutine B), `readAndParseData`, `processRequest` |
| HttpRequestParser | `src/http/parser/http_request_parser.*` | `mParseState`, the current header field | the callbacks of the C parser, `parse`, `buildRequest` |
| HttpRequestBuilder | `src/http/http_request_builder.*` | what is known of the request, the body reader | `Append...`, `onHeadersComplete`, `BuildRequest` |
| HttpBodyStreamReader | `src/http/http_body_stream_reader.*` | buffer, three counters, `mEof`, a timer | `write`, `readAny`, `setEof` |
| HttpHeaders | `src/http/http_headers.*` | values per name | `set`, `add`, `erase`, `getContentLength`, `formatHeaders` |
| HttpResponse | `src/http/http_response.*` | status, headers, body | `sendResponse`, `sendBody`, `prepareHeaders` |
| UrlDispatcher, Resource | `src/http/url_dispatcher.*` | routes, a handler per method | `addHandler`, `getHandler`, `getResource` |
| radix_tree_map | `src/radix_tree/radix_tree_map.hpp` | a tree of key fragments | `insert`, `lookup` |
| http_parser | `src/http/parser/http_parser/` | `struct http_parser`, `struct http_parser_url` | `http_parser_execute`, `http_parser_parse_url`, `http_parser_pause` |
| TaskDispatcher | `src/concurrency/task_dispatcher.hpp` | task queues | `TryPop`, `Pop`, `TryPush`, `Push`, `run`, `RunTaskAsync` |
| StringTraits | `src/definitions/strings/string_traits.h` | none | conversions of arguments |
| DI container, ORM, redis, MIME table | `src/di`, `src/orm`, `core/include/redis`, `src/http/mime_type.hpp` | none at run time, or unfinished | |

**How they interact.** `start` spawns `acceptLoop` on a strand of the pool and
joins the pool. For each accepted socket the loop makes an `HttpConnection` and
the manager spawns a coroutine that inserts the connection into
`mActiveConnections`, runs `handle` and erases it. `handle` (H) reads from the
socket and pushes bytes into `http_parser`, whose callbacks fill the builder
and, once the headers are complete, the body stream. When the headers are
there H builds the request, spawns B to read the rest of the body into the same
parser, and calls the handler `UrlDispatcher` found. The handler takes the body
from the stream, sleeping on the stream's timer while it is empty, and its
response is written to the socket.

**What is hard.** Two coroutines share a parser, a buffer and a socket, with
no join between them and no handler for B's exceptions; the stream's condition
variable is a timer, whose `cancel` throws into the waiter; reads cut messages
anywhere; the set of active connections is shared by all threads without a
lock; `shutDown` runs beside the loop it stops. `PROJECT.json` lists the
hazards line by line.

**What makes each component correct.**

* Connection and body stream: every body byte reaches the handler once, in
  whatever pieces it comes; nothing outlives what it refers to; an answer is
  sent only for a body that was read; every way to end leaves nobody waiting.
* Server: the set of active connections is exact; shutdown returns and starts
  nothing new; accepted clients are served.
* Dispatcher and radix tree: a registered route is found by exactly the paths
  that match it, whatever was registered before it.
* http_parser: the callbacks say what was sent, in the promised order, however
  the bytes are cut; limits hold; a length is the one stated; an error is final;
  every call returns.
* Request parser and builder: the request built is the one sent, and does not
  depend on where reads cut it or on the requests before it.
* Response: a client reads the headers and the body that were set.
* Task queues: a task runs once; workers can be stopped.
* Conversions: an argument converts to what its text says, or not at all.

## 2. The modules

| module | models |
|---|---|
| `HttpBodyStreamReader` | one body stream: its counters, its end, its timer |
| `HttpConnection` | H, B, the client, the kernel and the reactor, around that stream |
| `RequestExchange` | the abstract promise: receive, handle, answer, fail |
| `MCHttpConnection` | the requests used for checking |
| `HttpConnection_proofs` | proofs about `HttpConnection`, and the refinement |
| `HttpServer` | start, the accept loop, the manager and shutDown on a pool |
| `MCHttpServer` | the symmetry used for checking |
| `HttpServer_proofs` | proofs about `HttpServer` |
| `Routes` | the parts of a path, its arguments, and which paths a route stands for |
| `RadixTree` | the comparator, insert and lookup of the radix tree, as operators |
| `UrlDispatcher` | registrations in any order on that tree, and what requests get |
| `MCUrlDispatcher` | the routes and paths used for checking |
| `HttpCharacters` | the character classes of `http_parser.c` |
| `HttpUrl` | `parse_url_char` and `http_parser_parse_url`, with the struct it fills |
| `HttpMethods` | how the parser tells methods apart, letter by letter |
| `CallbackOrder` | the abstract promise: the order of the parser's callbacks |
| `HttpParser` | `http_parser_execute`, and the caller that gives it pieces |
| `MCHttpParser` | messages and what is to be reported of them; responses as sent |
| `HttpParserInvariant_proofs` | the invariant of `HttpParser`, the ways its steps end, and that the states of a head preserve it |
| `HttpParser_proofs` | that every step does; types, assertions, errors, that it implements `CallbackOrder`, and the limit on headers |
| `HttpParserLengths_proofs` | proof that lengths are the numbers sent |
| `HttpHeaders` | `set`, `add`, `addHeaders`, `formatHeaders`, as operators |
| `HttpResponse` | the bytes `sendResponse` writes |
| `HttpRequestParser` | the callbacks of the C++ parser, the builder, `BuildRequest` |
| `MCHttpRequestParser` | the requests and routes used for checking, and the tree they are looked up in |
| `HttpRequestParser_proofs` | proofs about `HttpRequestParser` |
| `TaskDispatcher` | `NotificationQueue`, `run` and `RunTaskAsync` |
| `MCTaskDispatcher` | the tasks used for checking |
| `TaskDispatcher_proofs` | proofs about `TaskDispatcher` |
| `StringTraits` | the conversions of query arguments, `getQueryArg` |
| `MCStringTraits` | the texts used for checking |
| `StringTraits_proofs` | proofs about `StringTraits` |

How they fit. Between the socket and a handler there are three layers, each
with a model that takes from the layer below what that layer's model promises:
`HttpParser` turns bytes into callbacks in the order of `CallbackOrder`;
`HttpRequestParser` takes callbacks in that order, cut anywhere, and makes a
request of them, looking its route up in the tree that `MCHttpRequestParser`
builds with the operators of `RadixTree`; `HttpConnection` takes from both when the headers and the
message are complete and how many body bytes came, and runs the two coroutines
around that. `HttpServer` runs connections, knowing only that they suspend,
resume and end. In the other direction `MCHttpParser` feeds what `HttpResponse`
writes to the same `HttpParser` as a client's.

### HttpConnection

A request is a stream of *cells*: `hdr` cells of headers, `body` cells, one per
body byte, and `tail` cells of a pipelined next request. Inside a cell the
place of a read boundary makes no difference; a header cell may end inside or
just behind the digits of Content-Length (`cutIn`, `cutEnd`), where it does.
`received` is how many cells the parser was given, and `StateAt` the parser's
state after so many. `err` is where a malformed request stops the parser for
good: the result of `http_parser_execute` is not looked at.

| action | code |
|---|---|
| `HStart`, `HParse`, `HReadThrows` | the loop of `handle`, `readAndParseData`, an exception of the read or of a callback |
| `HBuild` | `buildRequest` and the spawn of B |
| `HCall`, `HTake`, `HWait`, `HWake`, `HEof` | the handler of `main.cpp`: its start, one round of `readJson`, the wait in `readAny`, its end |
| `HWrite` | `sendResponse` and `sendBody` |
| `BStart`, `BParse`, `BAborts` | `readRequestBody`, its exceptions and its use of a connection that is gone |
| `ClientSend`, `ClientClose`, `ReadCompletes`, `ReadFails`, `TimerExpires` | the client, the kernel, asio |

What the model takes from the surroundings of the code:

* H and B run on the strand of the connection, so they interleave only where
  one of them suspends (`HHoldsStrand`). `spawn` dispatches: B may start inside
  H's step or later, and both are allowed.
* The timer gets no expiry, so its default, the clock's epoch, has passed: a
  wait completes as soon as the reactor looks at it, unless a `cancel` finds it
  pending; then it completes with `operation_aborted`, which a `yield_context`
  without an error code throws.
* An exception that leaves a coroutine spawned without a completion handler is
  rethrown on the pool's thread, and ends the process.
* The build has AddressSanitizer on (`CMakeLists.txt:26`), so a use of the
  destroyed connection or parser ends the process as well. Both ends are
  `process = "aborted"`.
* When H has ended the socket goes with the connection, and a read B had
  pending completes with `operation_aborted`.

### HttpServer

Threads take coroutines whose strands are free (`StrandsFree`). The acceptor's
executor is a strand, and a connection's is a strand on top of it, so a
connection's coroutine holds both. An update of the set is two steps, a read
and a write, with other threads free to come between; that they do not is a
result, not an assumption. `pool = "stopped"` keeps threads from taking new work
and lets them finish what they run. What a connection does inside `handle` is the
other model's; here it suspends, resumes and ends.

`start` and `shutDown` run on threads of their own and meet in the acceptor, which
is closed, open or listening. `start` opens it, and closes it again if it cannot
listen on it; once it listens nothing closes it, so the test at
`http_server.cpp:47` never ends the loop. `shutDown` is four steps: the flag,
`cancel`, `stop` and `join`. `cancel` is the overload that throws, and does so of an
acceptor that is not open: then `shutDown` is `"thrown"`, nothing was stopped, and
it may be called again. That the two threads use the acceptor at once is a data
race; its outcomes are taken to be those of one order or the other.

### UrlDispatcher and RadixTree

A path is a sequence of characters, because the tree cuts keys anywhere; the
tree is a forest of nodes, `next` being the order of siblings and `minor` the
forest below. `Insert` and `LookupFrom` recurse where the code loops. The one
action is `addHandler`; `calls` remembers what was registered and how it ended,
so that `OnlyMatchingHandlers` and `InsertedIsServed` compare what `getHandler`
answers with `Matches`, which compares a route and a path segment by segment.

`PathsCompatible` asks that routes part only where both have an argument or
both have a literal. Without it the tree answers `/a` with the handler of
`/{x}`, or the other way round, depending on the order of registrations; the
repository does not say which it should be.

### HttpParser with HttpUrl, HttpMethods and HttpCharacters

`stream` is all the peer sends; `Execute(n)` begins a call of
`http_parser_execute` with the next `n` bytes, and then each step is one pass
through the switch, one round of the loops over a name or a value (whose inner
`break`, `goto` and early exits are the model's `pc`), or the end of the piece.
The struct's fields are those of `parser`, the locals of the function those of
`exec`: the byte at hand, the marks, `nread` and the start of a loop. A callback
is made inside its step and answers through the constant `Answers`: 0, an error,
2 ("no body") or 1 ("upgrade") of `on_headers_complete`, or a pause.
States that take one character only are rows of `Literals`, and the words that
the header states compare are rows of `FieldWords` and `ValueWords`; every other
state is an action of its name. `IgnoresResult` says which caller it is: the
program's, which drops the result of a call and goes on, or one that stops at an
error or an upgrade and resumes a parser that paused. What the peer may send,
how it is cut and the limits are constants; `max_header_size`, which has a
setter nobody calls, is `MaxHeaderSize`.

`http_parser_parse_url` is an operator on the struct it is given, because the
program gives it the one of the URL before; offsets and lengths are taken modulo
`UINT16_MAX + 1`.

### HttpRequestParser and HttpHeaders

One action per callback, and `BuildRequest`, which `handle` may call whenever the
headers or the message were complete. `Deliver` hands over the next `n` cells of
the URL, a name or a value: in one call, in several, or with an empty last piece,
as the C parser does when a read ends just behind a datum. A cell of a URL is a
character; the cells of a name or a value are the parts a read may separate.
`cut` remembers where, so that properties can speak of what came whole. The
builder survives from one request of a connection to the next as it does in the
code, moved-from members included. What lies behind a piece in the read buffer
is `Unspecified`. The dispatcher is two parameters, `Resources` and `getResource`: the
run gives them the radix tree, the proofs hold for any. `std::stoi` is modelled
without a sign: the C parser refuses a Content-Length that does not begin with a
digit (`http_parser.c:1437`), and only a header whose name was cut could bring one,
of which no property speaks.

### HttpResponse

The bytes of `sendResponse`, by `formatHeaders` in every order the map may have.
`addHeaders` is modelled as it is written, an insertion that leaves what is there.

### TaskDispatcher

What is done under a queue's lock is a step; a lock that is only tried may be
refused. `index_` is set by nobody and any value; `TryPush` ends without a
return where it succeeded, and the caller may find either value. `notify_one` is
a step of its own, because the lock is released before it. A task that was moved
away throws when it is called, and nothing in `run` catches it.

`RunTaskAsync` is modelled as it is meant: it cannot be instantiated as it is
written, because `std::packaged_task<ResultType>` (`task_dispatcher.hpp:116`) names
a result where a signature belongs. A spurious wakeup (line 75) is no step of the
model: `Pop` tests its condition again and sleeps on.

### StringTraits

`strtoull` and `strtoll` with base 0, the range tests and the throws of
`IntegerConverter`, `bool` and `string`, behind the two `getQueryArg`. `strto`
reads a text as the library does, from left to right: blanks, a sign, a prefix,
as many digits as there are. `Unsigned` is what it is held against: the ways the
whole text may be written as a number (`Writings`) and the sum of its digits by
their places (`Value`).

## 3. The runs

| run | instance | states | shows |
|---|---|---|---|
| `connection` | ten requests, one per kind, and lengths of 10 to 12 with cuts in and behind the digits; reads of up to 12 cells; fairness | 157 000 | the invariants, `CompleteIsFinal`, the refinement of `RequestExchange`, that requests end and connections are released, but for answers nobody reads |
| `server` | 2 threads, 3 clients, 2 descriptors, fairness | 185 000 | the invariants, where `shutDown` returns and where it throws, the backlog is served |
| `dispatcher` | 5 literal routes with 2 methods, 4 registrations; 5 routes, 4 with arguments, 5 registrations | 15 000 | who is served, who is lost, and the shape of the tree |
| `dispatcher_names` | an argument under two names | | a disagreement, see 5 |
| `parser_requests` | requests in a row; every byte replaced by one of four; lengths and chunk sizes around the limit; lists in `Connection` and `Proxy-Connection`, each followed by another request; callbacks that fail, skip the body or upgrade; read byte by byte and whole | 1 579 000 | what is reported, the limit, keep-alive, lengths, the order of callbacks, that errors are final |
| `parser_responses` | a client's parser: responses, every byte replaced, every response a server sends; callbacks that fail or pause; fairness | 284 000 | the assertions, what is reported, what becomes of sent headers, that calls return |
| `parser_tabs` | lists in a Connection header | | a disagreement, see 5 |
| `request_parser` | about forty exchanges with seven deployments, cut into up to two pieces more | 130 000 | when the request built is the one sent |
| `request_fields` | a URL with a schema behind one with a query | | a disagreement, see 5 |
| `request_pieces` | a URL of two segments, a length of two digits | | a disagreement, see 5 |
| `task_dispatcher` | 2 workers, 2 tasks, fairness | 52 000 | a task taken by `TryPush` ends the process; otherwise tasks run once and workers wait |
| `arguments` | every text of up to 4 of 8 characters, a byte as the widest type, ints of 3 bits | 46 000 | what converts and what does not |

Bounds of the connection, server and dispatcher. Bodies of 2 and 3 cells give a
body that comes with the headers, in part with them, and in several reads; two
header cells give a read inside the headers. No counter needs a bound of its
own: the request bounds them. The proofs cover all other sizes. Two threads are
what a race needs; a third client lets one wait while one is accepted and one
handled, and two descriptors make them run out. Five routes make every split and
descent of the tree happen, in every order; requests are all paths of up to
three segments.

Bounds of the parser. The streams are chosen so that every action is taken,
though not every row of the tables of words, and every kind of framing occurs: none, a length, chunks with
and without trailers, a body to the end of the connection, and messages of each
kind behind messages of each other kind, since what survives a message is what
can go wrong. Cutting is byte by byte or not at all: with single bytes every
datum is interrupted everywhere, with the whole stream nowhere. The limit of 62
bytes is met by a head of 63 and by shorter ones; `MaxLength` of 63 stands for
`ULLONG_MAX`, a power of two less one like it, and the lengths tried lie on both
sides of every test against it. `UINT16_MAX` is 65535 in these runs, as in the
program. The lists of `KeptAsAsked` have up to three parts, each an element, a
blank, a tab, a comma or a folded line, so that an element stands first, last, behind an
empty one, behind noise and at either end of a fold; what follows them is a request
of HTTP/1.0, which is taken or refused.

Bounds of the request parser. Two requests show what one leaves for the next;
`MaxCuts` is 2; fields of 4 bits wrap at 16 characters of URL as 16 bits wrap at
65536; `MaxInt` is 99. Bounds of the arguments: with limits of
255, 7 and 3 each range ends inside the texts tried, on both sides of 0. Two workers share the queue
`index_` names and leave the other to nobody; two tasks meet in it.

`CHECK_DEADLOCK FALSE`: registration ends (dispatcher); a server with no client,
or after `shutDown`, really stops (server); an exchange ends or is thrown out
(request_parser); workers wait for ever (task_dispatcher); an argument is asked
for once (arguments). In the other runs deadlock is checked: a connection stops
only at the end of both coroutines, the parser only where its caller is done
with it.

Fairness. What asio can complete it completes, and its pool runs what is
queued: weak fairness. B and the accept loop have strong fairness, because the
strand is handed round and they are not enabled at every moment, but it is a
FIFO queue and their turn comes. Nothing is assumed of clients: they need not send,
nor close, nor read what is written to them. A write has no timeout, so it completes
for certain only when the connection was reset, and an answer may wait for its
reader for ever; the liveness properties except it by name (`AnswerUnread`). Of the
parser: a
call that has begun goes on, as it runs on one thread; nobody has to make one.
Of the task queues: each worker and each caller inside `RunTaskAsync` is
scheduled, weakly; nobody has to call it.

Refinements. `HttpConnection` implements `RequestExchange` (`RefinesExchange`,
checked and proved). `HttpParser` implements `CallbackOrder`
(`CallbacksInOrder`, checked and proved): the last callback made and whether the
last chunk was announced are its state, and a step without a callback stutters.
It is on noisy streams and with callbacks that fail or skip that this says
something.

## 4. What is proved

For every set of requests, read size and limit (`HttpConnection_proofs`), from
the assumptions that requests have the fields' types, that bodies cannot be
malformed and that sizes are positive: `TypeOK`, `StreamAccounting`,
`EofLeavesNoBodyReader`, `AbortBlame`, `OnlyCancelLosesAnswer`,
`CompleteIsFinal`, and `RefinesExchange`.

The argument. None of these is inductive. `AbortBlame`, for instance, says why
the process can go down; to see that B's exceptions never come from elsewhere
one has to know that B runs only past the headers and before the end of the
message (`PcInv`), that the parser's state says where in the stream it is
(`ParserInv`), that the end of the stream means that promised and parsed bytes
are equal (`StreamInv`), that a read error has a cause (`EndInv`), and that no
more was read than was sent (`FlowInv`). `IInv` is their conjunction.
`ParseKeeps` does the work for a parse call, `BlameFacts` and `EofFacts` draw
the conclusions, and `StepIInv` goes through the eighteen actions. The
refinement maps the places of H to phases; a parse call is a stutter
(`ParseUnseen`), and a step that ends H is `Fail` or `Finish`.

For any number of threads, connections and descriptors (`HttpServer_proofs`),
from the assumption that the loop, the connections and the idle mark differ and
that there is a descriptor: `TypeOK`, `OneThreadAtWork`, `ActiveExact`,
`OneLateConnection`, `ReturnLeavesNothing`. The inductive invariant adds that a
connection at work is on a thread, that a thread in the middle of an update has
read the set as it still is, what holds before the loop starts, and where the
loop stands after the late connection, as long as the flag is down: `start` may
set it again after `shutDown` has cleared it, and `OneLateConnection` excepts
that. `StrandsExclude` is the heart of it: to take any coroutine
a thread needs the acceptor's strand, so every other thread is idle.

For every stream, every cut of it into pieces, every answer of a callback, type
of parser, limit and greatest length (`HttpParserInvariant_proofs` to
`HttpParserLengths_proofs`): `ParserTypeOK`, `NoAssertFails`, `ErrorIsFinal`,
`CallbacksInOrder`, `HeadersWithinLimit` and `LengthsDoNotWrap`. They rest on
`ParserAssumption` (streams are sequences of strings, pieces are not empty, a
hexadecimal digit fits a length) and `CharsAssumption`, which TLC evaluates: the
words compared letter by letter are of the lengths they have, and
"content-length" begins with the letters compared one at a time, since the prover
does not see the letters of a word. `HeadersWithinLimit` and `LengthsDoNotWrap`
are proved of `IgnoresResult`, the caller of this program.

The argument. The assertions of the code speak of one state each, but what makes
them true was settled many states before, often in another call. `Inv` therefore
says, of each state: where in its piece a call stands (`Place`); which length is
still known (`Measured`: a chunk is read only while the flag of chunks is set, a
flagged length is not the one that means none); that an index is inside the word
compared (`Words`); which datum is marked, and that the end of a chunk has one or
its data was reported already (`Marking`); what was called back last (`Order`,
`NoTrailers`). All of that is void after an error, and a paused parser must keep
it. `HttpParserInvariant_proofs` has a lemma for each way a step can end (`Fail`,
`Break`, `Reexecute`, a callback that goes on, fails or pauses), which says what
it asks of the struct; the rows of the tables and the states are then gone through
one by one. The refinement adds nothing to `Inv`: `Ordered` says that a step makes
the calls `Order` allows and moves to a state that expects them.

The limit needs an invariant of its own, because the bytes of a name or a value
are counted when its loop ends, and the count lives in a local variable while a
call runs. `Near` bounds how far the count lags behind the position: where the
head of a message is read, the next byte is no further from the message's first
than the count says. TLC shows why the caller matters: with a limit of 14 and a
callback that pauses, a caller that resumes gets a head of 19 bytes called
complete, because `http_parser_pause` and `SET_ERRNO` keep the count of the last
call and drop that of the bytes seen since. The program never pauses a parser.

`LengthsDoNotWrap` compares a length, which the code computes digit by digit over
any number of calls, with a fold over the text that was reported. `LengthInv`
says of every place in a head what the bytes up to it have come to: of a name
that is still compared, that it agrees with "content-length" so far, counted from
where its entry in the history begins (`NameRead`); of one that agreed to its
end, that it is the last entry (`NameFound`); of a length that is read, that its
entry so far is digits and then blanks and the number that of the digits
(`Reading`); of one that was read, that two entries state it (`Stated`), to which
no later callback adds. That a name found is still the last when its value
begins, and that a second length is refused, is what keeps the two entries those
of this message. A chunk's size has no entry; its digits begin behind the last
one (`SizeRead`, `ChunkStated`). That the number of a text with one more digit is
ten times the number and the digit (`DecimalStep`, `HexStep`) is a fact about
folds; the library's induction theorems cannot be used here, but for one fold at a
time the least place where it fails does (`Induction`).

For any number of workers and any set of tasks (`TaskDispatcher_proofs`), from
the assumption that there is a worker and that "moved from" and "no task" are not
tasks: `TypeOK`; `OnePlace`, a task is where its caller has it, at one place of
one queue, with one worker, or was run exactly once; `OnlyMovedFrom`, the process
ends only where `TryPush` has moved a task away; and `NoWakeupLost`, while a
worker sleeps each task in its queue has a notification on its way or a worker
awake for it, although the notification is given after the lock. They are the
safety half of the liveness properties which the run checks, and their
conjunction with `OwnTask` is inductive.

For any requests on a connection, cut anywhere, and whatever the dispatcher finds
(`HttpRequestParser_proofs`): `MethodAsAsked` and `HeadersAsSent`, from
`ExchangesAssumption` (requests have the fields' types) and `LettersAssumption`
(GET begins with G and POST with P, which the prover cannot see in a string);
and `UrlAsAsked`, `CutUrl` and `ArgumentIsSegment`, for any width of the fields,
from `UrlsAssumption` and `NoRouteAssumption` too. The first says what the parts of a URL are, so that its
text can be told from its parts: no `/` in a schema or a host, no `?` and `#` in a
path, nothing in the path, the query and the fragment that a request line may not
contain, and a path first where there is no schema. The second says that no
route is found for the empty path, which is so unless the empty string is
registered as one.

The argument. A request says of its headers and its method what the builder held
when it was built, so the invariant follows the builder. `FedInv` ties
`mParseState` to the place of the callbacks. `HeaderInv` says that, while nothing
was built and every name and value came whole, the builder has exactly the values
of the places in `Seen`, those delivered to their end, by name and in order, and
that before a value the name remembered is the one sent with it. The order is
told by `Rank`, how many values of the name were sent up to a place: `AddSent` shows
that `add` puts a value at its rank and leaves the others at theirs, `SeenNext`
that a value delivered is one more place. `ReaderInv` says that a reader promises
the last length once the headers were complete; `AtEnd` and `BuildEffect` draw the
conclusions for the two steps that can build or throw. Where something came in
pieces, and after a request was built, `HeaderInv` promises nothing, as the code
does not.

The URL is scanned twice, and each time a fold over its text has to be shown to
find what the client put there. `Layout` says where the parts of a URL lie in its
text (`UrlIsLaidOut`), `UrlIsScanned` goes through it character by character: in
front of the path the state is one of a schema or a server, or the URL is given
up; from the path on it is never given up, and what the struct holds of the path
and the query is what was met of them, modulo the width (`Counted`). The host's
loop, which comes after it, leaves both alone (`HostRead`). That the path is cut
from its offset to its length is right only where the offset is 0 (`PathTaken`):
elsewhere the text taken begins with the schema's neighbour, never with the
path's first slash at the right length. The loop over the query is behind k
characters in the element that begins at b (`InElement`), and what it has put
into the map are the elements before b, the last of a name (`QueryRead`); where no
element lacks its `=`, the loop and `Pairs` agree (`QueryParsed`). `UInv` carries
this from `on_url` to `BuildRequest`: while nothing was built, the builder has
what was taken of a URL that came whole (`TakenInv`), and the struct that a later
URL is parsed into has offsets and lengths, but only before the first URL are
those of the query known to be 0 (`StructInv`). It is inductive relative to
`IInv`. A fold is a chosen function on sets of places; that there is one, and
that its values follow from place to place, is `StepsExist` and `RunOfSteps`.

Of a URL in pieces nothing is known but that each piece is scanned alone, so
`Layout` is of no use behind a cut. What a piece begins with decides: neither a
slash, a star nor a letter, and it is given up at its first character
(`DeadFromStart`); a slash or a star, and it is path up to its first ? or #, the
offset 0 and the length counted modulo the width (`PieceRead`, `PathUpToQuery`). A
last piece that begins with a letter goes by the schema, and the theorem says
nothing of its path, as the property does not. `CInv` carries this: the pieces of
a URL still read begin before what is read next (`PiecesInv`); while nothing
stopped the parser each of them begins like a URL, and the builder's path is that
of the last (`LastInv`); a built request gets no more pieces (`BuiltInv`). It is
inductive relative to `UInv` and `IInv`.

`ArgumentIsSegment` holds of any routes which match the paths they are found for
(`FoundAssumption`, for every path the exchanges ask for and every deployment; the
runs of the dispatcher check it of its tree as `OnlyMatchingHandlers`, for
routes that are `Compatible`). `BuildRequest` cuts as many characters as the index
of the next slash says, from a position of at least 1, so a cut that has a slash
ahead always takes it in, and no segment has one (`SplitShape`): what is cut is the
segment exactly if the whole rest of the path is (`CutIsRest`). Of arguments with
one name the last counts, because positions only grow (`StartsGrow`). The run has
a route where this is not the last segment, `/{xx}/{y}/b`, which for `/a/b/b` cuts
the right text from the wrong place.

For any texts of arguments and any greatest values of the types
(`StringTraits_proofs`): `ArgumentsConvert`, from `LimitsAssumption` (the types
are no wider than one another in their order, an int has a value above 0) and
`TextsAssumption` (arguments are sequences of strings, an exception is not a
value). What has to be shown is that reading from left to right and the ways of
writing are the same thing: a text that is written as a number is taken to its
end, with the magnitude and the sign of that writing (`WrittenIsTaken`), so there
is no second writing of another value; and a text that is taken to its end is
written (`TakenIsWritten`). A lone 0 is the case where the two take another path,
octal here and decimal there. That the magnitude, from digit to digit, is the sum
by places (`PlaceValues`) goes by the same induction as the lengths. The range
test of signed types is true whatever the value (`SignedThrows`).

Only model-checked, and why:

* The liveness properties of the connection, the server, the parser and the task
  queues: fairness and ENABLED are out of the prover's reach.
* `TreeShape`, `OnlyMatchingHandlers`, `InsertedIsServed`, `LostForTwoReasons`: the
  tree's operators are RECURSIVE, and what they compute needs induction over it.
* `FieldsAsWritten` is about hosts and ports too, of which the run gives the parts:
  of every host one would have to assume how it is written, an address in
  brackets or a name without a colon, and prove it of the host's loop as well.
* `KeptAsAsked` is exact for the lists of the run. A proof would need an invariant of
  its own, of every place in a list: which letters of which word were met, and what
  the lines folded so far have come to.
* `Delivered` and `HeadersReadAsBody` are about given messages and their expected
  callbacks, which are data of the instance.

## 5. Where the code and its own words disagree

* `request_fields`: `http_parser.h:365-366` says that a field of a URL may be read
  "iff field_set has the relevant (1 << UF_*) bit set", and 375-376 that its bytes
  run from `off`, `len` of them. `onUrlImpl` tests `field_set << UF_PATH`, which is
  true of every set that is not empty, and ends the path at `len`
  (`http_request_parser.cpp:181-191`). A URL with a schema is served by a wrong path,
  and with a query cut at the places of the URL before.
* `request_pieces`: `http_parser.h:86-88` says that a string comes in any number of
  pieces, and names `on_url`. `onUrlImpl` (`http_request_parser.cpp:177`) parses each
  piece as a URL, and `onHeaderValueImpl` (233) makes each piece a value, so a read
  boundary changes the path of a request, and in the digits of Content-Length the
  length of the stream.
* `dispatcher_names`: `radix_tree_test.cpp:35-42` matches two routes across an
  argument they name differently, with two lengths; `insert_internal` cuts the
  key by the wrong one (`radix_tree_map.hpp:282`).
* `parser_tabs`: `http_parser.c` has the whitespace between the elements of a
  list skipped (the comments of 1591 and 1626), and compares the character with
  a blank and a tab; but it compares `c`, its lower case, which is never a tab.
  `keep-alive,<tab>close` keeps the connection.

One disagreement is plain enough without a run: `handle` compares a counter with the
limit that it never adds to, so "receive large http message"
(`http_connection.cpp:84-86`) is never thrown.

What the passing properties except by name is as telling: a write to the
stream may cancel the wait it should end (`OnlyCancelLosesAnswer`); a client
that leaves in the middle of its body, or a handler that fails while the body
is read, takes the process down (`AbortBlame`); a body of length 0 keeps the
handler polling for ever (`GoneClientReleases`); a second method
of a route, and a route that is where two others part, are dropped in silence
(`LostForTwoReasons`). PUT and PATCH are POST and other methods are whatever came
before (`MethodAsAsked`), an argument is its segment only by chance
(`ArgumentIsSegment`), headers pile up on a connection until a request is built
(`HeadersAsSent`), the headers of a response are read as its body
(`HeadersReadAsBody`), no signed argument converts (`ArgumentsConvert`), and a task
handed over by `TryPush` ends the process (`TakenTaskTerminates`). An answer that
its client does not read keeps the connection for ever (`WholeRequestEnds`), and a
shutdown that comes too early throws, or leaves the flag up (`ShutDownReturns`,
`OneLateConnection`). Nothing in the repository says otherwise of these, so they are
stated as what the code does, exactly, and not as findings.

Two passing properties say exactly how far the first two disagreements above go:
`UrlAsAsked`, when the path and the query of a URL read whole are the ones asked for
(never the path of an absolute URL; the query may be the one of the request
before), and `CutUrl`, that a URL in two pieces is the second.

## 6. Not modelled

* JSON serialization, the DI container: composed at compile time, no state of
  their own at run time. ORM: declarations only. Redis client: unfinished, it
  does not instantiate. MIME types, status texts, error texts: tables.
* Floating point in `StringTraits`: what `strtod` reads is the library's.
* The tree's iterators: `parent` links are not kept by a split, some functions
  have no body, and nothing in the server iterates.
* Of `HttpRequest`, `readAll` and `readAny`, which differ from `readJson` only in
  what they do with the bytes, and getters without a body; of `HttpResponse`, the
  stream response, which is commented out; of `HttpHeaders`, `erase` and iteration,
  which forward to the map and have no caller.
* `http_body_is_final` and the setter of the header limit, which have no caller.

Another disagreement of a comment is not a run: `http_parser.h:304` says that
`uses_transfer_encoding` means the header was present, while the code
(`http_parser.c`, the `h_matching_transfer_encoding` case) also leaves it set
where a longer name begins alike.

## 7. Plan

1. Proofs: that the scan of a URL finds the parts it was written with; what
   `formatHeaders` writes of headers that were set.
2. Composition of `HttpServer` with the exchange each connection implements.
3. Routes that compete, if their order is ever documented.
