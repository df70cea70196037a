--------------------------- MODULE HttpConnection ---------------------------
(***************************************************************************)
(* One connection from its first read to its end                           *)
(* (src/http/http_connection.cpp), with the request parser's state as far  *)
(* as the connection reads it, the body stream of HttpBodyStreamReader and *)
(* the handler of main.cpp.                                                *)
(*                                                                         *)
(* Two coroutines share the parser, the read buffer and the socket:        *)
(*   H  HttpConnection::handle: reads until the headers are parsed, builds *)
(*      the request, starts B and calls the handler, which takes the body  *)
(*      from the stream and sends the response;                            *)
(*   B  the coroutine spawned at http_connection.cpp:95 to read the rest   *)
(*      of the body into the parser, with `this` and H's parser captured   *)
(*      by reference and no handler for exceptions.                        *)
(* Both run inside the acceptor's strand, so they interleave only where    *)
(* one of them suspends.  The client, the kernel and asio's reactor run at *)
(* any time.                                                               *)
(*                                                                         *)
(* The request is a stream of cells: hdr cells of request line and         *)
(* headers, body cells of body and tail cells of a pipelined next request  *)
(* whose headers are not complete.                                         *)
(* A cell is a run of bytes inside which the place of a read boundary      *)
(* makes no difference; a body cell is one byte.                           *)
(***************************************************************************)
EXTENDS HttpBodyStreamReader

CONSTANTS Requests,         \* the requests a client may send
          OsBufferSize,     \* SO_RCVBUF: the most one read returns
          kMaxMessageSize   \* http_connection.cpp:25

(***************************************************************************)
(* What the connection can tell of a request:                              *)
(*   hdr, body, tail  cells of headers, of body, of a next request         *)
(*   err              cells before the first malformed one, 0 if none      *)
(*   cutIn, cutEnd    the boundaries inside and just after the digits of   *)
(*                    Content-Length (0 if the request has no such cell)   *)
(*   length           the request has the header the builder looks up      *)
(*   builds           BuildRequest finds path, method, version and host    *)
(*   handler          "reads": takes the body and answers; "throws":       *)
(*                    throws before reading; "rejects": throws when it has *)
(*                    read the body (not JSON, or not the expected type)   *)
(***************************************************************************)
RequestType ==
  [hdr : Nat \ {0}, body : Nat, tail : Nat, err : Nat, cutIn : Nat,
   cutEnd : Nat, length : BOOLEAN, builds : BOOLEAN,
   handler : {"reads", "throws", "rejects"}]

\* Any byte can stand in a body: only headers can be malformed.
ASSUME RequestsAssumption ==
  /\ Requests \subseteq RequestType
  /\ \A r \in Requests : r.err < r.hdr
ASSUME OsBufferAssumption == OsBufferSize \in Nat \ {0}
ASSUME MaxMessageAssumption == kMaxMessageSize \in Nat \ {0}

VARIABLES
  req,            \* the request of this connection
  sent,           \* cells the client has sent
  client,         \* "open", "fin" (closed in order) or "reset"
  received,       \* cells handed to the parser
  contentLength,  \* what HttpHeaders::getContentLength returns when the
                  \* headers are complete
  mParseState,    \* HttpRequestParser::mParseState
  readState,      \* the socket's async_read_some: "none", "pending", "data",
                  \* "error"
  readLen,        \* cells in the read buffer when readState = "data"
  totalReadMessageSize, \* the counter of HttpConnection::handle
  hPc,            \* where H is
  bPc,            \* where B is
  response,       \* what was sent to the client
  failure,        \* the exception that ended H, "none" if none did
  process         \* "running", or "aborted" by std::terminate or a use after
                  \* free

clientVars == <<req, sent, client>>
parserVars == <<received, contentLength, mParseState>>
socketVars == <<readState, readLen>>
outcomeVars == <<response, failure, process>>
vars == <<clientVars, parserVars, socketVars, totalReadMessageSize, hPc, bPc,
          outcomeVars, readerVars>>

\* getContentLength throws: the last value of the header is not a number.
BadLength == -2

TypeOK ==
  /\ req \in Requests
  /\ sent \in Nat
  /\ client \in {"open", "fin", "reset"}
  /\ received \in Nat
  /\ contentLength \in Nat \cup {BadLength}
  /\ mParseState \in {"INITED", "IN_PROGRESS", "HEADERS_COMPLETE", "COMPLETE"}
  /\ readState \in {"none", "pending", "data", "error"}
  /\ readLen \in Nat
  /\ totalReadMessageSize \in Nat
  /\ hPc \in {"start", "reading", "building", "calling", "body", "waiting",
              "writeHead", "writeBody", "done"}
  /\ bPc \in {"none", "spawned", "reading", "done"}
  /\ response \in {"none", "head", "sent"}
  /\ failure \in {"none", "read", "parse", "size", "build", "handler",
                  "cancelled", "write"}
  /\ process \in {"running", "aborted"}
  /\ ReaderTypeOK

-----------------------------------------------------------------------------
(***************************************************************************)
(* The stream of cells as http_parser_execute takes it.                    *)
(***************************************************************************)
Total == req.hdr + req.body + req.tail

\* After a malformed cell the parser takes nothing any more: every later
\* call of http_parser_execute returns at once and nobody asks why.
Position(n) == IF req.err # 0 THEN Least(n, req.err) ELSE n

\* Body cells among the first p cells of the stream.
BodyCells(p) == IF p < req.hdr THEN 0 ELSE Least(p - req.hdr, req.body)

\* mParseState after the first p cells.  The first cell of a next request
\* calls on_message_begin again.
StateAt(p) ==
  CASE p = 0 -> "INITED"
    [] p > 0 /\ p < req.hdr -> "IN_PROGRESS"
    [] p >= req.hdr /\ p < req.hdr + req.body -> "HEADERS_COMPLETE"
    [] p = req.hdr + req.body -> "COMPLETE"
    [] OTHER -> "IN_PROGRESS"

\* http_parser hands over a header value in as many pieces as the reads cut
\* it into, and onHeaderValueImpl adds each piece as a value of its own;
\* getContentLength converts the last one.  A cut inside the (two) digits
\* leaves the last digit, a cut behind them an empty piece, which does not
\* convert.
LengthAfter(p) ==
  CASE p # 0 /\ p = req.cutIn  -> req.body % 10
    [] p # 0 /\ p = req.cutEnd -> BadLength
    [] OTHER -> contentLength

parseComplete(state) == state = "COMPLETE"
parseMessageComplete(state) == state = "HEADERS_COMPLETE"

\* Mistake: the loop does not stop at a message that came whole.
HeadersParsedOnly(state) == parseMessageComplete(state)

\* What ends the reading loop of handle.
HeadersParsed(state) == parseMessageComplete(state) \/ parseComplete(state)

-----------------------------------------------------------------------------
(***************************************************************************)
(* One call of HttpRequestParser::parse on the cells in the read buffer.   *)
(***************************************************************************)
From == Position(received)
Upto == Position(received + readLen)
HeadersEnd == From < req.hdr /\ Upto >= req.hdr
Delivered == BodyCells(Upto) - BodyCells(From)

\* Mistake: a Content-Length that is no number goes unnoticed.
ParseThrowsLax == HeadersEnd /\ ~req.length /\ Delivered > 0

\* A callback throws: onHeadersComplete on a Content-Length that is no
\* number, AppendBody on body bytes of a request that has no body reader.
ParseThrows ==
  \/ HeadersEnd /\ req.length /\ contentLength = BadLength
  \/ HeadersEnd /\ ~req.length /\ Delivered > 0

\* The callbacks' effect on the body stream.
ParseBody ==
  \/ HeadersEnd /\ req.length /\ Construct(contentLength, Delivered)
  \/ ~HeadersEnd /\ Delivered > 0 /\ Write(Delivered)
  \/ /\ IF HeadersEnd THEN ~req.length ELSE Delivered = 0
     /\ UNCHANGED readerVars

Parse ==
  /\ ~ParseThrows
  /\ received' = received + readLen
  /\ contentLength' = LengthAfter(Upto)
  /\ mParseState' = StateAt(Upto)
  /\ ParseBody

-----------------------------------------------------------------------------
Running == process = "running"

\* H holds the strand between two of its suspensions.
HHoldsStrand == hPc \in {"building", "calling", "body"}

Init ==
  /\ req \in Requests
  /\ sent = 0
  /\ client = "open"
  /\ received = 0
  /\ contentLength = req.body
  /\ mParseState = "INITED"
  /\ readState = "none"
  /\ readLen = 0
  /\ totalReadMessageSize = 0
  /\ hPc = "start"
  /\ bPc = "none"
  /\ response = "none"
  /\ failure = "none"
  /\ process = "running"
  /\ ReaderInit

-----------------------------------------------------------------------------
(***************************************************************************)
(* The client and the kernel.                                              *)
(***************************************************************************)
ClientSend ==
  /\ Running
  /\ client = "open"
  /\ sent < Total
  /\ sent' = sent + 1
  /\ UNCHANGED <<req, client, parserVars, socketVars, totalReadMessageSize,
                 hPc, bPc, outcomeVars, readerVars>>

\* The client closes in order, or the connection is reset.
ClientClose ==
  /\ Running
  /\ client = "open"
  /\ client' \in {"fin", "reset"}
  /\ UNCHANGED <<req, sent, parserVars, socketVars, totalReadMessageSize, hPc,
                 bPc, outcomeVars, readerVars>>

\* async_read_some completes with the cells that have arrived, at most
\* OsBufferSize of them, and queues the coroutine that waits for it.
ReadCompletes ==
  /\ Running
  /\ readState = "pending"
  /\ hPc # "done"
  /\ client # "reset"
  /\ \E n \in 1..OsBufferSize :
       /\ received + n <= sent
       /\ readLen' = n
  /\ readState' = "data"
  /\ UNCHANGED <<clientVars, parserVars, totalReadMessageSize, hPc, bPc,
                 outcomeVars, readerVars>>

\* The read fails: end of file, connection reset, or operation_aborted
\* because H has ended and the connection was destroyed with its socket.
ReadFails ==
  /\ Running
  /\ readState = "pending"
  /\ \/ client = "reset"
     \/ client = "fin" /\ received = sent
     \/ hPc = "done"
  /\ readState' = "error"
  /\ UNCHANGED <<clientVars, parserVars, readLen, totalReadMessageSize, hPc,
                 bPc, outcomeVars, readerVars>>

TimerExpires ==
  /\ Running
  /\ Expire
  /\ UNCHANGED <<clientVars, parserVars, socketVars, outcomeVars,
                 totalReadMessageSize, hPc, bPc>>

-----------------------------------------------------------------------------
(***************************************************************************)
(* H: HttpConnection::handle and the handler it calls.                     *)
(***************************************************************************)

\* An exception leaves handle: ConnectionsManager catches it, forgets the
\* connection, and the last reference to it goes with the coroutine.
HFail(why) ==
  /\ hPc' = "done"
  /\ failure' = why

HStart ==
  /\ Running
  /\ hPc = "start"
  /\ readState' = "pending"
  /\ hPc' = "reading"
  /\ UNCHANGED <<clientVars, parserVars, readLen, totalReadMessageSize, bPc,
                 outcomeVars, readerVars>>

\* H's read came back with data: parse it; the loop ends when the headers or
\* the whole message are parsed and otherwise reads again.  The size check
\* comes after the parse and reads a counter nobody advances.
HParse ==
  /\ Running
  /\ hPc = "reading"
  /\ readState = "data"
  /\ Parse
  /\ readLen' = 0
  /\ IF totalReadMessageSize >= kMaxMessageSize
     THEN HFail("size") /\ readState' = "none"
     ELSE /\ IF HeadersParsed(mParseState')
             THEN hPc' = "building" /\ readState' = "none"
             ELSE hPc' = "reading" /\ readState' = "pending"
          /\ UNCHANGED failure
  /\ UNCHANGED <<clientVars, totalReadMessageSize, bPc, response, process>>

\* A read error or an exception of a parser callback; the parser goes with H.
HReadThrows ==
  /\ Running
  /\ hPc = "reading"
  /\ \/ readState = "error" /\ HFail("read")
     \/ readState = "data" /\ ParseThrows /\ HFail("parse")
  /\ readState' = "none"
  /\ readLen' = 0
  /\ UNCHANGED <<clientVars, parserVars, totalReadMessageSize, bPc, response,
                 process, readerVars>>

SpawnB == bPc' = IF parseComplete(mParseState) THEN "none" ELSE "spawned"

\* Mistake: B is spawned before the request is known to build.
HBuildSpawnsFirst ==
  /\ Running
  /\ hPc = "building"
  /\ SpawnB
  /\ IF req.builds /\ req.length
     THEN hPc' = "calling" /\ UNCHANGED failure
     ELSE HFail("build")
  /\ UNCHANGED <<clientVars, parserVars, socketVars, totalReadMessageSize,
                 response, process, readerVars>>

\* buildRequest, and the coroutine for the rest of the body.
HBuild ==
  /\ Running
  /\ hPc = "building"
  /\ IF req.builds /\ req.length
     THEN SpawnB /\ hPc' = "calling" /\ UNCHANGED failure
     ELSE HFail("build") /\ UNCHANGED bPc
  /\ UNCHANGED <<clientVars, parserVars, socketVars, totalReadMessageSize,
                 response, process, readerVars>>

\* The handler's code before its first read of the body; it throws when it
\* is the empty function or a query argument is missing.
HCall ==
  /\ Running
  /\ hPc = "calling"
  /\ IF req.handler = "throws"
     THEN HFail("handler")
     ELSE hPc' = "body" /\ UNCHANGED failure
  /\ UNCHANGED <<clientVars, parserVars, socketVars, totalReadMessageSize,
                 bPc, response, process, readerVars>>

\* readJson: one round of `while (!isEof()) write(readAny())`.  The JSON
\* parser may refuse what it is given.
HTake ==
  /\ Running
  /\ hPc = "body"
  /\ TakeAll
  /\ \/ UNCHANGED <<hPc, failure>>
     \/ req.handler = "rejects" /\ HFail("handler")
  /\ UNCHANGED <<clientVars, parserVars, socketVars, totalReadMessageSize,
                 bPc, response, process>>

HWait ==
  /\ Running
  /\ hPc = "body"
  /\ AwaitData
  /\ hPc' = "waiting"
  /\ UNCHANGED <<clientVars, parserVars, socketVars, totalReadMessageSize,
                 bPc, outcomeVars>>

\* H resumes from async_wait: the loop looks at the buffer again, or the
\* cancelled wait throws operation_aborted into the handler.
HWake ==
  /\ Running
  /\ hPc = "waiting"
  /\ \/ /\ mBodyReadLock = "expired"
        /\ hPc' = "body"
        /\ UNCHANGED failure
     \/ mBodyReadLock = "cancelled" /\ HFail("cancelled")
  /\ EndWait
  /\ UNCHANGED <<clientVars, parserVars, socketVars, totalReadMessageSize,
                 bPc, response, process>>

\* Mistake: the loop reads before it tests, and readAny throws "stream eof".
HEofReadsAgain ==
  /\ Running
  /\ hPc = "body"
  /\ mEof
  /\ HFail("handler")
  /\ UNCHANGED <<clientVars, parserVars, socketVars, totalReadMessageSize,
                 bPc, response, process, readerVars>>

\* The stream is at its end: the handler rejects the body or answers.
HEof ==
  /\ Running
  /\ hPc = "body"
  /\ mEof
  /\ IF req.handler = "rejects"
     THEN HFail("handler")
     ELSE hPc' = "writeHead" /\ UNCHANGED failure
  /\ UNCHANGED <<clientVars, parserVars, socketVars, totalReadMessageSize,
                 bPc, response, process, readerVars>>

\* sendResponse: one async_write for the head, then the body's.  A write to
\* a client that is gone may fail.
HWrite ==
  /\ Running
  /\ \/ /\ hPc = "writeHead"
        /\ hPc' = "writeBody" /\ response' = "head" /\ UNCHANGED failure
     \/ /\ hPc = "writeBody"
        /\ hPc' = "done" /\ response' = "sent" /\ UNCHANGED failure
     \/ /\ hPc \in {"writeHead", "writeBody"}
        /\ client # "open"
        /\ HFail("write") /\ UNCHANGED response
  /\ UNCHANGED <<clientVars, parserVars, socketVars, totalReadMessageSize,
                 bPc, process, readerVars>>

-----------------------------------------------------------------------------
(***************************************************************************)
(* B: the coroutine that reads the rest of the body.                       *)
(***************************************************************************)

\* spawn dispatches B: it starts inside H's own step, right after the spawn,
\* or when the strand comes to it.  When H has ended by then, `this` and the
\* parser are gone.
BStart ==
  /\ Running
  /\ bPc = "spawned"
  /\ hPc = "calling" \/ ~HHoldsStrand
  /\ IF hPc = "done"
     THEN process' = "aborted" /\ UNCHANGED <<bPc, readState>>
     ELSE /\ bPc' = "reading"
          /\ readState' = "pending"
          /\ UNCHANGED process
  /\ UNCHANGED <<clientVars, parserVars, readLen, totalReadMessageSize, hPc,
                 response, failure, readerVars>>

\* B's read came back with data for a connection that still exists.
BParse ==
  /\ Running
  /\ bPc = "reading"
  /\ readState = "data"
  /\ ~HHoldsStrand
  /\ hPc # "done"
  /\ Parse
  /\ readLen' = 0
  /\ IF parseComplete(mParseState')
     THEN bPc' = "done" /\ readState' = "none"
     ELSE bPc' = "reading" /\ readState' = "pending"
  /\ UNCHANGED <<clientVars, totalReadMessageSize, hPc, outcomeVars>>

\* Mistake: B's exceptions are caught and dropped.
BGivesUp == bPc' = "done" /\ UNCHANGED process

\* Nothing catches what B throws.
BTerminates == process' = "aborted" /\ UNCHANGED bPc

\* B's read failed and the exception leaves the coroutine, or it came back
\* with data after the connection was destroyed.
BAborts ==
  /\ Running
  /\ bPc = "reading"
  /\ ~HHoldsStrand
  /\ readState = "error" \/ (readState = "data" /\ hPc = "done")
  /\ BTerminates
  /\ UNCHANGED <<clientVars, parserVars, socketVars, totalReadMessageSize,
                 hPc, response, failure, readerVars>>

-----------------------------------------------------------------------------
HTurn == \/ HStart \/ HParse \/ HReadThrows \/ HBuild \/ HCall \/ HTake
         \/ HWait \/ HWake \/ HEof
HStep == HTurn \/ HWrite
BStep == BStart \/ BParse \/ BAborts

Ended ==
  \/ ~Running
  \/ hPc = "done" /\ bPc \in {"none", "done"}

\* Both coroutines are over: the only stop that is not a deadlock.
Terminated == Ended /\ UNCHANGED vars

Next ==
  \/ ClientSend \/ ClientClose
  \/ ReadCompletes \/ ReadFails \/ TimerExpires
  \/ HStep \/ BStep
  \/ Terminated

Spec == Init /\ [][Next]_vars

(***************************************************************************)
(* asio completes what can complete and its pool runs what is queued.  B   *)
(* needs strong fairness: H, polling an empty buffer, takes the strand     *)
(* again and again, but the strand is a FIFO queue, so B's turn comes.     *)
(* The client owes nothing: it need not send, nor close, nor read what it  *)
(* is sent, so a write completes for certain only when the connection was  *)
(* reset.  A client that closed in order may have closed one direction and *)
(* not read the other.                                                     *)
(***************************************************************************)
Fairness ==
  /\ WF_vars(ReadCompletes)
  /\ WF_vars(ReadFails)
  /\ WF_vars(TimerExpires)
  /\ WF_vars(HTurn)
  /\ WF_vars(HWrite /\ client = "reset")
  /\ SF_vars(BStep)

FairSpec == Spec /\ Fairness

-----------------------------------------------------------------------------
(***************************************************************************)
(* Properties.                                                             *)
(***************************************************************************)

\* A request the server is made for: main.cpp's handler accepts it.
WellFormed ==
  /\ req.err = 0 /\ req.tail = 0 /\ req.body > 0
  /\ req.length /\ req.builds /\ req.handler = "reads"

\* The stream was promised as many bytes as the parser will deliver.
LengthAgrees == mBodyContentLength = req.body

\* No body byte is lost or made up on its way from the socket to the
\* handler, whichever coroutine parsed it: what the handler took and what is
\* buffered is the body parsed so far (http_request_parser.cpp:255,
\* http_body_stream_reader.h:43, .cpp:21), and the count behind
\* isWriteComplete is that number, capped at the Content-Length.
StreamAccounting ==
  mBodyContentLength # NoReader =>
    /\ mDataReadSize + mBuffer = BodyCells(Position(received))
    /\ mTotalWritten = Least(BodyCells(Position(received)), mBodyContentLength)

\* When the handler sees the end of the stream, the coroutine that reads the
\* body is over, so handle may return and destroy the parser B refers to
\* (http_connection.cpp:95-102).  Nothing in the code makes H wait for B:
\* this rests on B parsing the last byte and the end of the message in one
\* step, and fails with a pipelined request or a misread Content-Length.
EofLeavesNoBodyReader ==
  mEof /\ LengthAgrees /\ req.tail = 0 => bPc \in {"none", "done"}

\* Why the process can go down at all: the client vanished before its whole
\* request was read, the handler failed while B was reading, or the handler
\* was content before B was, because of a pipelined request or a misread
\* Content-Length.  No other order of H, B, the client and the timer ends in
\* std::terminate or a use after free.
AbortBlame ==
  process = "aborted" =>
    \/ client = "reset"
    \/ client = "fin" /\ (sent < Total \/ req.tail > 0)
    \/ failure \in {"handler", "cancelled"}
    \/ mEof /\ (req.tail > 0 \/ ~LengthAgrees)

\* A well-formed request of a client that stays is answered, with one
\* exception: its write to the stream cancelled the very wait it should have
\* ended (http_body_stream_reader.h:54 against .cpp:27).
OnlyCancelLosesAnswer ==
  WellFormed /\ LengthAgrees /\ client = "open" /\ hPc = "done" =>
    response = "sent" \/ failure = "cancelled"

\* Once a parse call has ended with the message complete, no later one
\* changes the parser's mind: neither coroutine reads on
\* (http_connection.cpp:60 and :81).
CompleteIsFinal ==
  [][parseComplete(mParseState) => mParseState' = mParseState]_vars

\* H has an answer and waits for the client to read what was written: for ever,
\* if the client does not read it (http_response.cpp:21 and 105 have no timeout).
AnswerUnread == hPc \in {"writeHead", "writeBody"} /\ client # "reset"

\* The handler polls a stream whose length was misread for ever.
LengthMisread == mBodyContentLength \notin {NoReader, req.body}

\* A well-formed request that was sent whole is brought to an end, or to an
\* answer that waits for its reader: polling H does not starve B, no wakeup is
\* lost, nobody waits for a byte that was already parsed.
WholeRequestEnds ==
  WellFormed /\ sent = Total ~> Ended \/ AnswerUnread \/ LengthMisread

\* A client that goes away releases its connection, unless its answer waits for a
\* reader, or the request had an empty body or a misread Content-Length, for which
\* H polls for ever.  After a reset nothing waits for the client.
GoneClientReleases ==
  client # "open" /\ req.body > 0 ~> Ended \/ AnswerUnread \/ LengthMisread

(***************************************************************************)
(* The exchange a client may rely on, see RequestExchange.                 *)
(***************************************************************************)
ExchangePhase ==
  CASE hPc \in {"start", "reading", "building"} -> "receiving"
    [] hPc \in {"calling", "body", "waiting"} -> "handling"
    [] hPc \in {"writeHead", "writeBody"} -> "answering"
    [] hPc = "done" -> IF failure = "none" THEN "answered" ELSE "failed"

Exchange ==
  INSTANCE RequestExchange WITH
    phase <- ExchangePhase,
    promised <- IF ExchangePhase = "receiving" THEN 0 ELSE mBodyContentLength,
    got <- mDataReadSize,
    peer <- IF client = "open" THEN "here" ELSE "gone",
    server <- IF Running THEN "up" ELSE "down"

\* Whatever H, B, the timer and the client do, the connection behaves as the
\* abstract exchange says: it answers only a handler that got exactly the
\* promised body, never after a failure, and the server does not go down
\* under a handler at work for a client that is there.
RefinesExchange == Exchange!Spec

=============================================================================
