----------------------------- MODULE HttpParser -----------------------------
(***************************************************************************)
(* http_parser_execute (src/http/parser/http_parser/http_parser.c), the    *)
(* state machine that turns the bytes of a connection into callbacks, as   *)
(* it is built: strict, the limits of its integers as constants.  The      *)
(* bytes arrive in pieces cut anywhere; one call of http_parser_execute    *)
(* works through one piece.                                                *)
(*                                                                         *)
(*   stream  the bytes the peer sends, fixed from the start                *)
(*   parser  the struct http_parser                                        *)
(*   exec    the local variables of the call: pc, the position p in        *)
(*           stream of the byte at hand, the last position end of the      *)
(*           piece, nread, the *_mark pointers (0: not set) and the start  *)
(*           of the loops over a field or a value                          *)
(*   log     the callbacks made: their name and the bytes they were given, *)
(*           contiguous pieces of the same data joined                     *)
(*                                                                         *)
(* A callback runs inside the step that makes it, and answers.             *)
(***************************************************************************)
EXTENDS HttpUrl, HttpMethods

CONSTANTS
  Chars(_),             \* the characters of a string
  Streams,              \* the byte sequences a peer may send
  Pieces,               \* how many bytes one call may be given
  Type,                 \* "REQUEST" in the program
  Answers(_, _),        \* what a callback may answer, of which bytes
  IgnoresResult,        \* the caller drops the result, as the program does
  Lenient,              \* lenient_http_headers, FALSE in the program
  AllowChunkedLength,   \* allow_chunked_length, FALSE in the program
  MaxHeaderSize,        \* HTTP_MAX_HEADER_SIZE
  MaxLength             \* ULLONG_MAX

ASSUME ParserAssumption ==
  /\ Streams \subseteq Seq(STRING)
  /\ Pieces \subseteq Nat \ {0}
  /\ Type \in {"REQUEST", "RESPONSE", "BOTH"}
  /\ IgnoresResult \in BOOLEAN /\ Lenient \in BOOLEAN /\ AllowChunkedLength \in BOOLEAN
  /\ MaxHeaderSize \in Nat
  /\ MaxLength \in Nat /\ MaxLength >= 16

VARIABLES stream, parser, exec, log

vars == <<stream, parser, exec, log>>

-----------------------------------------------------------------------------
(* Tables. *)

MethodStrings == [m \in Methods |-> Chars(m)]

\* A state that takes one character only, the state after it and the error.
Expects(ch, next, error) == [ch |-> ch, next |-> next, error |-> error]
Literals ==
  [s_res_H   |-> Expects("T", "s_res_HT", "STRICT"),
   s_res_HT  |-> Expects("T", "s_res_HTT", "STRICT"),
   s_res_HTT |-> Expects("P", "s_res_HTTP", "STRICT"),
   s_res_HTTP |-> Expects("/", "s_res_http_major", "STRICT"),
   s_res_http_dot |-> Expects(".", "s_res_http_minor", "INVALID_VERSION"),
   s_res_http_end |-> Expects(" ", "s_res_first_status_code", "INVALID_VERSION"),
   s_res_line_almost_done |-> Expects(LF, "s_header_field_start", "STRICT"),
   s_req_http_H   |-> Expects("T", "s_req_http_HT", "STRICT"),
   s_req_http_HT  |-> Expects("T", "s_req_http_HTT", "STRICT"),
   s_req_http_HTT |-> Expects("P", "s_req_http_HTTP", "STRICT"),
   s_req_http_I   |-> Expects("C", "s_req_http_IC", "STRICT"),
   s_req_http_IC  |-> Expects("E", "s_req_http_HTTP", "STRICT"),
   s_req_http_HTTP |-> Expects("/", "s_req_http_major", "STRICT"),
   s_req_http_dot |-> Expects(".", "s_req_http_minor", "INVALID_VERSION"),
   s_req_line_almost_done |-> Expects(LF, "s_header_field_start", "LF_EXPECTED"),
   s_header_almost_done |-> Expects(LF, "s_header_value_lws", "LF_EXPECTED"),
   s_header_value_discard_ws_almost_done |->
     Expects(LF, "s_header_value_discard_lws", "STRICT")]

\* A header_state that compares a name or a value with a word, and the state
\* when the last character of the word is reached.
Keyword(word, found) == [word |-> Chars(word), found |-> found]
FieldWords ==
  [h_matching_connection |-> Keyword("connection", "h_connection"),
   h_matching_proxy_connection |-> Keyword("proxy-connection", "h_connection"),
   h_matching_content_length |-> Keyword("content-length", "h_content_length"),
   h_matching_transfer_encoding |-> Keyword("transfer-encoding", "h_transfer_encoding"),
   h_matching_upgrade |-> Keyword("upgrade", "h_upgrade")]
ValueWords ==
  [h_matching_transfer_encoding_chunked |-> Keyword("chunked", "h_transfer_encoding_chunked"),
   h_matching_connection_keep_alive |-> Keyword("keep-alive", "h_connection_keep_alive"),
   h_matching_connection_close |-> Keyword("close", "h_connection_close"),
   h_matching_connection_upgrade |-> Keyword("upgrade", "h_connection_upgrade")]

\* Chars gives the characters of a string. The 5 bits of index
\* (http_parser.h:303) are enough to count through every word; a header's word
\* is longer than what is looked at before comparing it, and the letters that
\* h_C, h_CO and h_CON look at are the first four of "content-length".
ASSUME CharsAssumption ==
  /\ \A m \in Methods : Len(Chars(m)) \in 1..30
  /\ \A h \in DOMAIN FieldWords :
       FieldWords[h].word \in Seq(STRING) /\ Len(FieldWords[h].word) \in 5..31
  /\ SubSeq(Chars("content-length"), 1, 4) = <<"c", "o", "n", "t">>
  /\ \A h \in DOMAIN ValueWords : Len(ValueWords[h].word) \in 5..31

CONNECTION_FLAGS ==
  [h_connection_keep_alive |-> "F_CONNECTION_KEEP_ALIVE",
   h_connection_close |-> "F_CONNECTION_CLOSE",
   h_connection_upgrade |-> "F_CONNECTION_UPGRADE"]

\* The flag a value sets when its line ends in this header_state.
FinalFlags ==
  [h_connection_keep_alive |-> "F_CONNECTION_KEEP_ALIVE",
   h_connection_close |-> "F_CONNECTION_CLOSE",
   h_connection_upgrade |-> "F_CONNECTION_UPGRADE",
   h_transfer_encoding_chunked |-> "F_CHUNKED"]

BodyStates == {"s_chunk_data", "s_chunk_data_almost_done", "s_chunk_data_done",
               "s_body_identity", "s_body_identity_eof", "s_message_done"}
PARSING_HEADER(state) == state \notin BodyStates

CallbackErrors ==
  [message_begin |-> "CB_message_begin", url |-> "CB_url", status |-> "CB_status",
   header_field |-> "CB_header_field", header_value |-> "CB_header_value",
   headers_complete |-> "CB_headers_complete", body |-> "CB_body",
   message_complete |-> "CB_message_complete", chunk_header |-> "CB_chunk_header",
   chunk_complete |-> "CB_chunk_complete"]

NoMarks == [header_field |-> 0, header_value |-> 0, url |-> 0, body |-> 0, status |-> 0]

-----------------------------------------------------------------------------
(* The struct. *)

http_parser_init(t) ==
  [type |-> t,
   state |-> CASE t = "REQUEST" -> "s_start_req"
               [] t = "RESPONSE" -> "s_start_res"
               [] OTHER -> "s_start_req_or_res",
   header_state |-> "h_general", index |-> 0, flags |-> {},
   uses_transfer_encoding |-> FALSE, nread |-> 0, content_length |-> 0,
   http_major |-> 0, http_minor |-> 0, status_code |-> 0, method |-> "DELETE",
   errno |-> "OK", upgrade |-> FALSE]

Has(q, flag) == flag \in q.flags

start_state(q) == IF q.type = "REQUEST" THEN "s_start_req" ELSE "s_start_res"

\* Mistake: a response whose status rules a body out may last to the end.
NeedsEofWithoutStatus(q) ==
  /\ q.type # "REQUEST"
  /\ ~Has(q, "F_CHUNKED") /\ (q.uses_transfer_encoding \/ q.content_length = MaxLength)

http_message_needs_eof(q) ==
  /\ q.type # "REQUEST"
  /\ q.status_code \div 100 # 1 /\ q.status_code \notin {204, 304} /\ ~Has(q, "F_SKIPBODY")
  /\ \/ q.uses_transfer_encoding /\ ~Has(q, "F_CHUNKED")
     \/ ~Has(q, "F_CHUNKED") /\ q.content_length = MaxLength

http_should_keep_alive(q) ==
  /\ IF q.http_major > 0 /\ q.http_minor > 0
     THEN ~Has(q, "F_CONNECTION_CLOSE")
     ELSE Has(q, "F_CONNECTION_KEEP_ALIVE")
  /\ ~http_message_needs_eof(q)

NEW_MESSAGE(q) == IF http_should_keep_alive(q) THEN start_state(q) ELSE "s_dead"

-----------------------------------------------------------------------------
(* Macros: how a step of the switch ends.  q is the struct and x the local *)
(* variables it leaves behind.                                             *)

ch == stream[exec.p]
To(state) == [parser EXCEPT !.state = state]

\* The local variables die with the call; the next call is given the bytes
\* after this piece, or those not consumed when the caller looks at the result.
Returned(x, next) ==
  [x EXCEPT !.pc = "idle", !.p = IF IgnoresResult THEN x.end + 1 ELSE next,
            !.end = 0, !.nread = 0, !.start = 0, !.marks = NoMarks]

\* RETURN: the result is the number of the bytes before next.
RETURN(q, x, next) ==
  /\ parser' = [q EXCEPT !.nread = x.nread]
  /\ exec' = Returned(x, next)

\* SET_ERRNO and goto error.
Fail(q, x, error) ==
  /\ RETURN([q EXCEPT !.errno = error], x, x.p)
  /\ UNCHANGED log

\* break: on to the next byte.  REEXECUTE: the same byte in the new state.
Advance(q, x) ==
  /\ parser' = q
  /\ exec' = [x EXCEPT !.pc = "fetch", !.p = @ + 1]
REEXECUTE(q, x) ==
  /\ parser' = q
  /\ exec' = [x EXCEPT !.pc = "switch"]

Break(q, x) == Advance(q, x) /\ UNCHANGED log
Again(q, x) == REEXECUTE(q, x) /\ UNCHANGED log

MARK(x, data) == IF x.marks[data] = 0 THEN [x EXCEPT !.marks[data] = x.p] ELSE x

\* Mistake: a limit that the headers may exceed by one.
OverflowsLate(x, n) == x.nread + n > MaxHeaderSize + 1

\* COUNT_HEADER_SIZE: whether n more bytes are too many, and their count.
Overflows(x, n) == x.nread + n > MaxHeaderSize
Counted(x, n) == [x EXCEPT !.nread = @ + n]

\* The history of callbacks: data that continues the last data is joined.
Record(callback, from, to) ==
  IF log # <<>> /\ Last(log).callback = callback /\ Last(log).to + 1 = from
  THEN [log EXCEPT ![Len(log)].to = to]
  ELSE Append(log, [callback |-> callback, from |-> from, to |-> to])

\* A callback that fails, or pauses the parser, ends the call.
\* http_parser_pause keeps the nread of the struct, not the local one.
Stop(q, x, callback, answer, next) ==
  /\ parser' = [q EXCEPT !.errno = IF answer = "pause" THEN "PAUSED"
                                   ELSE CallbackErrors[callback],
                         !.nread = IF answer = "pause" THEN @ ELSE x.nread]
  /\ exec' = Returned(x, next)

\* CALLBACK_NOTIFY_: Then goes on when the callback answers 0.
CALLBACK_NOTIFY(q, x, callback, next, Then(_, _)) ==
  \E answer \in Answers(callback, stream) :
    /\ log' = Record(callback, x.p, x.p)
    /\ IF answer = "ok" THEN Then(q, x) ELSE Stop(q, x, callback, answer, next)

\* CALLBACK_DATA_: the bytes from the mark up to to, if the mark is set.
CALLBACK_DATA(q, x, data, to, next, Then(_, _)) ==
  LET unmarked == [x EXCEPT !.marks[data] = 0]
  IN IF x.marks[data] = 0
     THEN Then(q, x) /\ UNCHANGED log
     ELSE \E answer \in Answers(data, stream) :
            /\ log' = Record(data, x.marks[data], to)
            /\ IF answer = "ok" THEN Then(q, unmarked)
               ELSE Stop(q, x, data, answer, next)

At_(states) == exec.pc = "switch" /\ parser.state \in states

-----------------------------------------------------------------------------
(* The call, its loop and its end. *)

Init ==
  /\ stream \in Streams
  /\ parser = http_parser_init(Type)
  /\ exec = [pc |-> "idle", p |-> 1, end |-> 0, nread |-> 0, start |-> 0,
             marks |-> NoMarks]
  /\ log = <<>>

\* The data that goes on in the next piece is marked at its first byte.
MarkOfState(state) ==
  CASE state \in UrlStates -> "url"
    [] state = "s_res_status" -> "status"
    [] state = "s_header_field" -> "header_field"
    [] state = "s_header_value" -> "header_value"
    [] OTHER -> "none"

\* Whether the caller goes on, and the last byte of a piece of n.
Continues == /\ exec.pc = "idle" /\ exec.p <= Len(stream)
             /\ IgnoresResult \/ (parser.errno = "OK" /\ ~parser.upgrade)
PieceEnd(n) == IF exec.p + n - 1 <= Len(stream) THEN exec.p + n - 1 ELSE Len(stream)

Marked(data) == [m \in DOMAIN NoMarks |-> IF m = data THEN exec.p ELSE 0]

\* Mistake: bytes after an error are parsed again.
ExecuteAfterError(n) ==
  /\ Continues
  /\ exec' = [exec EXCEPT !.pc = "fetch", !.end = PieceEnd(n), !.nread = parser.nread,
                          !.marks = Marked(MarkOfState(parser.state))]
  /\ UNCHANGED <<parser, log>>

\* Mistake: the marks are only set where the data begins.
ExecuteUnmarked(n) ==
  /\ Continues
  /\ exec' = IF parser.errno # "OK" THEN [exec EXCEPT !.p = PieceEnd(n) + 1]
             ELSE [exec EXCEPT !.pc = "fetch", !.end = PieceEnd(n), !.nread = parser.nread]
  /\ UNCHANGED <<parser, log>>

\* A call with the next n bytes, or those left.  In the error state it does
\* nothing.
Execute(n) ==
  /\ Continues
  /\ exec' = IF parser.errno # "OK" THEN [exec EXCEPT !.p = PieceEnd(n) + 1]
             ELSE [exec EXCEPT !.pc = "fetch", !.end = PieceEnd(n), !.nread = parser.nread,
                               !.marks = Marked(MarkOfState(parser.state))]
  /\ UNCHANGED <<parser, log>>

\* A call with no bytes: the peer has closed the connection.  It is the last.
ExecuteEof ==
  /\ exec.pc = "idle" /\ exec.p > Len(stream) /\ parser.errno # "PAUSED"
  /\ exec' = [exec EXCEPT !.pc = "closed"]
  /\ CASE parser.errno # "OK" -> UNCHANGED <<parser, log>>
       [] parser.errno = "OK" /\ parser.state = "s_body_identity_eof" ->
            \E answer \in Answers("message_complete", stream) :
              /\ log' = Record("message_complete", exec.p, exec.p)
              /\ parser' = [parser EXCEPT !.errno =
                   CASE answer = "ok" -> @ [] answer = "pause" -> "PAUSED"
                     [] OTHER -> CallbackErrors["message_complete"]]
       [] parser.errno = "OK" /\ parser.state \in
            {"s_dead", "s_start_req_or_res", "s_start_res", "s_start_req"} ->
            UNCHANGED <<parser, log>>
       [] OTHER -> parser' = [parser EXCEPT !.errno = "INVALID_EOF_STATE"] /\ UNCHANGED log

\* http_parser_pause(parser, 0), by a caller that looks at the result.
Resume ==
  /\ exec.pc = "idle" /\ ~IgnoresResult /\ parser.errno = "PAUSED"
  /\ parser' = [parser EXCEPT !.errno = "OK"]
  /\ UNCHANGED <<exec, log>>

\* The head of the loop.
Fetch ==
  /\ exec.pc = "fetch" /\ exec.p <= exec.end
  /\ IF ~PARSING_HEADER(parser.state) THEN Again(parser, exec)
     ELSE IF Overflows(exec, 1) THEN Fail(parser, Counted(exec, 1), "HEADER_OVERFLOW")
     ELSE Again(parser, Counted(exec, 1))

\* The piece is used up: what is marked is passed on, and the call returns.
EndOfPiece ==
  /\ exec.pc = "fetch" /\ exec.p > exec.end
  /\ LET marked == {m \in DOMAIN NoMarks : exec.marks[m] # 0}
         Return(q, x) == RETURN(q, x, x.end + 1)
         Stay(q, x) == parser' = q /\ exec' = x
     IN IF marked = {} THEN Return(parser, exec) /\ UNCHANGED log
        ELSE \E m \in marked :
               CALLBACK_DATA(parser, exec, m, exec.end, exec.end + 1, Stay)

-----------------------------------------------------------------------------
(* The start of a message. *)

\* After the last message of a connection only line ends are accepted.
Dead ==
  /\ At_({"s_dead"})
  /\ IF ch \in {CR, LF} THEN Break(parser, exec) ELSE Fail(parser, exec, "CLOSED_CONNECTION")

\* Mistake: the flags of the last message are kept.
NewMessageKeepsFlags(q) ==
  [q EXCEPT !.uses_transfer_encoding = FALSE, !.content_length = MaxLength]

NewMessage(q) ==
  [q EXCEPT !.flags = {}, !.uses_transfer_encoding = FALSE, !.content_length = MaxLength]

\* Mistake: a response is not told from a request, and the state stays.
StartReqOrResLoops ==
  /\ At_({"s_start_req_or_res"})
  /\ CASE ch \in {CR, LF} -> Break(parser, exec)
       [] ch = "H" -> CALLBACK_NOTIFY([NewMessage(parser) EXCEPT !.state = "s_res_or_resp_H"],
                                      exec, "message_begin", exec.p + 1, Advance)
       [] OTHER -> Again([NewMessage(parser) EXCEPT !.type = "REQUEST"], exec)

StartReqOrRes ==
  /\ At_({"s_start_req_or_res"})
  /\ CASE ch \in {CR, LF} -> Break(parser, exec)
       [] ch = "H" -> CALLBACK_NOTIFY([NewMessage(parser) EXCEPT !.state = "s_res_or_resp_H"],
                                      exec, "message_begin", exec.p + 1, Advance)
       [] OTHER -> Again([NewMessage(parser) EXCEPT !.type = "REQUEST",
                                                    !.state = "s_start_req"], exec)

ResOrRespH ==
  /\ At_({"s_res_or_resp_H"})
  /\ CASE ch = "T" -> Break([To("s_res_HT") EXCEPT !.type = "RESPONSE"], exec)
       [] ch = "E" -> Break([To("s_req_method") EXCEPT !.type = "REQUEST", !.method = "HEAD",
                                                       !.index = 2], exec)
       [] OTHER -> Fail(parser, exec, "INVALID_CONSTANT")

StartRes ==
  /\ At_({"s_start_res"})
  /\ CASE ch \in {CR, LF} -> Break(parser, exec)
       [] ch = "H" -> CALLBACK_NOTIFY([NewMessage(parser) EXCEPT !.state = "s_res_H"],
                                      exec, "message_begin", exec.p + 1, Advance)
       [] OTHER -> Fail(NewMessage(parser), exec, "INVALID_CONSTANT")

\* The method is guessed from its first letter before the callback.
StartReq ==
  /\ At_({"s_start_req"})
  /\ LET q == [NewMessage(parser) EXCEPT !.index = 1]
     IN CASE ch \in {CR, LF} -> Break(parser, exec)
          [] ch \in DOMAIN MethodOfLetter ->
               CALLBACK_NOTIFY([q EXCEPT !.method = MethodOfLetter[ch],
                                         !.state = "s_req_method"],
                               exec, "message_begin", exec.p + 1, Advance)
          [] OTHER -> Fail(NewMessage(parser), exec, "INVALID_METHOD")

\* The states that take one character only.
Literal ==
  /\ At_(DOMAIN Literals)
  /\ LET expects == Literals[parser.state]
     IN IF ch = expects.ch THEN Break(To(expects.next), exec)
        ELSE Fail(parser, exec, expects.error)

Version ==
  /\ At_({"s_res_http_major", "s_res_http_minor", "s_req_http_major", "s_req_http_minor"})
  /\ IF ~IS_NUM(ch) THEN Fail(parser, exec, "INVALID_VERSION")
     ELSE CASE parser.state = "s_res_http_major" ->
                 Break([To("s_res_http_dot") EXCEPT !.http_major = DigitValue(ch)], exec)
            [] parser.state = "s_res_http_minor" ->
                 Break([To("s_res_http_end") EXCEPT !.http_minor = DigitValue(ch)], exec)
            [] parser.state = "s_req_http_major" ->
                 Break([To("s_req_http_dot") EXCEPT !.http_major = DigitValue(ch)], exec)
            [] OTHER ->
                 Break([To("s_req_http_end") EXCEPT !.http_minor = DigitValue(ch)], exec)

-----------------------------------------------------------------------------
(* The first line. *)

FirstStatusCode ==
  /\ At_({"s_res_first_status_code"})
  /\ CASE IS_NUM(ch) -> Break([To("s_res_status_code") EXCEPT
                                 !.status_code = DigitValue(ch)], exec)
       [] ch = " " -> Break(parser, exec)
       [] OTHER -> Fail(parser, exec, "INVALID_STATUS")

StatusCode ==
  /\ At_({"s_res_status_code"})
  /\ LET code == parser.status_code * 10 + DigitValue(ch)
     IN CASE IS_NUM(ch) /\ code <= 999 -> Break([parser EXCEPT !.status_code = code], exec)
          [] ch = " " -> Break(To("s_res_status_start"), exec)
          [] ch \in {CR, LF} -> Again(To("s_res_status_start"), exec)
          [] OTHER -> Fail(parser, exec, "INVALID_STATUS")

StatusStart ==
  /\ At_({"s_res_status_start"})
  /\ LET q == [To("s_res_status") EXCEPT !.index = 0]
     IN IF ch \in {CR, LF} THEN Again(q, MARK(exec, "status"))
        ELSE Break(q, MARK(exec, "status"))

Status ==
  /\ At_({"s_res_status"})
  /\ CASE ch = CR -> CALLBACK_DATA(To("s_res_line_almost_done"), exec, "status",
                                   exec.p - 1, exec.p + 1, Advance)
       [] ch = LF -> CALLBACK_DATA(To("s_header_field_start"), exec, "status",
                                   exec.p - 1, exec.p + 1, Advance)
       [] OTHER -> Break(parser, exec)

Method ==
  /\ At_({"s_req_method"})
  /\ LET wanted == At(MethodStrings[parser.method], parser.index)
         guesses == {row \in MethodSwitch :
                       row[1] = parser.method /\ row[2] = parser.index /\ row[3] = ch}
         next == [parser EXCEPT !.index = @ + 1]
     IN CASE ch = NUL -> Fail(parser, exec, "INVALID_METHOD")
          [] ch = " " /\ wanted = NUL ->
               Break([next EXCEPT !.state = "s_req_spaces_before_url"], exec)
          [] ch # NUL /\ ch = wanted -> Break(next, exec)
          [] guesses # {} -> \E row \in guesses : Break([next EXCEPT !.method = row[4]], exec)
          [] OTHER -> Fail(parser, exec, "INVALID_METHOD")

SpacesBeforeUrl ==
  /\ At_({"s_req_spaces_before_url"})
  /\ LET start == IF parser.method = "CONNECT" THEN "s_req_server_start"
                  ELSE "s_req_spaces_before_url"
         state == parse_url_char(start, ch)
     IN CASE ch = " " -> Break(parser, exec)
          [] ch # " " /\ state = "s_dead" ->
               Fail(To("s_dead"), MARK(exec, "url"), "INVALID_URL")
          [] OTHER -> Break(To(state), MARK(exec, "url"))

UrlNoEndStates == {"s_req_schema", "s_req_schema_slash", "s_req_schema_slash_slash",
                   "s_req_server_start"}

\* A URL that ends in one of the first states is none; otherwise a space ends
\* it, or the end of the line, which makes the request one of HTTP/0.9.
Url ==
  /\ At_(UrlStates)
  /\ LET ends == ch \in {" ", CR, LF} /\ parser.state \notin UrlNoEndStates
         state == parse_url_char(parser.state, ch)
         after == CASE ch = " " -> To("s_req_http_start")
                    [] ch = CR -> [To("s_req_line_almost_done") EXCEPT
                                     !.http_major = 0, !.http_minor = 9]
                    [] OTHER -> [To("s_header_field_start") EXCEPT
                                   !.http_major = 0, !.http_minor = 9]
     IN CASE ends -> CALLBACK_DATA(after, exec, "url", exec.p - 1, exec.p + 1, Advance)
          [] ~ends /\ ch \in {" ", CR, LF} -> Fail(parser, exec, "INVALID_URL")
          [] ch \notin {" ", CR, LF} /\ state = "s_dead" -> Fail(To("s_dead"), exec, "INVALID_URL")
          [] OTHER -> Break(To(state), exec)

HttpStart ==
  /\ At_({"s_req_http_start"})
  /\ CASE ch = " " -> Break(parser, exec)
       [] ch = "H" -> Break(To("s_req_http_H"), exec)
       [] ch = "I" /\ parser.method = "SOURCE" -> Break(To("s_req_http_I"), exec)
       [] OTHER -> Fail(parser, exec, "INVALID_CONSTANT")

HttpEnd ==
  /\ At_({"s_req_http_end"})
  /\ CASE ch = CR -> Break(To("s_req_line_almost_done"), exec)
       [] ch = LF -> Break(To("s_header_field_start"), exec)
       [] OTHER -> Fail(parser, exec, "INVALID_VERSION")

-----------------------------------------------------------------------------
(* Header fields. *)

\* One more character compared with a keyword.
Compared(q, keyword, c, otherwise) ==
  LET i == q.index + 1
  IN [q EXCEPT !.index = i,
               !.header_state = CASE c # At(keyword.word, i) -> otherwise
                                  [] c = At(keyword.word, i) /\ i = Len(keyword.word) - 1 ->
                                       keyword.found
                                  [] OTHER -> @]

HeaderFieldStart ==
  /\ At_({"s_header_field_start"})
  /\ LET first == [c |-> "h_C", p |-> "h_matching_proxy_connection",
                   t |-> "h_matching_transfer_encoding", u |-> "h_matching_upgrade"]
         state == IF Lowered(ch) \in DOMAIN first THEN first[Lowered(ch)] ELSE "h_general"
     IN CASE ch = CR -> Break(To("s_headers_almost_done"), exec)
          [] ch = LF -> Again(To("s_headers_almost_done"), exec)
          [] TOKEN(ch) -> Break([To("s_header_field") EXCEPT !.index = 0,
                                                             !.header_state = state],
                                MARK(exec, "header_field"))
          [] OTHER -> Fail(parser, exec, "INVALID_HEADER_TOKEN")

\* The header_state after the character c of a field's name.  Found, a name
\* must end: in the strict build no blank can follow.
FieldCharacter(q, c) ==
  LET Next_(state) == [q EXCEPT !.index = @ + 1, !.header_state = state]
      compared == Compared(q, FieldWords[q.header_state], c, "h_general")
  IN CASE q.header_state = "h_C" -> Next_(IF c = "o" THEN "h_CO" ELSE "h_general")
       [] q.header_state = "h_CO" -> Next_(IF c = "n" THEN "h_CON" ELSE "h_general")
       [] q.header_state = "h_CON" ->
            Next_(CASE c = "n" -> "h_matching_connection"
                    [] c = "t" -> "h_matching_content_length"
                    [] OTHER -> "h_general")
       [] q.header_state \in DOMAIN FieldWords ->
            [compared EXCEPT !.uses_transfer_encoding =
               @ \/ compared.header_state = "h_transfer_encoding"]
       [] OTHER -> [q EXCEPT !.header_state = "h_general"]

LoopStart == IF exec.pc = "switch" THEN exec.p ELSE exec.start
InLoop(state) == exec.pc \in {"switch", "loop"} /\ parser.state = state

\* The next round of a loop.
Loop(q, next) ==
  /\ parser' = q
  /\ exec' = [exec EXCEPT !.pc = "loop", !.start = LoopStart, !.p = next]
  /\ UNCHANGED log

\* The end of the piece ends a loop: the byte counted last is its last byte.
\* The count has no other way out of the switch than past the piece.
LoopRunsOut ==
  LET x == [exec EXCEPT !.p = exec.end, !.start = 0]
  IN IF Overflows(x, exec.end - LoopStart) THEN Fail(parser, x, "HEADER_OVERFLOW")
     ELSE Break(parser, Counted(x, exec.end - LoopStart))

\* How far the loops over a general field or value look ahead at once.
LookAhead == IF exec.end + 1 - exec.p < MaxHeaderSize THEN exec.end + 1
             ELSE exec.p + MaxHeaderSize

HeaderField ==
  /\ InLoop("s_header_field")
  /\ LET x == Counted([exec EXCEPT !.start = 0], exec.p - LoopStart)
         stops == {i \in exec.p + 1 .. LookAhead - 1 : ~TOKEN(stream[i])}
         jump == IF stops = {} THEN LookAhead ELSE Min(stops)
     IN CASE exec.p > exec.end -> LoopRunsOut
          [] exec.p <= exec.end /\ TOKEN(ch) ->
               IF parser.header_state = "h_general"
               THEN Loop(parser, IF jump > exec.p THEN jump ELSE exec.p + 1)
               ELSE Loop(FieldCharacter(parser, Lowered(ch)), exec.p + 1)
          [] OTHER ->
               CASE Overflows(x, 0) -> Fail(parser, x, "HEADER_OVERFLOW")
                 [] ~Overflows(x, 0) /\ ch = ":" ->
                      CALLBACK_DATA(To("s_header_value_discard_ws"), x, "header_field",
                                    x.p - 1, x.p + 1, Advance)
                 [] OTHER -> Fail(parser, x, "INVALID_HEADER_TOKEN")

-----------------------------------------------------------------------------
(* Header values. *)

\* The header_state from which a value starts to be read.
ValueStartState(q) ==
  LET c == LOWER(ch)
  IN CASE q.header_state = "h_transfer_encoding" ->
            IF c = "c" THEN "h_matching_transfer_encoding_chunked"
            ELSE "h_matching_transfer_encoding_token"
       [] q.header_state = "h_content_length" -> "h_content_length_num"
       [] q.header_state = "h_connection" ->
            CASE c = "k" -> "h_matching_connection_keep_alive"
              [] c = "c" -> "h_matching_connection_close"
              [] c = "u" -> "h_matching_connection_upgrade"
              [] OTHER -> "h_matching_connection_token"
       [] q.header_state \in {"h_matching_transfer_encoding_token_start",
                              "h_content_length_ws",
                              "h_matching_connection_token_start"} -> q.header_state
       [] OTHER -> "h_general"

StartValue(q) ==
  LET length == q.header_state = "h_content_length"
      x == MARK(exec, "header_value")
      start == [q EXCEPT !.state = "s_header_value", !.index = 0]
      next == [start EXCEPT !.header_state = ValueStartState(q)]
  IN CASE q.header_state = "h_upgrade" ->
            Break([next EXCEPT !.flags = @ \cup {"F_UPGRADE"}], x)
       [] length /\ ~IS_NUM(ch) -> Fail(start, x, "INVALID_CONTENT_LENGTH")
       [] length /\ IS_NUM(ch) /\ Has(q, "F_CONTENTLENGTH") ->
            Fail(start, x, "UNEXPECTED_CONTENT_LENGTH")
       [] length /\ IS_NUM(ch) /\ ~Has(q, "F_CONTENTLENGTH") ->
            Break([next EXCEPT !.flags = @ \cup {"F_CONTENTLENGTH"},
                               !.content_length = DigitValue(ch)], x)
       [] OTHER -> Break(next, x)

HeaderValueDiscardWs ==
  /\ At_({"s_header_value_discard_ws"})
  /\ CASE ch \in {" ", TAB} -> Break(parser, exec)
       [] ch = CR -> Break(To("s_header_value_discard_ws_almost_done"), exec)
       [] ch = LF -> Break(To("s_header_value_discard_lws"), exec)
       [] OTHER -> StartValue(parser)

HeaderValueStart ==
  /\ At_({"s_header_value_start"})
  /\ StartValue(parser)

\* Mistake: the multiplication may wrap.
TooLongUnlessOneMore(q, base) == (MaxLength - 1) \div base < q.content_length

\* The test of the length before another digit, against a conservative limit.
TooLong(q, base) == (MaxLength - base) \div base < q.content_length

\* t *= base, t += digit, in an unsigned of the width of MaxLength.
Longer(q, base, digit) ==
  [q EXCEPT !.content_length = (@ * base + digit) % (MaxLength + 1)]

\* A value of Content-Length is digits, then blanks.
BadLength(q) ==
  \/ /\ q.header_state \in {"h_content_length", "h_content_length_num"}
     /\ ch # " " /\ (~IS_NUM(ch) \/ TooLong(q, 10))
  \/ q.header_state = "h_content_length_ws" /\ ch # " "

\* A list element of Connection or Transfer-Encoding begins.  A tab is not
\* skipped as a blank is: c is its lower case, which is no tab.
ElementStart(q, c, words, token) ==
  [q EXCEPT !.header_state = IF c \in DOMAIN words THEN words[c]
                             ELSE IF TOKEN(c) THEN token
                             ELSE IF c \in {" ", TAB} THEN @ ELSE "h_general"]

\* Mistake: close is recognised only as the last element of its list.
ValueCharacterLastOnly(q) ==
  LET c == LOWER(ch)
      token == IF q.header_state = "h_matching_transfer_encoding_chunked"
               THEN "h_matching_transfer_encoding_token" ELSE "h_matching_connection_token"
  IN CASE q.header_state \in DOMAIN ValueWords ->
            Compared(q, ValueWords[q.header_state], c, token)
       [] q.header_state \in DOMAIN CONNECTION_FLAGS ->
            [q EXCEPT !.header_state = IF ch = " " THEN @ ELSE "h_matching_connection_token"]
       [] OTHER -> q

\* The struct after one more character of a value.
ValueCharacter(q) ==
  LET c == LOWER(ch)
      state == q.header_state
      nextElement(s) == [q EXCEPT !.header_state = s, !.index = 0]
  IN CASE state \in {"h_content_length", "h_content_length_num"} ->
            IF ch = " " THEN [q EXCEPT !.header_state = IF state = "h_content_length" THEN @
                                                        ELSE "h_content_length_ws"]
            ELSE [Longer(q, 10, DigitValue(ch)) EXCEPT !.header_state = "h_content_length_num"]
       [] state = "h_content_length_ws" -> q
       [] state = "h_matching_transfer_encoding_token_start" ->
            ElementStart(q, c, [c |-> "h_matching_transfer_encoding_chunked"],
                         "h_matching_transfer_encoding_token")
       [] state = "h_matching_transfer_encoding_chunked" ->
            Compared(q, ValueWords[state], c, "h_matching_transfer_encoding_token")
       [] state = "h_matching_transfer_encoding_token" ->
            IF ch = "," THEN nextElement("h_matching_transfer_encoding_token_start") ELSE q
       [] state = "h_matching_connection_token_start" ->
            ElementStart(q, c, [k |-> "h_matching_connection_keep_alive",
                                c |-> "h_matching_connection_close",
                                u |-> "h_matching_connection_upgrade"],
                         "h_matching_connection_token")
       [] state \in {"h_matching_connection_keep_alive", "h_matching_connection_close",
                     "h_matching_connection_upgrade"} ->
            Compared(q, ValueWords[state], c, "h_matching_connection_token")
       [] state = "h_matching_connection_token" ->
            IF ch = "," THEN nextElement("h_matching_connection_token_start") ELSE q
       [] state = "h_transfer_encoding_chunked" ->
            IF ch = " " THEN q
            ELSE [q EXCEPT !.header_state = "h_matching_transfer_encoding_token"]
       [] state \in DOMAIN CONNECTION_FLAGS ->
            CASE ch = "," -> [nextElement("h_matching_connection_token_start") EXCEPT
                                !.flags = @ \cup {CONNECTION_FLAGS[state]}]
              [] ch = " " -> q
              [] OTHER -> [q EXCEPT !.header_state = "h_matching_connection_token"]
       [] OTHER -> [q EXCEPT !.header_state = "h_general"]

BadHeaderChar(c) == ~Lenient /\ ~IS_HEADER_CHAR(c)

\* Over a general value: on to the end of the line or a bad character.  Where
\* neither comes before the look-ahead ends inside the piece, one byte is
\* passed over unseen.
GeneralValue ==
  LET stops == {i \in exec.p .. LookAhead - 1 :
                  stream[i] \in {CR, LF} \/ BadHeaderChar(stream[i])}
      next == CASE stops # {} -> Min(stops)
                [] stops = {} /\ LookAhead = exec.end + 1 -> LookAhead
                [] OTHER -> LookAhead + 1
  IN Loop(parser, next)

\* A value that ends with a line feed alone: counted, then passed on.
LfValue(x) ==
  LET counted == Counted([x EXCEPT !.start = 0], x.p - LoopStart)
  IN IF Overflows(counted, 0) THEN Fail(To("s_header_almost_done"), counted, "HEADER_OVERFLOW")
     ELSE CALLBACK_DATA(To("s_header_almost_done"), counted, "header_value",
                        x.p - 1, x.p, REEXECUTE)

\* A value that ends with a carriage return: passed on, then counted.
CrValue(x) ==
  LET Count(q, y) ==
        LET counted == Counted([y EXCEPT !.start = 0], y.p - LoopStart)
        IN IF Overflows(counted, 0)
           THEN RETURN([q EXCEPT !.errno = "HEADER_OVERFLOW"], counted, counted.p)
           ELSE Advance(q, counted)
  IN CALLBACK_DATA(To("s_header_almost_done"), x, "header_value", x.p - 1, x.p + 1, Count)

HeaderValue ==
  /\ InLoop("s_header_value")
  /\ CASE exec.p > exec.end -> LoopRunsOut
       [] exec.p <= exec.end /\ ch = CR -> CrValue(exec)
       [] exec.p <= exec.end /\ ch = LF -> LfValue(exec)
       [] OTHER ->
            CASE BadHeaderChar(ch) -> Fail(parser, exec, "INVALID_HEADER_TOKEN")
              [] ~BadHeaderChar(ch) /\ parser.header_state = "h_general" -> GeneralValue
              [] ~BadHeaderChar(ch) /\ BadLength(parser) ->
                   Fail(parser, exec, "INVALID_CONTENT_LENGTH")
              [] OTHER -> Loop(ValueCharacter(parser), exec.p + 1)

WithFinalFlag(q) ==
  IF q.header_state \in DOMAIN FinalFlags
  THEN [q EXCEPT !.flags = @ \cup {FinalFlags[q.header_state]}] ELSE q

\* The line of a value is over; a blank continues the value in the next line.
HeaderValueLws ==
  /\ At_({"s_header_value_lws"})
  /\ IF ch \in {" ", TAB}
     THEN Again([To("s_header_value_start") EXCEPT
                   !.header_state = IF @ = "h_content_length_num" THEN "h_content_length_ws"
                                    ELSE @], exec)
     ELSE Again([WithFinalFlag(parser) EXCEPT !.state = "s_header_field_start"], exec)

\* A value of which nothing came before the end of its line.
HeaderValueDiscardLws ==
  /\ At_({"s_header_value_discard_lws"})
  /\ CASE ch \in {" ", TAB} -> Break(To("s_header_value_discard_ws"), exec)
       [] ch \notin {" ", TAB} /\ parser.header_state = "h_content_length" ->
            Fail(parser, exec, "INVALID_CONTENT_LENGTH")
       [] OTHER ->
            CALLBACK_DATA([WithFinalFlag(parser) EXCEPT !.state = "s_header_field_start"],
                          MARK(exec, "header_value"), "header_value",
                          exec.p - 1, exec.p, REEXECUTE)

-----------------------------------------------------------------------------
(* The end of the headers. *)

\* RFC 7230, 3.3.3: two ways to tell the length of one body.
LengthConflict(q) ==
  /\ q.uses_transfer_encoding /\ Has(q, "F_CONTENTLENGTH")
  /\ IF Has(q, "F_CHUNKED") THEN ~AllowChunkedLength ELSE ~Lenient

Upgrades(q) ==
  IF {"F_UPGRADE", "F_CONNECTION_UPGRADE"} \subseteq q.flags
  THEN q.type = "REQUEST" \/ q.status_code = 101
  ELSE q.method = "CONNECT"

\* on_headers_complete: 1 skips the body, 2 also upgrades.
HeadersComplete(q) ==
  \E answer \in Answers("headers_complete", stream) :
    /\ log' = Record("headers_complete", exec.p, exec.p)
    /\ CASE answer = "ok" -> REEXECUTE(q, exec)
         [] answer = "skip" -> REEXECUTE([q EXCEPT !.flags = @ \cup {"F_SKIPBODY"}], exec)
         [] answer = "upgrade" ->
              REEXECUTE([q EXCEPT !.flags = @ \cup {"F_SKIPBODY"}, !.upgrade = TRUE], exec)
         [] answer = "pause" -> RETURN([q EXCEPT !.errno = "PAUSED"], exec, exec.p)
         [] OTHER -> RETURN([q EXCEPT !.errno = "CB_headers_complete"], exec, exec.p)

HeadersAlmostDone ==
  /\ At_({"s_headers_almost_done"})
  /\ CASE ch # LF -> Fail(parser, exec, "STRICT")
       [] ch = LF /\ Has(parser, "F_TRAILING") ->
            CALLBACK_NOTIFY(To("s_message_done"), exec, "chunk_complete", exec.p, REEXECUTE)
       [] ch = LF /\ ~Has(parser, "F_TRAILING") /\ LengthConflict(parser) ->
            Fail(parser, exec, "UNEXPECTED_CONTENT_LENGTH")
       [] OTHER -> HeadersComplete([To("s_headers_done") EXCEPT !.upgrade = Upgrades(parser)])

\* Where the body is and how it ends.
HeadersDone ==
  /\ At_({"s_headers_done"})
  /\ LET q == [parser EXCEPT !.nread = 0]
         x == [exec EXCEPT !.nread = 0]
         over == [q EXCEPT !.state = NEW_MESSAGE(q)]
         chunked == Has(q, "F_CHUNKED")
         declared == q.content_length \notin {0, MaxLength}
         exits == q.upgrade /\ (\/ q.method = "CONNECT" \/ Has(q, "F_SKIPBODY")
                                \/ ~chunked /\ ~declared)
         Leave(r, y) == RETURN(r, y, y.p + 1)
     IN CASE ch # LF -> Fail(parser, exec, "STRICT")
          [] ch = LF /\ exits ->
               CALLBACK_NOTIFY(over, x, "message_complete", x.p + 1, Leave)
          [] ch = LF /\ ~exits /\ Has(q, "F_SKIPBODY") ->
               CALLBACK_NOTIFY(over, x, "message_complete", x.p + 1, Advance)
          [] OTHER ->
               CASE chunked -> Break([q EXCEPT !.state = "s_chunk_size_start"], x)
                 [] ~chunked /\ q.uses_transfer_encoding ->
                      IF q.type = "REQUEST" /\ ~Lenient
                      THEN Fail(q, x, "INVALID_TRANSFER_ENCODING")
                      ELSE Break([q EXCEPT !.state = "s_body_identity_eof"], x)
                 [] ~chunked /\ ~q.uses_transfer_encoding /\ declared ->
                      Break([q EXCEPT !.state = "s_body_identity"], x)
                 [] ~chunked /\ ~q.uses_transfer_encoding /\ q.content_length = MaxLength
                    /\ http_message_needs_eof(q) ->
                      Break([q EXCEPT !.state = "s_body_identity_eof"], x)
                 [] OTHER -> CALLBACK_NOTIFY(over, x, "message_complete", x.p + 1, Advance)

-----------------------------------------------------------------------------
(* Bodies. *)

\* Mistake: the rest of the piece belongs to the body.
ToReadAll == exec.end + 1 - exec.p

\* How much of the rest of the piece belongs to the body.
ToRead == LET rest == exec.end + 1 - exec.p
          IN IF parser.content_length < rest THEN parser.content_length ELSE rest

\* The marked bytes of the body in this piece; p is left on the last of them.
BodyTaken == [MARK(exec, "body") EXCEPT !.p = @ + ToRead - 1]

\* The last byte of the body is seen again by s_message_done.
BodyIdentity ==
  /\ At_({"s_body_identity"})
  /\ LET q == [parser EXCEPT !.content_length = @ - ToRead]
     IN IF q.content_length = 0
        THEN CALLBACK_DATA([q EXCEPT !.state = "s_message_done"], BodyTaken, "body",
                           BodyTaken.p, BodyTaken.p, REEXECUTE)
        ELSE Break(q, BodyTaken)

BodyIdentityEof ==
  /\ At_({"s_body_identity_eof"})
  /\ Break(parser, [MARK(exec, "body") EXCEPT !.p = exec.end])

MessageDone ==
  /\ At_({"s_message_done"})
  /\ LET Leave(q, x) == RETURN(q, x, x.p + 1)
         over == To(NEW_MESSAGE(parser))
     IN IF parser.upgrade
        THEN CALLBACK_NOTIFY(over, exec, "message_complete", exec.p + 1, Leave)
        ELSE CALLBACK_NOTIFY(over, exec, "message_complete", exec.p + 1, Advance)

ChunkSizeStart ==
  /\ At_({"s_chunk_size_start"})
  /\ IF IS_HEX(ch) THEN Break([To("s_chunk_size") EXCEPT !.content_length = HexValue(ch)], exec)
     ELSE Fail(parser, exec, "INVALID_CHUNK_SIZE")

ChunkSize ==
  /\ At_({"s_chunk_size"})
  /\ CASE ch = CR -> Break(To("s_chunk_size_almost_done"), exec)
       [] ch \in {";", " "} -> Break(To("s_chunk_parameters"), exec)
       [] IS_HEX(ch) -> IF TooLong(parser, 16) THEN Fail(parser, exec, "INVALID_CONTENT_LENGTH")
                        ELSE Break(Longer(parser, 16, HexValue(ch)), exec)
       [] OTHER -> Fail(parser, exec, "INVALID_CHUNK_SIZE")

ChunkParameters ==
  /\ At_({"s_chunk_parameters"})
  /\ Break(IF ch = CR THEN To("s_chunk_size_almost_done") ELSE parser, exec)

\* The chunk of size 0 is the last; trailers follow it as headers.
ChunkSizeAlmostDone ==
  /\ At_({"s_chunk_size_almost_done"})
  /\ LET q == IF parser.content_length = 0
              THEN [To("s_header_field_start") EXCEPT !.flags = @ \cup {"F_TRAILING"}]
              ELSE To("s_chunk_data")
     IN IF ch # LF THEN Fail(parser, exec, "STRICT")
        ELSE CALLBACK_NOTIFY([q EXCEPT !.nread = 0], [exec EXCEPT !.nread = 0],
                             "chunk_header", exec.p + 1, Advance)

ChunkData ==
  /\ At_({"s_chunk_data"})
  /\ LET q == [parser EXCEPT !.content_length = @ - ToRead]
     IN Break([q EXCEPT !.state = IF q.content_length = 0 THEN "s_chunk_data_almost_done"
                                  ELSE @], BodyTaken)

ChunkDataAlmostDone ==
  /\ At_({"s_chunk_data_almost_done"})
  /\ IF ch # CR THEN Fail(parser, exec, "STRICT")
     ELSE CALLBACK_DATA(To("s_chunk_data_done"), exec, "body", exec.p - 1, exec.p + 1, Advance)

\* Mistake: the count of header bytes goes on from one chunk to the next.
ChunkDataDoneCounts ==
  /\ At_({"s_chunk_data_done"})
  /\ IF ch # LF THEN Fail(parser, exec, "STRICT")
     ELSE CALLBACK_NOTIFY(To("s_chunk_size_start"), [exec EXCEPT !.nread = 1],
                          "chunk_complete", exec.p + 1, Advance)

ChunkDataDone ==
  /\ At_({"s_chunk_data_done"})
  /\ IF ch # LF THEN Fail(parser, exec, "STRICT")
     ELSE CALLBACK_NOTIFY([To("s_chunk_size_start") EXCEPT !.nread = 0],
                          [exec EXCEPT !.nread = 0], "chunk_complete", exec.p + 1, Advance)

-----------------------------------------------------------------------------

FirstLine == \/ Dead \/ StartReqOrRes \/ ResOrRespH \/ StartRes \/ StartReq \/ Literal
             \/ Version \/ FirstStatusCode \/ StatusCode \/ StatusStart \/ Status
             \/ Method \/ SpacesBeforeUrl \/ Url \/ HttpStart \/ HttpEnd
Headers == \/ HeaderFieldStart \/ HeaderField \/ HeaderValueDiscardWs \/ HeaderValueStart
           \/ HeaderValue \/ HeaderValueLws \/ HeaderValueDiscardLws
           \/ HeadersAlmostDone \/ HeadersDone
Body == \/ BodyIdentity \/ BodyIdentityEof \/ MessageDone \/ ChunkSizeStart \/ ChunkSize
        \/ ChunkParameters \/ ChunkSizeAlmostDone \/ ChunkData \/ ChunkDataAlmostDone
        \/ ChunkDataDone

\* The steps of a call that has begun.
Running == (Fetch \/ EndOfPiece \/ FirstLine \/ Headers \/ Body) /\ UNCHANGED stream

Calling == ((\E n \in Pieces : Execute(n)) \/ ExecuteEof \/ Resume) /\ UNCHANGED stream

\* No more calls: the connection is closed, or the result told the caller so.
Finished ==
  /\ \/ exec.pc = "closed"
     \/ exec.pc = "idle" /\ ~IgnoresResult /\ parser.errno \notin {"OK", "PAUSED"}
     \/ exec.pc = "idle" /\ ~IgnoresResult /\ parser.upgrade
  /\ UNCHANGED vars

Next == Running \/ Calling \/ Finished

\* A call runs on one thread until it returns.
Spec == Init /\ [][Next]_vars /\ WF_vars(Running)
-----------------------------------------------------------------------------
(* Properties. *)

States == UrlStates \cup BodyStates \cup DOMAIN Literals \cup
  {"s_dead", "s_start_req_or_res", "s_res_or_resp_H", "s_start_res", "s_start_req",
   "s_res_http_major", "s_res_http_minor", "s_req_http_major", "s_req_http_minor",
   "s_res_first_status_code", "s_res_status_code", "s_res_status_start", "s_res_status",
   "s_req_method", "s_req_spaces_before_url", "s_req_http_start", "s_req_http_end",
   "s_header_field_start", "s_header_field", "s_header_value_discard_ws",
   "s_header_value_discard_lws", "s_header_value_start", "s_header_value",
   "s_header_value_lws", "s_headers_almost_done", "s_headers_done",
   "s_chunk_size_start", "s_chunk_size", "s_chunk_parameters", "s_chunk_size_almost_done"}

Errors == Range(CallbackErrors) \cup
  {"OK", "PAUSED", "STRICT", "INVALID_EOF_STATE", "HEADER_OVERFLOW", "CLOSED_CONNECTION",
   "INVALID_VERSION", "INVALID_STATUS", "INVALID_METHOD", "INVALID_URL", "LF_EXPECTED",
   "INVALID_HEADER_TOKEN", "INVALID_CONTENT_LENGTH", "UNEXPECTED_CONTENT_LENGTH",
   "INVALID_CHUNK_SIZE", "INVALID_CONSTANT", "INVALID_TRANSFER_ENCODING"}

Flags == Range(FinalFlags) \cup {"F_TRAILING", "F_UPGRADE", "F_SKIPBODY", "F_CONTENTLENGTH"}

NameStates == DOMAIN FieldWords \cup {"h_general", "h_C", "h_CO", "h_CON", "h_connection",
                                      "h_content_length", "h_transfer_encoding", "h_upgrade"}
HeaderStates == NameStates \cup DOMAIN ValueWords \cup DOMAIN FinalFlags \cup
  {"h_content_length_num", "h_content_length_ws",
   "h_matching_transfer_encoding_token_start", "h_matching_transfer_encoding_token",
   "h_matching_connection_token_start", "h_matching_connection_token"}

\* The types of the variables, with the widths of the bit fields: the 5 bits of
\* index (http_parser.h) are enough for every word it counts through.
ParserTypeOK ==
  /\ parser.type \in {"REQUEST", "RESPONSE", "BOTH"}
  /\ parser.state \in States /\ parser.header_state \in HeaderStates
  /\ parser.index \in 0..31 /\ parser.flags \subseteq Flags
  /\ parser.nread \in Nat /\ parser.content_length \in 0..MaxLength
  /\ parser.http_major \in 0..9 /\ parser.http_minor \in 0..9
  /\ parser.status_code \in 0..999 /\ parser.method \in Methods
  /\ parser.uses_transfer_encoding \in BOOLEAN /\ parser.upgrade \in BOOLEAN
  /\ parser.errno \in Errors
  /\ exec.pc \in {"idle", "fetch", "switch", "loop", "closed"}
  /\ exec.p \in 1..Len(stream) + 1 /\ exec.end \in 0..Len(stream)
  /\ exec.marks \in [DOMAIN NoMarks -> 0..Len(stream)]

\* The assertions of http_parser_execute, at the states whose cases hold them:
\* a body has a length, a chunk belongs to a chunked message and its size is
\* the first header byte counted after the previous chunk, the header state is
\* one the loops know, at most one mark is set when the piece is used up.
NoAssertFails ==
  /\ At_({"s_body_identity", "s_chunk_data"}) => parser.content_length \notin {0, MaxLength}
  /\ At_({"s_chunk_size_start"}) => exec.nread = 1
  /\ At_({"s_chunk_size_start", "s_chunk_size", "s_chunk_parameters", "s_chunk_data",
          "s_chunk_size_almost_done", "s_chunk_data_almost_done", "s_chunk_data_done"})
       => Has(parser, "F_CHUNKED")
  /\ At_({"s_chunk_data_almost_done"}) => parser.content_length = 0
  /\ InLoop("s_header_field") => parser.header_state \in NameStates
  /\ InLoop("s_header_value") => parser.header_state \notin {"h_connection",
                                                             "h_transfer_encoding"}
  /\ exec.pc = "fetch" /\ exec.p > exec.end =>
       Cardinality({m \in DOMAIN NoMarks : exec.marks[m] # 0}) <= 1
  /\ exec.pc \in {"fetch", "switch", "loop"} => parser.errno = "OK"

\* The k-th callback's message: where it began.
BeginOf(k) == Max({j \in 1..k : log[j].callback = "message_begin"})

\* Headers longer than the limit are never called complete, however the bytes
\* are cut and wherever the count is taken (COUNT_HEADER_SIZE, 143-161).
HeadersWithinLimit ==
  \A k \in DOMAIN log : log[k].callback = "headers_complete" =>
    log[k].to + 1 - log[BeginOf(k)].from <= MaxHeaderSize

\* An error is final: the errno stays and nothing is called back any more,
\* though the program keeps feeding the parser.
ErrorIsFinal ==
  [][parser.errno \notin {"OK", "PAUSED"} => UNCHANGED <<parser, log>>]_vars

\* The callbacks come in the order their users rely on.
Promised == INSTANCE CallbackOrder
  WITH last <- IF log = <<>> THEN "none" ELSE Last(log).callback,
       trailing <- /\ log # <<>> /\ Last(log).callback # "message_complete"
                   /\ Has(parser, "F_TRAILING")
CallbacksInOrder == Promised!Spec

\* Every call returns: no byte is executed again for ever.
ExecuteReturns == exec.pc \in {"fetch", "switch", "loop"} ~> exec.pc = "idle"

Text(k) == [i \in 1..log[k].to + 1 - log[k].from |-> Lowered(stream[log[k].from + i - 1])]

\* A text without the blanks around it.
Trimmed(text, blanks) ==
  LET inner == {i \in DOMAIN text : text[i] \notin blanks}
  IN IF inner = {} THEN <<>> ELSE SubSeq(text, Min(inner), Max(inner))

\* How a Connection list is read.  An element begins with the list or behind a
\* comma, except behind one that is the list's first character: there it is the
\* first of the element.  Its head is the first character that is not passed over:
\* blanks and line ends are, and whatever a folded line begins with.
ElementStarts(text) == {1} \cup {i + 1 : i \in {j \in 2..Len(text) : text[j] = ","}}
PassedOver(text, i, blanks) == text[i] \in blanks \cup {CR, LF} \/ (i > 1 /\ text[i - 1] = LF)
Heads(text, blanks) ==
  {Min({i \in start..Len(text) + 1 : i > Len(text) \/ ~PassedOver(text, i, blanks)}) :
     start \in ElementStarts(text)} \ {Len(text) + 1}
EndOf(text, head) == Min({i \in head + 1..Len(text) + 1 : i > Len(text) \/ text[i] = ","})

\* The rest of a list is not looked at behind a later head that is no token's - a
\* second comma, a tab - nor behind a line that ends inside an element.
Stumbles(text, blanks) ==
  {head \in Heads(text, blanks) \ {1} : ~TOKEN(LOWER(text[head]))}
  \cup {i \in DOMAIN text : /\ text[i] \in {CR, LF}
                            /\ \E h \in Heads(text, blanks) : h < i /\ i < EndOf(text, h)}

\* The list has the word as an element, with nothing but blanks up to the comma
\* or the end, and is read that far.
Reads(text, word, blanks) ==
  \E head \in Heads(text, blanks) :
    LET end == EndOf(text, head)
    IN /\ head + Len(word) <= end /\ SubSeq(text, head, head + Len(word) - 1) = word
       /\ \A i \in head + Len(word)..end - 1 : text[i] = " "
       /\ \A i \in Stumbles(text, blanks) : i >= end

\* The whole value of the header whose field is callback i, folded lines and
\* the line ends between them included.
ValueOf(i) ==
  LET last == Max({j \in i + 1..Len(log) : \A k \in i + 1..j : log[k].callback = "header_value"})
  IN [n \in 1..log[last].to + 1 - log[i + 1].from |-> Lowered(stream[log[i + 1].from + n - 1])]

\* The message that ends with callback k declares this of its connection.
Declares(k, element, blanks) ==
  \E i \in BeginOf(k)..k - 1 :
    /\ log[i].callback = "header_field"
    /\ Text(i) \in {Chars("connection"), Chars("proxy-connection")}
    /\ Reads(ValueOf(i), Chars(element), blanks)

\* The version stands at the end of the request's line, if there is one.
Asks(k, blanks) ==
  LET url == log[CHOOSE i \in BeginOf(k)..k : log[i].callback = "url"].to
      eol == Min({i \in url + 1..Len(stream) : stream[i] \in {CR, LF}})
  IN IF eol > url + 1 /\ stream[eol - 3] # "0" /\ stream[eol - 1] # "0"
     THEN ~Declares(k, "close", blanks)
     ELSE Declares(k, "keep-alive", blanks)

Completed == {k \in DOMAIN log : log[k].callback = "message_complete"}

\* The next message is taken if and only if the version and the lists of this one
\* ask for the connection to be kept (http_should_keep_alive, 2189-2204), where a
\* list is a header Connection or Proxy-Connection as the states read it (1468-1476,
\* 1613-1690, 1717-1745): character by character, in any case, over folded lines.
\* An element is missed behind an empty one, behind a tab (against the comment of
\* 1626, see TabsAreSkipped), and where its line ends in front of its comma and the
\* next one is folded.
KeptAsAsked ==
  /\ \A k \in Completed : k < Len(log) => Asks(k, {" "})
  /\ parser.errno = "CLOSED_CONNECTION" => ~Asks(Max(Completed), {" "})

\* The comments of 1591 and 1626 have the whitespace between list elements
\* skipped, a tab as well as a blank.
TabsAreSkipped == \A k \in Completed : k < Len(log) => Asks(k, {" ", TAB})

DecimalOf(text) == FoldLeft(LAMBDA n, c : 10 * n + DigitValue(c), 0, Trimmed(text, {" "}))
HexOf(text) == FoldLeft(LAMBDA n, c : 16 * n + HexValue(c), 0, text)

\* The length of a body is the one its header or chunk header states, digit by
\* digit, in unbounded arithmetic: the conservative test before each digit
\* leaves no room for it to wrap, nor for the value that means no length.
LengthsDoNotWrap ==
  /\ At_({"s_headers_done"}) /\ Has(parser, "F_CONTENTLENGTH") =>
       \E i \in BeginOf(Len(log))..Len(log) - 1 :
         /\ log[i].callback = "header_field" /\ Text(i) = Chars("content-length")
         /\ parser.content_length = DecimalOf(Text(i + 1)) /\ parser.content_length < MaxLength
  /\ log # <<>> /\ Last(log).callback = "chunk_header" /\ exec.marks["body"] = 0
     /\ parser.state = "s_chunk_data" =>
       LET first == log[Len(log) - 1].to + 1
           size == {i \in first..Last(log).to : \A j \in first..i : IS_HEX(stream[j])}
       IN parser.content_length = HexOf(SubSeq(stream, first, Max(size)))
=============================================================================
