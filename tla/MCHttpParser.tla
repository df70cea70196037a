---------------------------- MODULE MCHttpParser ----------------------------
(***************************************************************************)
(* Messages for model checking HttpParser.  A message is a sequence of     *)
(* pieces: text, the data callback it belongs to, and the notifications    *)
(* made at its last byte.  Its bytes are a stream, and its callbacks what  *)
(* the parser has to report of them, however they are cut.                 *)
(***************************************************************************)
EXTENDS HttpParser

Characters(s) == [i \in 1..Len(s) |-> SubSeq(s, i, i)]

Piece(text, data, then) == [text |-> Characters(text), data |-> data, then |-> then]
Plain(text) == Piece(text, "none", <<>>)
Data(text, data) == Piece(text, data, <<>>)

Complete == <<"headers_complete", "message_complete">>

StartLine(first, method, url, version) ==
  <<Piece(first, "none", <<"message_begin">>), Plain(method \o " "), Data(url, "url"),
    Plain(" HTTP/1." \o version \o "\r\n")>>
StatusLine(code, reason) ==
  <<Piece("H", "none", <<"message_begin">>), Plain("TTP/1.1 " \o code \o " "),
    Data(reason, "status"), Plain("\r\n")>>
Header(name, value) ==
  <<Data(name, "header_field"), Plain(": "), Data(value, "header_value"), Plain("\r\n")>>
EndOfHeaders(then) == <<Plain("\r"), Piece("\n", "none", then)>>
BodyOf(text) == <<Piece(text, "body", <<"message_complete">>)>>
Chunk(size, text) == <<Plain(size \o "\r"), Piece("\n", "none", <<"chunk_header">>),
                       Data(text, "body"), Plain("\r"), Piece("\n", "none", <<"chunk_complete">>)>>
LastChunk == <<Plain("0\r"), Piece("\n", "none", <<"chunk_header">>)>>
EndOfTrailers == EndOfHeaders(<<"chunk_complete", "message_complete">>)

Bytes(message) == FlattenSeq([i \in DOMAIN message |-> message[i].text])

\* The callbacks of a message.
Callbacks(message) ==
  LET Report(acc, piece) ==
        LET to == acc.at + Len(piece.text)
            data == IF piece.data = "none" THEN <<>>
                    ELSE <<[callback |-> piece.data, from |-> acc.at + 1, to |-> to]>>
        IN [at |-> to,
            log |-> acc.log \o data \o
                    [i \in DOMAIN piece.then |->
                       [callback |-> piece.then[i], from |-> to, to |-> to]]]
  IN FoldLeft(Report, [at |-> 0, log |-> <<>>], message).log

Get(url) == StartLine("G", "ET", url, "1") \o Header("Host", "h") \o EndOfHeaders(Complete)
Put == StartLine("P", "UT", "/", "1") \o Header("Content-Length", "3")
       \o EndOfHeaders(<<"headers_complete">>) \o BodyOf("a\r\n")
Chunked(trailers) ==
  StartLine("P", "OST", "/a", "1") \o Header("Transfer-Encoding", "gzip, chunked")
  \o EndOfHeaders(<<"headers_complete">>) \o Chunk("2;x", "ab") \o Chunk("1", "c")
  \o LastChunk \o trailers \o EndOfTrailers

\* A header without a value is reported where its line is known to be over; a
\* folded value is reported line by line, from the first blank of the line.
EmptyHeader == <<Data("A", "header_field"), Plain(":\r\n"), Data("", "header_value")>>
FoldedHeader == <<Data("B", "header_field"), Plain(": "), Data("x", "header_value"),
                  Plain("\r\n"), Data(" y", "header_value"), Plain("\r\n")>>
\* Bare line feeds, and the last message of its connection.
Closing == <<Plain("\r\n"), Piece("D", "none", <<"message_begin">>), Plain("ELETE "),
             Data("*", "url"), Plain(" HTTP/1.1\n"), Data("Connection", "header_field"),
             Plain(": "), Data("x, close", "header_value"), Plain("\n"),
             Piece("\n", "none", Complete), Plain("\r\n")>>
OldStyle == <<Piece("G", "none", <<"message_begin">>), Plain("ET "), Data("/", "url"),
              Plain("\n"), Piece("\n", "none", Complete)>>

\* Requests one after another on one connection.
RequestMessages ==
  {Get("/a?b=c#d") \o Put \o Get("http://u:p@h:8/"),
   Put \o Closing,
   Chunked(Header("T", "v")) \o Get("/"),
   StartLine("M", "-SEARCH", "/a", "0") \o Header("Connection", "Keep-Alive") \o EmptyHeader
     \o FoldedHeader \o EndOfHeaders(Complete) \o OldStyle}

RequestStreams == {Bytes(m) : m \in RequestMessages}

ResponseMessages ==
  {StatusLine("200", "OK") \o Header("Content-Length", "2") \o EndOfHeaders(<<"headers_complete">>)
     \o BodyOf("ab") \o StatusLine("204", "") \o EndOfHeaders(Complete)
     \o StatusLine("200", "OK") \o EndOfHeaders(<<"headers_complete">>) \o <<Data("rest", "body")>>,
   StatusLine("304", "x y") \o Header("Upgrade", "a") \o EndOfHeaders(Complete)
     \o StatusLine("200", "x") \o Header("Transfer-Encoding", "chunked")
     \o EndOfHeaders(<<"headers_complete">>) \o Chunk("A", "0123456789") \o LastChunk \o EndOfTrailers,
   StatusLine("200", "OK") \o Header("Transfer-Encoding", "gzip")
     \o EndOfHeaders(<<"headers_complete">>) \o <<Data("rest", "body")>>,
   StartLine("H", "EAD", "/", "1") \o EndOfHeaders(Complete) \o Get("/"),
   Get("/")}

ResponseStreams == {Bytes(m) : m \in ResponseMessages}

Messages == RequestMessages \cup ResponseMessages

\* The body that lasts until the connection is closed is complete then.
AtEof(message, callbacks) ==
  IF callbacks # <<>> /\ Last(callbacks).callback = "body"
  THEN LET end == Len(Bytes(message)) + 1
       IN Append(callbacks, [callback |-> "message_complete", from |-> end, to |-> end])
  ELSE callbacks

MessageOf == [s \in RequestStreams \cup ResponseStreams |-> CHOOSE m \in Messages : Bytes(m) = s]
ExpectedOf == [s \in DOMAIN MessageOf |-> AtEof(MessageOf[s], Callbacks(MessageOf[s]))]
Expected == ExpectedOf[stream]

\* The parser reports what the message says, in order, nothing else and all of
\* it, wherever the pieces are cut and the parser is paused.
Delivered ==
  stream \in DOMAIN ExpectedOf =>
    /\ parser.errno \in {"OK", "PAUSED"}
    /\ Len(log) <= Len(Expected)
    /\ \A k \in DOMAIN log : log[k] = Expected[k] \/
         (k = Len(log) /\ log[k] = [Expected[k] EXCEPT !.to = log[k].to] /\ log[k].to < Expected[k].to)
    /\ exec.pc = "closed" => log = Expected

\* Every stream with one byte replaced.
Noisy(streams, noise) ==
  UNION {{[s EXCEPT ![i] = c] : i \in DOMAIN s, c \in noise} : s \in streams}

\* A head of 63 bytes, one more than the limit.
LongHead == StartLine("G", "ET", "/?1234567890", "1") \o Header("Transfer-Encoding", "gzip, chunked")
            \o EndOfHeaders(<<"headers_complete">>)

NoisyRequests ==
  Noisy({Bytes(Closing), Bytes(Chunked(Header("T", "v")))}, {" ", LF, ",", "2"})
  \cup {Bytes(Closing \o Get("/")), Bytes(LongHead)}

NoisyResponses == Noisy({s \in ResponseStreams : Len(s) < 70}, {LF, "E"})

\* The bytes whose callbacks may fail, skip the body or upgrade.
AnsweredStreams == {Bytes(Put \o OldStyle), Bytes(Chunked(<<>>) \o OldStyle)} \cup NoisyResponses

\* Lengths of two digits and some of three, chunk sizes of two hexadecimal
\* digits, around and beyond what MaxLength can hold.
Lengths == {Characters(ToString(n)) : n \in 0..9 \cup 48..72} \cup {Characters("007"), Characters("1 0")}
           \cup {Characters("05" \o d \o " ") : d \in DigitSet}
ChunkSizes == {<<a, b>> : a, b \in {"0", "2", "3", "4", "A", "f"}}

LengthStreams ==
  {Characters("PUT / HTTP/1.1\r\nContent-Length:") \o n \o Characters("\r\n\r\n") : n \in Lengths}
  \cup {Characters("PUT / HTTP/1.1\r\nTransfer-Encoding:chunked\r\n\r\n") \o n
           \o Characters(";x\r\n") : n \in ChunkSizes}

\* What a server sends: headers without, with one and with several values, and
\* a body that has a blank line.
INSTANCE HttpResponse WITH NonCombinable <- {Characters("Link")}

HeaderSets ==
  LET A == set(NoHeaders, Characters("A"), <<Characters("1"), Characters("2")>>)
  IN {NoHeaders, A, set(A, Characters("Link"), <<Characters("l"), Characters("m")>>),
      addHeaders(add(NoHeaders, Characters("B"), Characters("b")),
                 set(A, Characters("B"), <<Characters("c")>>))}
ResponsesSent ==
  [status : {200, 404, 204}, headers : HeaderSets, body : {<<>>, Characters("\r\n\r\nb")}]
SentStreams == UNION {{sendResponse(r, o) : o \in Orders(r.headers)} : r \in ResponsesSent}
SentOf == [s \in SentStreams |-> CHOOSE r \in ResponsesSent :
                                   \E o \in Orders(r.headers) : s = sendResponse(r, o)]

\* Whatever headers and body a response has, a client that reads it with the
\* same parser is told no header; where the status lets a body follow, it gets
\* one that lasts to the end of the connection and has, behind the first blank
\* line in it, the body that was sent: the head ends with the status line
\* (http_response.cpp:103) and what formatHeaders writes comes behind it.
HeadersReadAsBody ==
  LET sent == SentOf[stream]
      Names(callback) == \E k \in DOMAIN log : log[k].callback = callback
      Read(k) == SubSeq(stream, log[k].from, log[k].to)
      Blank(text) == {i \in DOMAIN text : i + 3 <= Len(text)
                        /\ SubSeq(text, i, i + 3) = <<CR, LF, CR, LF>>}
      AfterBlank(text) == SubSeq(text, Min(Blank(text)) + 4, Len(text))
  IN stream \in SentStreams =>
       /\ ~Names("header_field")
       /\ exec.pc = "closed" /\ sent.status # 204 =>
            /\ parser.errno = "OK"
            /\ \E k \in DOMAIN log : log[k].callback = "body" /\ Blank(Read(k)) # {}
                                     /\ AfterBlank(Read(k)) = sent.body

\* A request with a list, made of a word and what may stand around it, and a
\* request behind it.
Listing(field, version, list) ==
  Characters("GET / HTTP/1." \o version \o "\n" \o field \o ":" \o list \o "\n\n") \o Bytes(OldStyle)
Lists(word) ==
  LET parts == {"", word, "x", ",", " ", "\t", "\n "}
  IN {a \o b \o c : a, b, c \in parts} \cup {"x," \o a \o b : a, b \in parts}
     \cup {"x," \o a \o word : a \in {"\n\t", "\n\t\t", " \r\n \r\n "}}
KeepingStreams ==
  {Listing("Connection", "1", list) : list \in Lists("Close")}
  \cup {Listing("Connection", "0", list) : list \in Lists("keep-alive")}
  \cup {Listing("Proxy-Connection", "1", "close"), Listing("Proxy-Connection", "0", "x, Keep-Alive"),
         Listing("Connections", "1", "close"), Listing("Proxy", "0", "keep-alive"),
         Listing("Connection", "0", "keep-alive\nConnection:x"),
         Bytes(Chunked(Header("Connection", "close")) \o OldStyle)}

AllRequests == RequestStreams \cup NoisyRequests \cup LengthStreams \cup KeepingStreams
               \cup {Bytes(Put \o OldStyle), Bytes(Chunked(<<>>) \o OldStyle)}
AllResponses == ResponseStreams \cup NoisyResponses \cup SentStreams

\* Lists whose elements are set apart by blanks or a tab.
ListStreams ==
  {Characters("GET / HTTP/1.1\r\nConnection: " \o value \o "\r\n\r\n") \o Bytes(Get("/")) :
     value \in {"x, y", "keep-alive,\tclose", "a, close", "close"}}

OneOrAll == {1, 200}

AnyAnswer(callback, bytes) ==
  {"ok"} \cup IF bytes \in AnsweredStreams
              THEN {"error"} \cup (IF callback = "headers_complete" THEN {"skip", "upgrade"} ELSE {})
              ELSE {}
AnyAnswerOrPause(callback, bytes) ==
  IF bytes \in ResponseStreams THEN {"ok", "pause"} ELSE AnyAnswer(callback, bytes)
=============================================================================
