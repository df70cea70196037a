------------------------- MODULE HttpParser_proofs --------------------------
(***************************************************************************)
(* Proofs about HttpParser, for every stream, every cut of it into pieces, *)
(* every limit and every answer of the callbacks: the bodies and the call  *)
(* preserve the invariant, what follows from it, the order of the          *)
(* callbacks, and the limit on headers.                                    *)
(***************************************************************************)
EXTENDS HttpParserInvariant_proofs

-----------------------------------------------------------------------------
(* Bodies. *)

LEMMA BodySettled ==
  ASSUME NEW q, NEW c, q.state \in BodyMarkStates,
         c \in IF q.state \in {"s_body_identity", "s_body_identity_eof"}
               THEN {"headers_complete", "body"} ELSE {"chunk_header", "body"},
         q.state \in {"s_body_identity", "s_chunk_data"} =>
           q.content_length \notin {0, MaxLength},
         q.state = "s_chunk_data_almost_done" => q.content_length = 0,
         q.state \in {"s_chunk_data", "s_chunk_data_almost_done"} => "F_CHUNKED" \in q.flags,
         "F_TRAILING" \notin q.flags,
         "F_CONTENTLENGTH" \in q.flags => q.content_length # MaxLength
  PROVE  Settled(q, c)
BY DEF Settled, Measured, Words, Order, NoTrailers, StartStates, BeginStates,
       UrlStates, UrlEndStates, LineStartStates, DiscardStates, ValueEndStates,
       SizeStates, BodyMarkStates

\* Only a body is marked, and after the last byte of a chunk it is, or has
\* been passed on.
LEMMA BodySound ==
  ASSUME NEW q, NEW x, NEW c, q.state \in BodyMarkStates, Settled(q, c),
         \A m \in DataKinds \ {"body"} : x.marks[m] = 0,
         q.state = "s_chunk_data_almost_done" => x.marks["body"] # 0 \/ c = "body"
  PROVE  Sound(q, x, c)
<1>1. q.state \notin TextMarkStates /\ q.state # "s_chunk_size_start"
  BY DEF TextMarkStates, BodyMarkStates, UrlStates
<1>2. ChunkCounts(q, x)
  BY <1>1 DEF ChunkCounts
<1>3. Marking(q, x, c)
  BY <1>1 DEF Marking, DatumOf
<1> QED
  BY <1>2, <1>3 DEF Sound

LEMMA InBody ==
  ASSUME IInv, exec.pc = "switch", parser.state \in BodyMarkStates
  PROVE  /\ \A m \in DataKinds \ {"body"} : exec.marks[m] = 0
         /\ "F_TRAILING" \notin parser.flags
         /\ LastOf(log) \in IF parser.state \in {"s_body_identity", "s_body_identity_eof"}
                            THEN {"headers_complete", "body"} ELSE {"chunk_header", "body"}
         /\ parser.state \in {"s_body_identity", "s_chunk_data"} =>
              parser.content_length \notin {0, MaxLength}
         /\ parser.state \in {"s_chunk_data", "s_chunk_data_almost_done"} =>
              "F_CHUNKED" \in parser.flags
         /\ parser.state = "s_chunk_data_almost_done" => parser.content_length = 0
         /\ parser.state = "s_chunk_data_almost_done" /\ exec.marks["body"] = 0 =>
              LastOf(log) = "body"
<1>1. /\ Marking(parser, exec, LastOf(log)) /\ Measured(parser)
      /\ Order(parser, LastOf(log)) /\ NoTrailers(parser)
  BY InSwitch DEF Sound, Settled
<1>2. \A m \in DataKinds \ {"body"} : exec.marks[m] = 0
  BY <1>1 DEF Marking, DatumOf
<1>3. "F_TRAILING" \notin parser.flags
  BY <1>1 DEF NoTrailers, BodyMarkStates
<1>4. LastOf(log) \in IF parser.state \in {"s_body_identity", "s_body_identity_eof"}
                      THEN {"headers_complete", "body"} ELSE {"chunk_header", "body"}
  BY <1>1 DEF Order, BodyMarkStates
<1> QED
  BY <1>1, <1>2, <1>3, <1>4 DEF Measured, Marking

\* What belongs to the body is not empty, and inside the piece.
LEMMA BodyPlace ==
  ASSUME IInv, exec.pc = "switch", parser.state \in {"s_body_identity", "s_chunk_data"},
         NEW n, n = ToRead, NEW x, x = BodyTaken
  PROVE  /\ n \in 1..parser.content_length
         /\ IsLocals(x) /\ x.p \in 1..Len(stream) /\ x.p <= x.end /\ x.marks["body"] # 0
         /\ \A m \in DataKinds \ {"body"} : x.marks[m] = 0
<1>1. /\ stream \in Streams /\ IsStruct(parser) /\ IsLocals(exec) /\ Len(stream) \in Nat
      /\ exec.p <= exec.end /\ exec.p \in 1..Len(stream)
  BY InSwitch, StreamLength
<1>2. parser.state \in BodyMarkStates
  BY DEF BodyMarkStates
<1>3. parser.content_length \in Nat /\ parser.content_length # 0
  BY <1>1, <1>2, InBody, ParserAssumption DEF IsStruct
<1>4. exec.end \in 0..Len(stream)
  BY <1>1 DEF IsLocals
<1>5. n \in 1..parser.content_length /\ exec.p + n - 1 \in exec.p..exec.end
  <2> DEFINE p == exec.p
             last == exec.end
             rest == parser.content_length
  <2>1. p \in Nat /\ last \in Nat /\ p <= last /\ rest \in Nat \ {0}
    BY <1>1, <1>3, <1>4
  <2>2. n = IF rest < last + 1 - p THEN rest ELSE last + 1 - p
    BY <2>1 DEF ToRead
  <2> HIDE DEF p, last, rest
  <2>3. n \in 1..rest /\ p + n - 1 \in p..last
    BY <2>1, <2>2
  <2> QED
    BY <2>3 DEF p, last, rest
<1> DEFINE y == MARK(exec, "body")
<1>6. /\ IsLocals(y) /\ y.p = exec.p /\ y.end = exec.end /\ y.marks["body"] # 0
      /\ \A m \in DataKinds \ {"body"} : y.marks[m] = exec.marks[m]
  BY <1>1, MarkSets DEF DataKinds
<1> HIDE DEF y
<1>7. x = [y EXCEPT !.p = exec.p + n - 1]
  BY <1>6 DEF BodyTaken, y
<1>8. /\ DOMAIN x = DOMAIN y /\ x.p = exec.p + n - 1 /\ x.pc = y.pc /\ x.end = y.end
      /\ x.nread = y.nread /\ x.start = y.start /\ x.marks = y.marks
  BY <1>6, <1>7 DEF IsLocals
<1>9. x.p \in 1..Len(stream) /\ x.p <= x.end
  BY <1>1, <1>4, <1>5, <1>6, <1>8
<1>10. x.p \in 1..Len(stream) + 1
  BY <1>1, <1>9
<1>11. IsLocals(x)
  BY <1>6, <1>8, <1>10 DEF IsLocals
<1>12. \A m \in DataKinds \ {"body"} : x.marks[m] = 0
  BY <1>2, <1>6, <1>8, InBody
<1> QED
  BY <1>5, <1>6, <1>8, <1>9, <1>11, <1>12

\* On in a body.
LEMMA BodyBreak ==
  ASSUME stream \in Streams, log \in History, NEW q, IsStruct(q), q.errno = "OK",
         NEW x, IsLocals(x), x.p <= x.end, Break(q, x),
         q.state \in BodyMarkStates, Settled(q, LastOf(log)),
         \A m \in DataKinds \ {"body"} : x.marks[m] = 0,
         q.state = "s_chunk_data_almost_done" => x.marks["body"] # 0
  PROVE  Inv(parser', exec', log')
<1> DEFINE y == [x EXCEPT !.pc = "fetch", !.p = @ + 1]
<1>1. y.marks = x.marks
  BY DEF IsLocals
<1> HIDE DEF y
<1>2. Sound(q, y, LastOf(log))
  BY <1>1, BodySound
<1> QED
  BY <1>2, BreakStep DEF y

LEMMA BodyIdentityStep ==
  ASSUME IInv, BodyIdentity PROVE Inv(parser', exec', log')
<1>1. exec.pc = "switch" /\ parser.state = "s_body_identity"
  BY DEF BodyIdentity, At_
<1>2. /\ IsStruct(parser) /\ parser.errno = "OK" /\ stream \in Streams /\ log \in History
      /\ Len(stream) \in Nat
  BY <1>1, InSwitch, StreamLength
<1>3. parser.state \in BodyMarkStates
  BY <1>1 DEF BodyMarkStates
<1> DEFINE n == ToRead
           x == BodyTaken
           q == [parser EXCEPT !.content_length = @ - n]
           r == [q EXCEPT !.state = "s_message_done"]
           y == Unmark(x, "body")
<1>4. /\ n \in 1..parser.content_length
      /\ IsLocals(x) /\ x.p \in 1..Len(stream) /\ x.p <= x.end /\ x.marks["body"] # 0
      /\ \A m \in DataKinds \ {"body"} : x.marks[m] = 0
  BY <1>1, BodyPlace
<1>5. \/ /\ q.content_length = 0
         /\ CALLBACK_DATA(r, x, "body", x.p, x.p, REEXECUTE)
      \/ q.content_length # 0 /\ Break(q, x)
  BY DEF BodyIdentity
<1> HIDE DEF n, x
<1>6. /\ parser.content_length \in Nat /\ parser.content_length <= MaxLength /\ MaxLength \in Nat
      /\ parser.content_length \notin {0, MaxLength}
  BY <1>1, <1>2, <1>3, InBody, ParserAssumption DEF IsStruct
<1>7. parser.content_length - n \in 0..MaxLength /\ parser.content_length - n # MaxLength
  BY <1>4, <1>6
<1>8. /\ IsStruct(q) /\ q.errno = "OK" /\ q.flags = parser.flags /\ q.state = "s_body_identity"
      /\ q.content_length = parser.content_length - n
  BY <1>1, <1>2, <1>7 DEF IsStruct
<1> HIDE DEF q
<1>9. /\ IsStruct(r) /\ r.errno = "OK" /\ r.flags = parser.flags /\ r.state = "s_message_done"
      /\ r.content_length = parser.content_length - n
  BY <1>8 DEF IsStruct, States, BodyStates
<1> HIDE DEF r
<1>10. CASE /\ q.content_length = 0
            /\ CALLBACK_DATA(r, x, "body", x.p, x.p, REEXECUTE)
  <2>1. /\ log' = Record("body", x.marks["body"], x.p)
        /\ REEXECUTE(r, y) \/ Stopped(r, x, "body", x.p)
    BY <1>4, <1>10 DEF CALLBACK_DATA, Stopped, Unmark
  <2> HIDE DEF y
  <2>2. Settled(r, "body") /\ r.state \notin MarkStates /\ r.state # "s_chunk_size_start"
    BY <1>1, <1>3, <1>7, <1>9, InBody DEF Settled, Measured, Words, Order, NoTrailers, StartStates,
       BeginStates, UrlStates, UrlEndStates, LineStartStates, DiscardStates,
       ValueEndStates, SizeStates, MarkStates, BodyMarkStates, TextMarkStates
  <2>3. x.p \in Nat /\ x.p \in 1..Len(stream) + 1 /\ "body" \in DataKinds
    BY <1>2, <1>4 DEF DataKinds
  <2>4. y = Unmark(x, "body")
    BY DEF y
  <2> QED
    BY <1>2, <1>4, <1>9, <2>1, <2>2, <2>3, <2>4, DataStep
<1>11. CASE q.content_length # 0 /\ Break(q, x)
  <2>1. Settled(q, LastOf(log)) /\ q.state \in BodyMarkStates
    BY <1>1, <1>3, <1>7, <1>8, <1>11, InBody, BodySettled
  <2>2. q.state # "s_chunk_data_almost_done"
    BY <1>8
  <2> QED
    BY <1>2, <1>4, <1>8, <1>11, <2>1, <2>2, BodyBreak
<1> QED
  BY <1>5, <1>10, <1>11

LEMMA BodyIdentityEofStep ==
  ASSUME IInv, BodyIdentityEof PROVE Inv(parser', exec', log')
<1>1. exec.pc = "switch" /\ parser.state = "s_body_identity_eof"
  BY DEF BodyIdentityEof, At_
<1>2. /\ IsStruct(parser) /\ parser.errno = "OK" /\ stream \in Streams /\ log \in History
      /\ Len(stream) \in Nat /\ IsLocals(exec) /\ exec.p <= exec.end /\ exec.p \in 1..Len(stream)
      /\ Settled(parser, LastOf(log))
  BY <1>1, InSwitch, StreamLength
<1>3. parser.state \in BodyMarkStates
  BY <1>1 DEF BodyMarkStates
<1> DEFINE y == MARK(exec, "body")
           x == [y EXCEPT !.p = exec.end]
<1>4. Break(parser, x)
  BY DEF BodyIdentityEof
<1>5. /\ IsLocals(y) /\ y.p = exec.p /\ y.end = exec.end
      /\ \A m \in DataKinds \ {"body"} : y.marks[m] = exec.marks[m]
  BY <1>2, MarkSets DEF DataKinds
<1> HIDE DEF y
<1>6. exec.end \in 1..Len(stream) + 1 /\ exec.end <= exec.end
  BY <1>2 DEF IsLocals
<1>7. IsLocals(x) /\ x.p <= x.end /\ x.marks = y.marks
  BY <1>5, <1>6 DEF IsLocals
<1> HIDE DEF x
<1>8. \A m \in DataKinds \ {"body"} : x.marks[m] = 0
  BY <1>1, <1>3, <1>5, <1>7, InBody
<1> QED
  BY <1>1, <1>2, <1>3, <1>4, <1>7, <1>8, BodyBreak

LEMMA MessageDoneStep ==
  ASSUME IInv, MessageDone PROVE Inv(parser', exec', log')
<1>1. exec.pc = "switch" /\ parser.state = "s_message_done"
  BY DEF MessageDone, At_
<1>2. parser.state \notin MarkStates
  BY <1>1 DEF MarkStates, BodyMarkStates, TextMarkStates, UrlStates
<1> DEFINE s == NEW_MESSAGE(parser)
           q == To(s)
<1>3. \/ CALLBACK_NOTIFY(q, exec, "message_complete", exec.p + 1, Leave)
      \/ CALLBACK_NOTIFY(q, exec, "message_complete", exec.p + 1, Advance)
  BY DEF MessageDone, Leave
<1>4. s \in StartStates /\ s \in States
  BY NewMessageState, GroupsAreStates
<1> HIDE DEF s
<1>5. /\ IsStruct(q) /\ q.errno = "OK" /\ q.state = s /\ q.flags = parser.flags
      /\ q.content_length = parser.content_length
  BY <1>1, <1>4, ToStruct
<1> HIDE DEF q
<1> QED
  BY <1>1, <1>2, <1>3, <1>4, <1>5, InSwitch, LengthKept, MessageOver

-----------------------------------------------------------------------------
(* Chunks. *)

LEMMA ChunkSizeStartStep ==
  ASSUME IInv, ChunkSizeStart PROVE Inv(parser', exec', log')
<1>1. exec.pc = "switch" /\ parser.state = "s_chunk_size_start" /\ parser.state \in SizeStates
  BY DEF ChunkSizeStart, At_, SizeStates
<1>2. IsStruct(parser) /\ parser.errno = "OK"
  BY <1>1, InSwitch
<1> DEFINE t == To("s_chunk_size")
           q == [t EXCEPT !.content_length = HexValue(ch)]
<1>3. CASE IS_HEX(ch)
  <2>1. Break(q, exec)
    BY <1>3 DEF ChunkSizeStart
  <2>2. /\ IsStruct(t) /\ t.errno = "OK" /\ t.state = "s_chunk_size" /\ t.flags = parser.flags
    BY <1>1, GroupsAreStates, ToStruct DEF SizeStates
  <2>3. HexValue(ch) \in 0..MaxLength /\ HexValue(ch) # MaxLength
    BY <1>3, HexRange, ParserAssumption
  <2> HIDE DEF t
  <2>4. /\ IsStruct(q) /\ q.errno = "OK" /\ q.state = "s_chunk_size" /\ q.flags = parser.flags
        /\ q.content_length = HexValue(ch)
    BY <2>2, <2>3 DEF IsStruct
  <2> HIDE DEF q
  <2>5. q.state \in SizeStates /\ q.state # "s_chunk_size_start"
    BY <2>4 DEF SizeStates
  <2>6. Settled(q, LastOf(log)) /\ q.state \notin MarkStates
    BY <1>1, <2>3, <2>4, <2>5, InSize, SizeSettled
  <2> QED
    BY <1>1, <2>1, <2>4, <2>5, <2>6, InSize, PlainBreak
<1>4. CASE ~IS_HEX(ch)
  <2>1. Fail(parser, exec, "INVALID_CHUNK_SIZE")
    BY <1>4 DEF ChunkSizeStart
  <2> QED
    BY <1>1, <1>2, <2>1, PlainFail DEF Errors
<1> QED
  BY <1>3, <1>4

\* From one state inside the line of a chunk's size to another.
LEMMA SizeBreak ==
  ASSUME IInv, exec.pc = "switch",
         parser.state \in {"s_chunk_size", "s_chunk_parameters"},
         NEW q, IsStruct(q), q.errno = "OK", Break(q, exec),
         q.state \in {"s_chunk_size", "s_chunk_parameters", "s_chunk_size_almost_done"},
         q.flags = parser.flags, q.content_length # MaxLength
  PROVE  Inv(parser', exec', log')
<1>1. parser.state \in SizeStates /\ q.state \in SizeStates /\ q.state # "s_chunk_size_start"
  BY DEF SizeStates
<1>2. Settled(q, LastOf(log)) /\ q.state \notin MarkStates
  BY <1>1, InSize, SizeSettled
<1> QED
  BY <1>1, <1>2, InSize, PlainBreak

LEMMA ChunkSizeStep ==
  ASSUME IInv, ChunkSize PROVE Inv(parser', exec', log')
<1>1. exec.pc = "switch" /\ parser.state = "s_chunk_size" /\ parser.state \in SizeStates
  BY DEF ChunkSize, At_, SizeStates
<1>2. IsStruct(parser) /\ parser.errno = "OK" /\ parser.content_length # MaxLength
  BY <1>1, InSwitch, InSize
<1> DEFINE a == To("s_chunk_size_almost_done")
           b == To("s_chunk_parameters")
           q == Longer(parser, 16, HexValue(ch))
<1>3. \/ Break(a, exec) \/ Break(b, exec)
      \/ IS_HEX(ch) /\ ~TooLong(parser, 16) /\ Break(q, exec)
      \/ Fail(parser, exec, "INVALID_CONTENT_LENGTH") \/ Fail(parser, exec, "INVALID_CHUNK_SIZE")
  BY DEF ChunkSize
<1>4. /\ IsStruct(a) /\ a.errno = "OK" /\ a.state = "s_chunk_size_almost_done"
      /\ a.flags = parser.flags /\ a.content_length = parser.content_length
      /\ IsStruct(b) /\ b.errno = "OK" /\ b.state = "s_chunk_parameters"
      /\ b.flags = parser.flags /\ b.content_length = parser.content_length
  BY <1>1, GroupsAreStates, ToStruct DEF SizeStates
<1> HIDE DEF a, b
<1>5. CASE Break(a, exec)
  BY <1>1, <1>2, <1>4, <1>5, SizeBreak
<1>6. CASE Break(b, exec)
  BY <1>1, <1>2, <1>4, <1>6, SizeBreak
<1>7. CASE IS_HEX(ch) /\ ~TooLong(parser, 16) /\ Break(q, exec)
  <2>1. PICK m : m = (parser.content_length * 16 + HexValue(ch)) % (MaxLength + 1)
    OBVIOUS
  <2>2. HexValue(ch) \in 0..16 - 1 /\ parser.content_length \in 0..MaxLength
    BY <1>2, <1>7, HexRange DEF IsStruct
  <2>3. ~((MaxLength - 16) \div 16 < parser.content_length)
    BY <1>7 DEF TooLong
  <2>4. m \in 0..MaxLength - 1
    BY <2>1, <2>2, <2>3, LongerStep
  <2>5. m \in 0..MaxLength /\ m # MaxLength
    BY <2>4, ParserAssumption
  <2>6. q = [parser EXCEPT !.content_length = m]
    BY <1>2, <2>1 DEF Longer, IsStruct
  <2>7. /\ IsStruct(q) /\ q.errno = "OK" /\ q.state = "s_chunk_size" /\ q.flags = parser.flags
        /\ q.content_length = m
    BY <1>1, <1>2, <2>5, <2>6 DEF IsStruct
  <2> HIDE DEF q
  <2> QED
    BY <1>1, <1>7, <2>5, <2>7, SizeBreak
<1>8. CASE Fail(parser, exec, "INVALID_CONTENT_LENGTH") \/ Fail(parser, exec, "INVALID_CHUNK_SIZE")
  BY <1>1, <1>2, <1>8, PlainFail DEF Errors
<1> QED
  BY <1>3, <1>5, <1>6, <1>7, <1>8

LEMMA ChunkParametersStep ==
  ASSUME IInv, ChunkParameters PROVE Inv(parser', exec', log')
<1>1. exec.pc = "switch" /\ parser.state = "s_chunk_parameters" /\ parser.state \in SizeStates
  BY DEF ChunkParameters, At_, SizeStates
<1>2. IsStruct(parser) /\ parser.errno = "OK" /\ parser.content_length # MaxLength
  BY <1>1, InSwitch, InSize
<1> DEFINE a == To("s_chunk_size_almost_done")
<1>3. Break(a, exec) \/ Break(parser, exec)
  BY DEF ChunkParameters
<1>4. /\ IsStruct(a) /\ a.errno = "OK" /\ a.state = "s_chunk_size_almost_done"
      /\ a.flags = parser.flags /\ a.content_length = parser.content_length
  BY <1>1, GroupsAreStates, ToStruct DEF SizeStates
<1> HIDE DEF a
<1> QED
  BY <1>1, <1>2, <1>3, <1>4, SizeBreak

\* The header of a chunk with data, and of the last chunk.
LEMMA ChunkHeaderStep ==
  ASSUME IInv, exec.pc = "switch", NEW q, IsStruct(q), q.errno = "OK", NEW x, IsLocals(x),
         x.p = exec.p, x.end = exec.end, \A m \in DataKinds : x.marks[m] = 0,
         CALLBACK_NOTIFY(q, x, "chunk_header", x.p + 1, Advance),
         Settled(q, "chunk_header"), q.state \in {"s_header_field_start", "s_chunk_data"}
  PROVE  Inv(parser', exec', log')
<1>1. /\ stream \in Streams /\ log \in History /\ Len(stream) \in Nat
      /\ x.p \in 1..Len(stream) /\ x.p <= x.end /\ x.p + 1 \in 1..Len(stream) + 1 /\ x.p \in Nat
  BY InSwitch, StreamLength
<1>2. /\ log' = Record("chunk_header", x.p, x.p)
      /\ Advance(q, x) \/ Stopped(q, x, "chunk_header", x.p + 1)
  BY DEF CALLBACK_NOTIFY, Stopped
<1>3. "chunk_header" \in CallbackNames
  BY DEF CallbackNames, CallbackErrors
<1>4. log' \in History /\ LastOf(log') = "chunk_header"
  BY <1>1, <1>2, <1>3, RecordStep
<1> DEFINE y == [x EXCEPT !.pc = "fetch", !.p = @ + 1]
<1>5. y.marks = x.marks
  BY DEF IsLocals
<1> HIDE DEF y
<1>6. Sound(q, y, "chunk_header")
  <2>1. CASE q.state = "s_chunk_data"
    BY <1>5, <2>1, BodySound DEF BodyMarkStates
  <2>2. CASE q.state = "s_header_field_start"
    BY <1>5, <2>2, UnmarkedSound DEF MarkStates, BodyMarkStates, TextMarkStates, UrlStates
  <2> QED
    BY <2>1, <2>2
<1>7. CASE Advance(q, x)
  BY <1>1, <1>4, <1>6, <1>7, AdvanceStep DEF y
<1>8. CASE Stopped(q, x, "chunk_header", x.p + 1)
  <2>1. q.state # "s_chunk_size_start" /\ q.state # "s_chunk_data_almost_done"
    OBVIOUS
  <2> QED
    BY <1>1, <1>3, <1>4, <1>6, <1>8, <2>1, StopStep
<1> QED
  BY <1>2, <1>7, <1>8

LEMMA ChunkSizeAlmostDoneStep ==
  ASSUME IInv, ChunkSizeAlmostDone PROVE Inv(parser', exec', log')
<1>1. /\ exec.pc = "switch" /\ parser.state = "s_chunk_size_almost_done"
      /\ parser.state \in SizeStates
  BY DEF ChunkSizeAlmostDone, At_, SizeStates
<1>2. /\ IsStruct(parser) /\ parser.errno = "OK" /\ parser.content_length # MaxLength
      /\ IsLocals(exec) /\ "F_CHUNKED" \in parser.flags /\ "F_TRAILING" \notin parser.flags
      /\ \A m \in DataKinds : exec.marks[m] = 0
  BY <1>1, InSwitch, InSize, NothingMarked
<1> DEFINE s == To("s_header_field_start")
           a == [s EXCEPT !.flags = @ \cup {"F_TRAILING"}]
           b == To("s_chunk_data")
           q == [a EXCEPT !.nread = 0]
           r == [b EXCEPT !.nread = 0]
           x == [exec EXCEPT !.nread = 0]
<1>3. \/ Fail(parser, exec, "STRICT")
      \/ parser.content_length = 0 /\ CALLBACK_NOTIFY(q, x, "chunk_header", exec.p + 1, Advance)
      \/ parser.content_length # 0 /\ CALLBACK_NOTIFY(r, x, "chunk_header", exec.p + 1, Advance)
  BY DEF ChunkSizeAlmostDone
<1>4. "s_chunk_data" \in States /\ "s_header_field_start" \in States
  BY DEF States, BodyStates
<1>5. /\ IsStruct(s) /\ s.errno = "OK" /\ s.state = "s_header_field_start"
      /\ s.flags = parser.flags /\ s.content_length = parser.content_length
      /\ IsStruct(b) /\ b.errno = "OK" /\ b.state = "s_chunk_data"
      /\ b.flags = parser.flags /\ b.content_length = parser.content_length
  BY <1>1, <1>4, ToStruct
<1> HIDE DEF s, b
<1>6. /\ IsStruct(a) /\ a.errno = "OK" /\ a.state = "s_header_field_start"
      /\ a.flags = parser.flags \cup {"F_TRAILING"} /\ a.content_length = parser.content_length
  BY <1>5, FlagNames DEF IsStruct
<1> HIDE DEF a
<1>7. /\ IsStruct(q) /\ q.errno = "OK" /\ q.state = "s_header_field_start"
      /\ q.flags = parser.flags \cup {"F_TRAILING"} /\ q.content_length = parser.content_length
      /\ IsStruct(r) /\ r.errno = "OK" /\ r.state = "s_chunk_data"
      /\ r.flags = parser.flags /\ r.content_length = parser.content_length
  BY <1>5, <1>6 DEF IsStruct
<1>8. IsLocals(x) /\ x.p = exec.p /\ x.end = exec.end /\ x.marks = exec.marks
  BY <1>2 DEF IsLocals
<1> HIDE DEF q, r, x
<1>9. CASE Fail(parser, exec, "STRICT")
  BY <1>1, <1>2, <1>9, PlainFail DEF Errors
<1>10. CASE /\ parser.content_length = 0
            /\ CALLBACK_NOTIFY(q, x, "chunk_header", exec.p + 1, Advance)
  <2>1. Settled(q, "chunk_header")
    BY <1>2, <1>7, LineStartSettled DEF LineStartStates, BeforeLine
  <2> QED
    BY <1>1, <1>2, <1>7, <1>8, <1>10, <2>1, ChunkHeaderStep
<1>11. CASE /\ parser.content_length # 0
            /\ CALLBACK_NOTIFY(r, x, "chunk_header", exec.p + 1, Advance)
  <2>1. Settled(r, "chunk_header")
    BY <1>2, <1>7, <1>11, BodySettled DEF BodyMarkStates
  <2> QED
    BY <1>1, <1>2, <1>7, <1>8, <1>11, <2>1, ChunkHeaderStep
<1> QED
  BY <1>3, <1>9, <1>10, <1>11

LEMMA ChunkDataStep ==
  ASSUME IInv, ChunkData PROVE Inv(parser', exec', log')
<1>1. exec.pc = "switch" /\ parser.state = "s_chunk_data"
  BY DEF ChunkData, At_
<1>2. /\ IsStruct(parser) /\ parser.errno = "OK" /\ stream \in Streams /\ log \in History
  BY <1>1, InSwitch
<1>3. parser.state \in BodyMarkStates
  BY <1>1 DEF BodyMarkStates
<1> DEFINE n == ToRead
           x == BodyTaken
           q == [parser EXCEPT !.content_length = @ - n]
           s == IF q.content_length = 0 THEN "s_chunk_data_almost_done" ELSE q.state
           r == [q EXCEPT !.state = s]
<1>4. /\ n \in 1..parser.content_length
      /\ IsLocals(x) /\ x.p <= x.end /\ x.marks["body"] # 0
      /\ \A m \in DataKinds \ {"body"} : x.marks[m] = 0
  BY <1>1, BodyPlace
<1>5. Break(r, x)
  BY DEF ChunkData
<1> HIDE DEF n, x
<1>6. /\ parser.content_length \in Nat /\ parser.content_length <= MaxLength /\ MaxLength \in Nat
      /\ parser.content_length \notin {0, MaxLength}
  BY <1>1, <1>2, <1>3, InBody, ParserAssumption DEF IsStruct
<1>7. parser.content_length - n \in 0..MaxLength /\ parser.content_length - n # MaxLength
  BY <1>4, <1>6
<1>8. /\ IsStruct(q) /\ q.errno = "OK" /\ q.flags = parser.flags /\ q.state = "s_chunk_data"
      /\ q.content_length = parser.content_length - n
  BY <1>1, <1>2, <1>7 DEF IsStruct
<1>9. /\ s \in {"s_chunk_data", "s_chunk_data_almost_done"}
      /\ s = "s_chunk_data_almost_done" <=> q.content_length = 0
  BY <1>8
<1> HIDE DEF q, s
<1>10. s \in States
  BY <1>9 DEF States, BodyStates
<1>11. /\ IsStruct(r) /\ r.errno = "OK" /\ r.flags = parser.flags /\ r.state = s
       /\ r.content_length = q.content_length
  BY <1>8, <1>10 DEF IsStruct
<1> HIDE DEF r
<1>12. r.state \in BodyMarkStates
  BY <1>9, <1>11 DEF BodyMarkStates
<1>13. /\ "F_TRAILING" \notin parser.flags /\ "F_CHUNKED" \in parser.flags
       /\ LastOf(log) \in {"chunk_header", "body"}
  BY <1>1, <1>3, InBody
<1>14. Settled(r, LastOf(log))
  BY <1>7, <1>8, <1>9, <1>11, <1>12, <1>13, BodySettled
<1> QED
  BY <1>2, <1>4, <1>5, <1>11, <1>12, <1>14, BodyBreak

LEMMA ChunkDataAlmostDoneStep ==
  ASSUME IInv, ChunkDataAlmostDone PROVE Inv(parser', exec', log')
<1>1. exec.pc = "switch" /\ parser.state = "s_chunk_data_almost_done"
  BY DEF ChunkDataAlmostDone, At_
<1>2. /\ IsStruct(parser) /\ parser.errno = "OK" /\ stream \in Streams /\ log \in History
      /\ Len(stream) \in Nat /\ IsLocals(exec) /\ exec.p <= exec.end /\ exec.p \in 1..Len(stream)
  BY <1>1, InSwitch, StreamLength
<1>3. parser.state \in BodyMarkStates
  BY <1>1 DEF BodyMarkStates
<1> DEFINE q == To("s_chunk_data_done")
           y == Unmark(exec, "body")
<1>4. \/ Fail(parser, exec, "STRICT")
      \/ exec.marks["body"] = 0 /\ Break(q, exec)
      \/ /\ exec.marks["body"] # 0 /\ log' = Record("body", exec.marks["body"], exec.p - 1)
         /\ Advance(q, y) \/ Stopped(q, exec, "body", exec.p + 1)
  BY DEF ChunkDataAlmostDone, CALLBACK_DATA, Stopped, Unmark, Break
<1>5. "s_chunk_data_done" \in States
  BY DEF States, BodyStates
<1>6. /\ IsStruct(q) /\ q.errno = "OK" /\ q.state = "s_chunk_data_done"
      /\ q.flags = parser.flags /\ q.content_length = parser.content_length
  BY <1>1, <1>5, ToStruct
<1> HIDE DEF q, y
<1>7. Settled(q, "body") /\ q.state \notin MarkStates /\ q.state # "s_chunk_size_start"
  BY <1>1, <1>3, <1>6, InBody, LengthKept DEF Settled, Measured, Words, Order, NoTrailers,
     StartStates, BeginStates, UrlStates, UrlEndStates, LineStartStates, DiscardStates,
     ValueEndStates, SizeStates, MarkStates, BodyMarkStates, TextMarkStates
<1>8. \A m \in DataKinds \ {"body"} : exec.marks[m] = 0
  BY <1>1, <1>3, InBody
<1>9. CASE Fail(parser, exec, "STRICT")
  BY <1>1, <1>2, <1>9, PlainFail DEF Errors
<1>10. CASE exec.marks["body"] = 0 /\ Break(q, exec)
  <2>1. LastOf(log) = "body" /\ \A m \in DataKinds : exec.marks[m] = 0
    BY <1>1, <1>3, <1>8, <1>10, InBody
  <2> QED
    BY <1>2, <1>6, <1>7, <1>10, <2>1, PlainAdvance DEF Break
<1>11. CASE /\ exec.marks["body"] # 0 /\ log' = Record("body", exec.marks["body"], exec.p - 1)
            /\ Advance(q, y) \/ Stopped(q, exec, "body", exec.p + 1)
  <2>1. exec.p - 1 \in Nat /\ exec.p + 1 \in 1..Len(stream) + 1 /\ "body" \in DataKinds
    BY <1>2 DEF DataKinds
  <2>2. y = Unmark(exec, "body")
    BY DEF y
  <2> QED
    BY <1>2, <1>6, <1>7, <1>8, <1>11, <2>1, <2>2, DataStep
<1> QED
  BY <1>4, <1>9, <1>10, <1>11

LEMMA ChunkDataDoneStep ==
  ASSUME IInv, ChunkDataDone PROVE Inv(parser', exec', log')
<1>1. exec.pc = "switch" /\ parser.state = "s_chunk_data_done"
  BY DEF ChunkDataDone, At_
<1>2. /\ IsStruct(parser) /\ parser.errno = "OK" /\ IsLocals(exec) /\ Len(stream) \in Nat
      /\ exec.p \in 1..Len(stream)
  BY <1>1, InSwitch, StreamLength
<1>3. /\ parser.state \notin MarkStates /\ "F_TRAILING" \notin parser.flags
      /\ "F_CHUNKED" \in parser.flags
  BY <1>1, InSwitch DEF MarkStates, BodyMarkStates, TextMarkStates, UrlStates, Settled,
                        NoTrailers, Measured
<1>4. \A m \in DataKinds : exec.marks[m] = 0
  BY <1>1, <1>3, NothingMarked
<1> DEFINE t == To("s_chunk_size_start")
           q == [t EXCEPT !.nread = 0]
           x == [exec EXCEPT !.nread = 0]
<1>5. \/ Fail(parser, exec, "STRICT")
      \/ /\ log' = Record("chunk_complete", x.p, x.p)
         /\ Advance(q, x) \/ Stopped(q, x, "chunk_complete", exec.p + 1)
  BY DEF ChunkDataDone, CALLBACK_NOTIFY, Stopped
<1>6. /\ IsStruct(t) /\ t.errno = "OK" /\ t.state = "s_chunk_size_start"
      /\ t.flags = parser.flags /\ t.content_length = parser.content_length
  BY <1>1, GroupsAreStates, ToStruct DEF SizeStates
<1> HIDE DEF t
<1>7. /\ IsStruct(q) /\ q.errno = "OK" /\ q.state = "s_chunk_size_start" /\ q.nread = 0
      /\ q.flags = parser.flags /\ q.content_length = parser.content_length
  BY <1>6 DEF IsStruct
<1>8. /\ IsLocals(x) /\ x.p = exec.p /\ x.end = exec.end /\ x.nread = 0
      /\ x.marks = exec.marks
  BY <1>2 DEF IsLocals
<1> HIDE DEF q, x
<1>9. CASE Fail(parser, exec, "STRICT")
  BY <1>1, <1>2, <1>9, PlainFail DEF Errors
<1>10. CASE /\ log' = Record("chunk_complete", x.p, x.p)
            /\ Advance(q, x) \/ Stopped(q, x, "chunk_complete", exec.p + 1)
  <2>1. Settled(q, "chunk_complete") /\ q.state \notin MarkStates
    BY <1>1, <1>3, <1>7, LengthKept, SizeSettled DEF SizeStates
  <2>2. "chunk_complete" \in CallbackNames /\ exec.p + 1 \in 1..Len(stream) + 1
    BY <1>2 DEF CallbackNames, CallbackErrors
  <2>3. /\ \A m \in DataKinds : x.marks[m] = 0
        /\ q.state = "s_chunk_size_start" => x.nread = 0 /\ q.nread = 0
    BY <1>4, <1>7, <1>8
  <2> QED
    BY <1>1, <1>7, <1>8, <1>10, <2>1, <2>2, <2>3, PlainNotify
<1> QED
  BY <1>5, <1>9, <1>10

-----------------------------------------------------------------------------
(* The call. *)

LEMMA InCall ==
  ASSUME IInv
  PROVE  /\ stream \in Streams /\ log \in History /\ IsStruct(parser) /\ IsLocals(exec)
         /\ Len(stream) \in Nat /\ Place(parser, exec)
         /\ exec.pc \in CallPcs => parser.errno = "OK"
         /\ exec.pc # "closed" /\ parser.errno \in {"OK", "PAUSED"} =>
              Sound(parser, exec, LastOf(log))
BY StreamLength DEF IInv, Inv

LEMMA FetchStep ==
  ASSUME IInv, Fetch PROVE Inv(parser', exec', log')
<1>1. /\ stream \in Streams /\ log \in History /\ IsStruct(parser) /\ IsLocals(exec)
      /\ exec.pc = "fetch" /\ exec.p <= exec.end /\ parser.errno = "OK"
      /\ Sound(parser, exec, LastOf(log))
  BY InCall DEF Fetch, CallPcs
<1> DEFINE x == Counted(exec, 1)
<1>2. /\ IsLocals(x) /\ x.p = exec.p /\ x.end = exec.end /\ x.marks = exec.marks
      /\ x.nread = exec.nread + 1
  BY <1>1, CountedLocals
<1>3. \/ parser.state \in BodyStates /\ Again(parser, exec)
      \/ Fail(parser, x, "HEADER_OVERFLOW")
      \/ Again(parser, x)
  BY DEF Fetch, PARSING_HEADER
<1> HIDE DEF x
<1>4. ASSUME NEW y, y.pc = "switch", y.marks = exec.marks,
             parser.state = "s_chunk_size_start" => y.nread = exec.nread + 1
      PROVE  Sound(parser, y, LastOf(log))
  <2>1. ChunkCounts(parser, y)
    BY <1>1, <1>4 DEF Sound, ChunkCounts
  <2>2. Marking(parser, y, LastOf(log))
    BY <1>1, <1>4 DEF Sound, Marking
  <2> QED
    BY <1>1, <2>1, <2>2 DEF Sound
<1>5. CASE parser.state \in BodyStates /\ Again(parser, exec)
  <2> DEFINE y == [exec EXCEPT !.pc = "switch"]
  <2>1. y.pc = "switch" /\ y.marks = exec.marks
    BY <1>1 DEF IsLocals
  <2>2. parser.state # "s_chunk_size_start"
    BY <1>5 DEF BodyStates
  <2> HIDE DEF y
  <2>3. Sound(parser, y, LastOf(log))
    BY <1>4, <2>1, <2>2
  <2> QED
    BY <1>1, <1>5, <2>3, AgainStep DEF y
<1>6. CASE Fail(parser, x, "HEADER_OVERFLOW")
  BY <1>1, <1>2, <1>6, FailStep DEF Errors
<1>7. CASE Again(parser, x)
  <2> DEFINE y == [x EXCEPT !.pc = "switch"]
  <2>1. y.pc = "switch" /\ y.marks = x.marks /\ y.nread = x.nread
    BY <1>2 DEF IsLocals
  <2> HIDE DEF y
  <2>2. Sound(parser, y, LastOf(log))
    BY <1>2, <1>4, <2>1
  <2> QED
    BY <1>1, <1>2, <1>7, <2>2, AgainStep DEF y
<1> QED
  BY <1>3, <1>5, <1>6, <1>7

\* The data of a state may be the last that was passed on.
LEMMA DatumPassedOn ==
  ASSUME NEW q, DatumOf(q.state) \in DataKinds, NEW c, Settled(q, c)
  PROVE  Settled(q, DatumOf(q.state)) /\ q.state \in MarkStates
<1>1. q.state \in MarkStates
  BY DEF DatumOf, MarkOfState, DataKinds, MarkStates, BodyMarkStates, TextMarkStates
<1>2. CASE q.state \in BodyMarkStates
  <2>1. DatumOf(q.state) = "body"
    BY <1>2 DEF DatumOf
  <2>2. Order(q, "body")
    BY <1>2 DEF Order, StartStates, BeginStates, UrlStates, UrlEndStates, LineStartStates,
       DiscardStates, ValueEndStates, SizeStates, BodyMarkStates
  <2> QED
    BY <1>1, <2>1, <2>2 DEF Settled
<1>3. CASE q.state \in TextMarkStates
  <2>1. q.state \notin BodyMarkStates
    BY <1>3 DEF TextMarkStates, BodyMarkStates, UrlStates
  <2>2. DatumOf(q.state) = MarkOfState(q.state)
    BY <2>1 DEF DatumOf
  <2>3. Order(q, MarkOfState(q.state))
    <3>1. CASE q.state \in UrlStates
      BY <3>1, MarkNames DEF Order, StartStates, BeginStates, UrlStates, UrlEndStates,
         LineStartStates, DiscardStates, ValueEndStates, SizeStates
    <3>2. CASE q.state \in {"s_res_status", "s_header_field", "s_header_value"}
      BY <3>2, MarkNames DEF Order, StartStates, BeginStates, UrlStates, UrlEndStates,
         LineStartStates, DiscardStates, ValueEndStates, SizeStates
    <3> QED
      BY <1>3, <3>1, <3>2 DEF TextMarkStates
  <2> QED
    BY <1>1, <2>2, <2>3 DEF Settled
<1> QED
  BY <1>1, <1>2, <1>3 DEF MarkStates

LEMMA EndOfPieceStep ==
  ASSUME IInv, EndOfPiece PROVE Inv(parser', exec', log')
<1>1. /\ stream \in Streams /\ log \in History /\ IsStruct(parser) /\ IsLocals(exec)
      /\ exec.pc = "fetch" /\ exec.p > exec.end /\ exec.p <= exec.end + 1
      /\ parser.errno = "OK" /\ Len(stream) \in Nat
      /\ Sound(parser, exec, LastOf(log))
  BY InCall DEF EndOfPiece, CallPcs, Place
<1>2. /\ Settled(parser, LastOf(log)) /\ ChunkCounts(parser, exec)
      /\ Marking(parser, exec, LastOf(log))
  BY <1>1 DEF Sound
<1>3. exec.end \in Nat /\ exec.end + 1 \in 1..Len(stream) + 1
  BY <1>1 DEF IsLocals
<1>4. \/ /\ \A m \in DataKinds : exec.marks[m] = 0
         /\ RETURN(parser, exec, exec.end + 1) /\ log' = log
      \/ \E m \in DataKinds :
           /\ exec.marks[m] # 0 /\ log' = Record(m, exec.marks[m], exec.end)
           /\ \/ parser' = parser /\ exec' = Unmark(exec, m)
              \/ Stopped(parser, exec, m, exec.end + 1)
  BY DataNames DEF EndOfPiece, CALLBACK_DATA, Stopped, Unmark
<1>5. CASE /\ \A m \in DataKinds : exec.marks[m] = 0
           /\ RETURN(parser, exec, exec.end + 1) /\ log' = log
  <2>1. parser.state = "s_chunk_size_start" => exec.nread = 0
    BY <1>1, <1>2 DEF ChunkCounts
  <2>2. parser.state = "s_chunk_data_almost_done" => LastOf(log) = "body"
    BY <1>2, <1>5 DEF Marking, DataKinds
  <2>3. /\ log' \in History /\ RETURN(parser, exec, exec.end + 1)
        /\ Sound(parser, exec, LastOf(log'))
        /\ parser.state = "s_chunk_data_almost_done" => LastOf(log') = "body"
    BY <1>1, <1>5, <2>2
  <2> QED
    BY <1>1, <1>3, <2>1, <2>3, ReturnStep
<1>6. ASSUME NEW m \in DataKinds, exec.marks[m] # 0, log' = Record(m, exec.marks[m], exec.end),
             \/ parser' = parser /\ exec' = Unmark(exec, m)
             \/ Stopped(parser, exec, m, exec.end + 1)
      PROVE  Inv(parser', exec', log')
  <2>1. m \in CallbackNames
    BY DEF DataKinds, CallbackNames, CallbackErrors
  <2>2. exec.marks[m] \in Nat
    BY <1>1 DEF IsLocals
  <2>3. log' \in History /\ LastOf(log') = m
    BY <1>1, <1>3, <1>6, <2>1, <2>2, RecordStep
  <2>4. m = DatumOf(parser.state)
    BY <1>2, <1>6 DEF Marking
  <2>5. Settled(parser, m) /\ parser.state \in MarkStates
    BY <1>2, <2>4, DatumPassedOn
  <2>6. parser.state # "s_chunk_size_start"
    BY <2>5 DEF MarkStates, BodyMarkStates, TextMarkStates, UrlStates
  <2>7. parser.state = "s_chunk_data_almost_done" => m = "body"
    BY <2>4 DEF DatumOf, BodyMarkStates
  <2> DEFINE y == Unmark(exec, m)
  <2>8. /\ IsLocals(y) /\ y.pc = "fetch" /\ y.p = exec.p /\ y.end = exec.end
        /\ \A k \in DataKinds : y.marks[k] = 0
    <3>1. /\ IsLocals(y) /\ y.pc = exec.pc /\ y.p = exec.p /\ y.end = exec.end
          /\ y.marks[m] = 0 /\ \A k \in DataKinds \ {m} : y.marks[k] = exec.marks[k]
      BY <1>1, Unmarked
    <3> HIDE DEF y
    <3>2. \A k \in DataKinds \ {m} : exec.marks[k] = 0
      BY <1>2, <2>4 DEF Marking
    <3> QED
      BY <1>1, <3>1, <3>2
  <2> HIDE DEF y
  <2>9. Sound(parser, y, m)
    <3>1. ChunkCounts(parser, y)
      BY <2>6 DEF ChunkCounts
    <3>2. ~(y.p <= y.end)
      BY <1>1, <1>3, <2>8 DEF IsLocals
    <3>3. Marking(parser, y, m)
      BY <2>7, <2>8, <3>2 DEF Marking
    <3> QED
      BY <2>5, <3>1, <3>3 DEF Sound
  <2>10. CASE parser' = parser /\ exec' = Unmark(exec, m)
    <3>1. exec' = y
      BY <2>10 DEF y
    <3>2. Place(parser, y)
      BY <1>1, <2>8 DEF Place, CallPcs
    <3> QED
      BY <1>1, <2>3, <2>8, <2>9, <2>10, <3>1, <3>2 DEF Inv
  <2>11. CASE Stopped(parser, exec, m, exec.end + 1)
    BY <1>1, <1>3, <2>1, <2>3, <2>6, <2>7, <2>9, <2>11, StopStep
  <2> QED
    BY <1>6, <2>10, <2>11
<1> QED
  BY <1>4, <1>5, <1>6

\* What the invariant asks of a struct is the same between two calls.
LEMMA BetweenCalls ==
  ASSUME NEW q, NEW x, NEW c, Sound(q, x, c), x.pc = "idle",
         \A m \in DataKinds : x.marks[m] = 0
  PROVE  /\ Settled(q, c)
         /\ q.state = "s_chunk_size_start" => q.nread = 0
         /\ q.state = "s_chunk_data_almost_done" => c = "body"
BY DEF Sound, ChunkCounts, Marking, DataKinds

LEMMA ExecuteStep ==
  ASSUME IInv, NEW n \in Pieces, Execute(n) PROVE Inv(parser', exec', log')
<1>1. /\ stream \in Streams /\ log \in History /\ IsStruct(parser) /\ IsLocals(exec)
      /\ exec.pc = "idle" /\ exec.p <= Len(stream) /\ Len(stream) \in Nat
      /\ parser.errno \in {"OK", "PAUSED"} => Sound(parser, exec, LastOf(log))
      /\ \A m \in DataKinds : exec.marks[m] = 0
  BY InCall DEF Execute, Continues, Place, CallPcs
<1>2. n \in Nat /\ n # 0
  BY ParserAssumption
<1> DEFINE end == PieceEnd(n)
<1>3. exec.p \in 1..Len(stream) /\ end \in exec.p..Len(stream)
  BY <1>1, <1>2 DEF PieceEnd, IsLocals
<1>4. parser' = parser /\ log' = log
  BY DEF Execute
<1>5. CASE parser.errno # "OK"
  <2>1. exec' = [exec EXCEPT !.p = end + 1]
    BY <1>5 DEF Execute
  <2> HIDE DEF end
  <2>2. end + 1 \in 1..Len(stream) + 1
    BY <1>1, <1>3
  <2>3. IsLocals(exec') /\ exec'.pc = "idle" /\ exec'.marks = exec.marks
    BY <1>1, <2>1, <2>2 DEF IsLocals
  <2>4. Place(parser, exec')
    BY <1>1, <2>3 DEF Place, CallPcs
  <2>5. parser.errno \in {"OK", "PAUSED"} => Sound(parser, exec', LastOf(log))
    BY <1>1, <2>3 DEF Sound, ChunkCounts, Marking
  <2> QED
    BY <1>1, <1>4, <2>3, <2>4, <2>5 DEF Inv, CallPcs
<1>6. CASE parser.errno = "OK"
  <2> DEFINE marks == Marked(MarkOfState(parser.state))
             x == [exec EXCEPT !.pc = "fetch", !.end = end, !.nread = parser.nread,
                               !.marks = marks]
  <2>1. exec' = x
    BY <1>6 DEF Execute
  <2>2. /\ marks \in [DataKinds -> 0..Len(stream)]
        /\ \A m \in DataKinds : m = MarkOfState(parser.state) => marks[m] # 0
        /\ \A m \in DataKinds : m # MarkOfState(parser.state) => marks[m] = 0
    <3>1. marks = [m \in DataKinds |-> IF m = MarkOfState(parser.state) THEN exec.p ELSE 0]
      BY DataNames DEF Marked
    <3> HIDE DEF marks
    <3> QED
      BY <1>1, <1>3, <3>1
  <2> HIDE DEF marks, end
  <2>3. /\ IsLocals(x) /\ x.pc = "fetch" /\ x.p = exec.p /\ x.end = end
        /\ x.nread = parser.nread /\ x.marks = marks
    BY <1>1, <1>3, <2>2 DEF IsLocals, IsStruct
  <2> HIDE DEF x
  <2>4. Place(parser, x)
    BY <1>1, <1>3, <2>3 DEF Place, CallPcs
  <2>5. /\ Settled(parser, LastOf(log))
        /\ parser.state = "s_chunk_size_start" => parser.nread = 0
        /\ parser.state = "s_chunk_data_almost_done" => LastOf(log) = "body"
    BY <1>1, <1>6, BetweenCalls
  <2>6. ChunkCounts(parser, x)
    BY <2>3, <2>5 DEF ChunkCounts
  <2>7. \A m \in DataKinds : x.marks[m] # 0 => m = DatumOf(parser.state)
    <3>1. parser.state \in BodyMarkStates => MarkOfState(parser.state) = "none"
      BY DEF BodyMarkStates, MarkOfState, UrlStates
    <3>2. "none" \notin DataKinds
      BY DEF DataKinds
    <3> QED
      BY <2>2, <2>3, <3>1, <3>2 DEF DatumOf
  <2>8. parser.state \in TextMarkStates => x.marks[MarkOfState(parser.state)] # 0
    <3>1. parser.state \in TextMarkStates => MarkOfState(parser.state) \in DataKinds
      BY MarkNames DEF TextMarkStates, DataKinds
    <3> QED
      BY <2>2, <2>3, <3>1
  <2>9. Sound(parser, x, LastOf(log))
    BY <2>5, <2>6, <2>7, <2>8 DEF Sound, Marking
  <2> QED
    BY <1>1, <1>4, <1>6, <2>1, <2>3, <2>4, <2>9 DEF Inv
<1> QED
  BY <1>5, <1>6

LEMMA ExecuteEofStep ==
  ASSUME IInv, ExecuteEof PROVE Inv(parser', exec', log')
<1>1. /\ stream \in Streams /\ log \in History /\ IsStruct(parser) /\ IsLocals(exec)
      /\ exec.pc = "idle" /\ \A m \in DataKinds : exec.marks[m] = 0
  BY InCall DEF ExecuteEof, Place, CallPcs
<1>2. exec' = [exec EXCEPT !.pc = "closed"]
  BY DEF ExecuteEof
<1>3. IsLocals(exec') /\ exec'.pc = "closed" /\ exec'.marks = exec.marks
  BY <1>1, <1>2 DEF IsLocals
<1>4. \/ parser' = parser /\ log' = log
      \/ \E error \in Errors : /\ parser' = [parser EXCEPT !.errno = error]
                               /\ log' \in {log, Record("message_complete", exec.p, exec.p)}
  <2>1. {"PAUSED", "INVALID_EOF_STATE", "OK", CallbackErrors["message_complete"]} \subseteq Errors
    BY DEF Errors, Range, CallbackErrors
  <2>2. \/ UNCHANGED <<parser, log>>
        \/ \E answer \in Answers("message_complete", stream) :
              /\ log' = Record("message_complete", exec.p, exec.p)
              /\ parser' = [parser EXCEPT !.errno =
                   CASE answer = "ok" -> @ [] answer = "pause" -> "PAUSED"
                     [] OTHER -> CallbackErrors["message_complete"]]
        \/ parser' = [parser EXCEPT !.errno = "INVALID_EOF_STATE"] /\ UNCHANGED log
    BY DEF ExecuteEof
  <2>3. ASSUME NEW answer \in Answers("message_complete", stream),
               parser' = [parser EXCEPT !.errno =
                   CASE answer = "ok" -> @ [] answer = "pause" -> "PAUSED"
                     [] OTHER -> CallbackErrors["message_complete"]]
        PROVE  \E error \in Errors : parser' = [parser EXCEPT !.errno = error]
    <3> DEFINE error == CASE answer = "ok" -> parser.errno [] answer = "pause" -> "PAUSED"
                          [] OTHER -> CallbackErrors["message_complete"]
    <3>1. error \in Errors
      BY <1>1, <2>1 DEF IsStruct
    <3>2. parser' = [parser EXCEPT !.errno = error]
      BY <2>3
    <3> HIDE DEF error
    <3> QED
      BY <3>1, <3>2
  <2> QED
    BY <2>1, <2>2, <2>3
<1>5. IsStruct(parser')
  BY <1>1, <1>4 DEF IsStruct
<1>6. log' \in History
  <2>1. "message_complete" \in CallbackNames /\ exec.p \in Nat
    BY <1>1, StreamLength DEF CallbackNames, CallbackErrors, IsLocals
  <2> QED
    BY <1>1, <1>4, <2>1, RecordStep
<1> QED
  BY <1>1, <1>3, <1>5, <1>6 DEF Inv, Place, CallPcs

LEMMA ResumeStep ==
  ASSUME IInv, Resume PROVE Inv(parser', exec', log')
<1>1. /\ stream \in Streams /\ log \in History /\ IsStruct(parser) /\ IsLocals(exec)
      /\ exec.pc = "idle" /\ Place(parser, exec) /\ Sound(parser, exec, LastOf(log))
      /\ \A m \in DataKinds : exec.marks[m] = 0
  BY InCall DEF Resume, Place, CallPcs
<1>2. parser' = [parser EXCEPT !.errno = "OK"] /\ exec' = exec /\ log' = log
  BY DEF Resume
<1>3. /\ IsStruct(parser') /\ parser'.errno = "OK"
      /\ parser'.state = parser.state /\ parser'.header_state = parser.header_state
      /\ parser'.index = parser.index /\ parser'.flags = parser.flags
      /\ parser'.content_length = parser.content_length /\ parser'.nread = parser.nread
  BY <1>1, <1>2 DEF IsStruct, Errors
<1>4. /\ parser.state = "s_chunk_size_start" => parser.nread = 0
      /\ parser.state = "s_chunk_data_almost_done" => LastOf(log) = "body"
  BY <1>1, BetweenCalls
<1>5. Sound(parser', exec, LastOf(log))
  BY <1>1, <1>3, <1>4, SoundWhenIdle
<1> QED
  BY <1>1, <1>2, <1>3, <1>5 DEF Inv, Place, CallPcs

-----------------------------------------------------------------------------
(* The invariant is one. *)

LEMMA InitIInv == Init => IInv
<1> SUFFICES ASSUME Init PROVE IInv
  OBVIOUS
<1>1. stream \in Streams /\ Len(stream) \in Nat
  BY StreamLength DEF Init
<1>2. /\ IsStruct(parser) /\ parser.state \in StartStates /\ parser.flags = {}
      /\ parser.errno = "OK"
  <2>1. parser.state \in StartStates /\ parser.state \in States
    BY GroupsAreStates DEF Init, http_parser_init, StartStates
  <2>2. Type \in {"REQUEST", "RESPONSE", "BOTH"} /\ 0 \in 0..MaxLength
    BY ParserAssumption
  <2>3. "h_general" \in HeaderStates /\ "OK" \in Errors
    BY DEF HeaderStates, NameStates, Errors
  <2>4. "DELETE" \in Methods
    BY DEF Methods, Range, MethodOfLetter
  <2>5. /\ DOMAIN parser = {"type", "state", "header_state", "index", "flags",
                            "uses_transfer_encoding", "nread", "content_length", "http_major",
                            "http_minor", "status_code", "method", "errno", "upgrade"}
        /\ parser.type = Type /\ parser.header_state = "h_general" /\ parser.index = 0
        /\ parser.flags = {} /\ parser.uses_transfer_encoding = FALSE /\ parser.nread = 0
        /\ parser.content_length = 0 /\ parser.http_major = 0 /\ parser.http_minor = 0
        /\ parser.status_code = 0 /\ parser.method = "DELETE" /\ parser.errno = "OK"
        /\ parser.upgrade = FALSE
    BY DEF Init, http_parser_init
  <2>6. parser.uses_transfer_encoding \in BOOLEAN /\ parser.upgrade \in BOOLEAN
    BY <2>5
  <2>7. parser.flags \in SUBSET Flags
    BY <2>5
  <2>8. IsStruct(parser)
    BY <2>1, <2>2, <2>3, <2>4, <2>5, <2>6, <2>7 DEF IsStruct
  <2> QED
    BY <2>1, <2>5, <2>8
<1>3. /\ IsLocals(exec) /\ exec.pc = "idle" /\ \A m \in DataKinds : exec.marks[m] = 0
  <2>1. NoMarks \in [DataKinds -> 0..Len(stream)]
    BY <1>1 DEF NoMarks, DataKinds
  <2> QED
    BY <1>1, <2>1, NoMarksZero DEF Init, IsLocals
<1>4. log \in History /\ LastOf(log) = "none"
  BY DEF Init, History, LastOf
<1>5. Settled(parser, "none") /\ parser.state \notin MarkStates
  BY <1>2, StartSettled
<1>6. parser.state # "s_chunk_size_start"
  BY <1>2 DEF StartStates
<1>7. Sound(parser, exec, "none")
  BY <1>3, <1>5, <1>6, UnmarkedSound
<1> QED
  BY <1>1, <1>2, <1>3, <1>4, <1>7 DEF IInv, Inv, Place, CallPcs

LEMMA RunningInv == ASSUME IInv, Running PROVE Inv(parser', exec', log')
<1>1. CASE Fetch
  BY <1>1, FetchStep
<1>2. CASE EndOfPiece
  BY <1>2, EndOfPieceStep
<1>3. CASE FirstLine
  BY <1>3, DeadStep, StartReqOrResStep, ResOrRespHStep, StartResStep, StartReqStep, LiteralStep,
     VersionStep, FirstStatusCodeStep, StatusCodeStep, StatusStartStep, StatusStep, MethodStep,
     SpacesBeforeUrlStep, UrlStep, HttpStartStep, HttpEndStep DEF FirstLine
<1>4. CASE Headers
  BY <1>4, HeaderFieldStartStep, HeaderFieldStep, HeaderValueDiscardWsStep, HeaderValueStartStep,
     HeaderValueStep, HeaderValueLwsStep, HeaderValueDiscardLwsStep, HeadersAlmostDoneStep,
     HeadersDoneStep DEF Headers
<1>5. CASE Body
  BY <1>5, BodyIdentityStep, BodyIdentityEofStep, MessageDoneStep, ChunkSizeStartStep,
     ChunkSizeStep, ChunkParametersStep, ChunkSizeAlmostDoneStep, ChunkDataStep,
     ChunkDataAlmostDoneStep, ChunkDataDoneStep DEF Body
<1> QED
  BY <1>1, <1>2, <1>3, <1>4, <1>5 DEF Running

LEMMA StepIInv == IInv /\ [Next]_vars => IInv'
<1> SUFFICES ASSUME IInv, [Next]_vars PROVE IInv'
  OBVIOUS
<1>1. stream' = stream
  BY DEF Next, Running, Calling, Finished, vars
<1>2. Inv(parser', exec', log')
  <2>1. CASE Running
    BY <2>1, RunningInv
  <2>2. CASE Calling
    BY <2>2, ExecuteStep, ExecuteEofStep, ResumeStep DEF Calling
  <2>3. CASE UNCHANGED vars
    BY <2>3 DEF IInv, vars
  <2> QED
    BY <2>1, <2>2, <2>3 DEF Next, Finished
<1> QED
  BY <1>1, <1>2 DEF IInv, Inv, IsLocals

-----------------------------------------------------------------------------
(* The theorems. *)

LEMMA Invariance == Spec => []IInv
BY InitIInv, StepIInv, PTL DEF Spec

\* Every field of the struct, the bit fields of http_parser.h:299-315 among
\* them, and every local of a call stays in its range; the position never
\* leaves the stream (http_parser.c:641-2154).
THEOREM ParserTypeCorrect == Spec => []ParserTypeOK
<1>1. IInv => ParserTypeOK
  BY DataNames DEF IInv, Inv, IsStruct, IsLocals, ParserTypeOK
<1> QED
  BY <1>1, Invariance, PTL

\* No mark but that of one piece of data is set when a piece is used up.
LEMMA OneMark ==
  ASSUME IInv, exec.pc = "fetch"
  PROVE  Cardinality({m \in DOMAIN NoMarks : exec.marks[m] # 0}) <= 1
<1> DEFINE marked == {m \in DOMAIN NoMarks : exec.marks[m] # 0}
           datum == DatumOf(parser.state)
<1>1. marked \subseteq {datum}
  BY InCall, DataNames DEF CallPcs, Sound, Marking
<1> HIDE DEF marked, datum
<1>2. IsFiniteSet({datum}) /\ Cardinality({datum}) = 1
  BY FS_Singleton
<1>3. Cardinality(marked) <= Cardinality({datum})
  BY <1>1, <1>2, FS_Subset
<1> QED
  BY <1>2, <1>3 DEF marked

\* The assertions of http_parser_execute hold, whatever bytes it is given and
\* however they are cut: see NoAssertFails for which (http_parser.c:82,
\* 107, 1370, 1534, 1949-2119, 2135-2139).
THEOREM AssertionsHold == Spec => []NoAssertFails
<1>1. ASSUME IInv PROVE NoAssertFails
  <2>1. ASSUME exec.pc \in CallPcs
        PROVE  /\ parser.errno = "OK" /\ Measured(parser) /\ Words(parser)
               /\ ChunkCounts(parser, exec)
    BY <1>1, <2>1, InCall DEF CallPcs, Sound, Settled
  <2>2. /\ At_({"s_body_identity", "s_chunk_data"}) => parser.content_length \notin {0, MaxLength}
        /\ At_({"s_chunk_size_start", "s_chunk_size", "s_chunk_parameters", "s_chunk_data",
                "s_chunk_size_almost_done", "s_chunk_data_almost_done", "s_chunk_data_done"})
             => Has(parser, "F_CHUNKED")
        /\ At_({"s_chunk_data_almost_done"}) => parser.content_length = 0
    BY <2>1 DEF At_, CallPcs, Measured, Has
  <2>3. At_({"s_chunk_size_start"}) => exec.nread = 1
    BY <2>1 DEF At_, CallPcs, ChunkCounts
  <2>4. /\ InLoop("s_header_field") => parser.header_state \in NameStates
        /\ InLoop("s_header_value") => parser.header_state \notin {"h_connection",
                                                                   "h_transfer_encoding"}
    BY <2>1 DEF InLoop, CallPcs, Words
  <2>5. exec.pc = "fetch" /\ exec.p > exec.end =>
          Cardinality({m \in DOMAIN NoMarks : exec.marks[m] # 0}) <= 1
    BY <1>1, OneMark
  <2>6. exec.pc \in {"fetch", "switch", "loop"} => parser.errno = "OK"
    BY <2>1 DEF CallPcs
  <2> QED
    BY <2>2, <2>3, <2>4, <2>5, <2>6 DEF NoAssertFails
<1>2. IInv => NoAssertFails
  BY <1>1
<1> QED
  BY <1>2, Invariance, PTL

\* What runs inside a call runs while there is one.
LEMMA RunningInCall == ASSUME Running PROVE exec.pc \in CallPcs
<1>1. Fetch \/ EndOfPiece => exec.pc \in CallPcs
  BY DEF Fetch, EndOfPiece, CallPcs
<1>2. FirstLine => exec.pc \in CallPcs
  BY DEF FirstLine, At_, CallPcs, Dead, StartReqOrRes, ResOrRespH, StartRes, StartReq, Literal,
     Version, FirstStatusCode, StatusCode, StatusStart, Status, Method, SpacesBeforeUrl, Url,
     HttpStart, HttpEnd
<1>3. Headers => exec.pc \in CallPcs
  BY DEF Headers, At_, InLoop, CallPcs, HeaderFieldStart, HeaderField, HeaderValueDiscardWs,
     HeaderValueStart, HeaderValue, HeaderValueLws, HeaderValueDiscardLws, HeadersAlmostDone,
     HeadersDone
<1>4. Body => exec.pc \in CallPcs
  BY DEF Body, At_, CallPcs, BodyIdentity, BodyIdentityEof, MessageDone, ChunkSizeStart, ChunkSize,
     ChunkParameters, ChunkSizeAlmostDone, ChunkData, ChunkDataAlmostDone, ChunkDataDone
<1> QED
  BY <1>1, <1>2, <1>3, <1>4 DEF Running

\* After an error nothing changes any more, though the program never looks at
\* the result and feeds the parser on (http_parser.c:662-665,
\* http_request_parser.cpp:265-267).
THEOREM ErrorStays == Spec => ErrorIsFinal
<1>1. IInv /\ [Next]_vars =>
        [parser.errno \notin {"OK", "PAUSED"} => UNCHANGED <<parser, log>>]_vars
  <2> SUFFICES ASSUME IInv, Next, parser.errno \notin {"OK", "PAUSED"}
               PROVE  UNCHANGED <<parser, log>>
    OBVIOUS
  <2>1. ~Running
    BY InCall, RunningInCall
  <2>2. ASSUME NEW n \in Pieces, Execute(n) PROVE UNCHANGED <<parser, log>>
    BY <2>2 DEF Execute
  <2>3. ExecuteEof => UNCHANGED <<parser, log>>
    BY DEF ExecuteEof
  <2>4. ~Resume
    BY DEF Resume
  <2>5. Finished => UNCHANGED <<parser, log>>
    BY DEF Finished, vars
  <2> QED
    BY <2>1, <2>2, <2>3, <2>4, <2>5 DEF Next, Calling
<1> QED
  BY <1>1, Invariance, PTL DEF Spec, ErrorIsFinal

-----------------------------------------------------------------------------
(* The parser implements CallbackOrder: every step makes no callback, the  *)
(* last one again, or one that may come after the last.                    *)

\* What a step calls back, and what becomes of the flag F_TRAILING.

Calls(c) == log' # <<>> /\ LastOf(log') = c
Kept == "F_TRAILING" \in parser'.flags <=> "F_TRAILING" \in parser.flags

\* The callbacks that may be made in the state of a struct, but for those at
\* which the flag changes.
Makes(q, c) ==
  \/ c \in DataKinds /\ c = DatumOf(q.state)
  \/ c = "header_value" /\ q.state = "s_header_value_discard_lws"
  \/ c = "chunk_complete" /\ q.state = "s_chunk_data_done"
  \/ c = "chunk_complete" /\ q.state = "s_headers_almost_done" /\ "F_TRAILING" \in q.flags
  \/ c = "headers_complete" /\ q.state = "s_headers_almost_done" /\ "F_TRAILING" \notin q.flags
  \/ c = "message_complete" /\ q.state \in {"s_headers_done", "s_message_done",
                                            "s_body_identity_eof"}

Ordered ==
  \/ log' = log /\ (Kept \/ parser.state \in StartStates)
  \/ Kept /\ \E c \in CallbackNames : Makes(parser, c) /\ Calls(c)
  \/ /\ parser.state \in StartStates /\ Calls("message_begin")
     /\ "F_TRAILING" \notin parser'.flags
  \/ parser.state = "s_chunk_size_almost_done" /\ Calls("chunk_header")

\* Whatever bytes it is given, a callback that is recorded is the last.
LEMMA RecordCalls ==
  ASSUME log \in History, NEW c, NEW from, NEW to, NEW l, l = Record(c, from, to)
  PROVE  l # <<>> /\ LastOf(l) = c
<1> DEFINE Entry == [callback : CallbackNames, from : Nat, to : Nat]
           n == Len(log)
           e == [log[n] EXCEPT !.to = to]
           f == [callback |-> c, from |-> from, to |-> to]
           S == Entry \cup {e, f}
<1>1. log \in Seq(Entry)
  BY DEF History
<1>2. log \in Seq(S)
  <2> HIDE DEF Entry, e, f
  <2> QED
    BY <1>1
<1>3. CASE log # <<>> /\ Last(log).callback = c /\ Last(log).to + 1 = from
  <2>1. l = [log EXCEPT ![n] = e]
    BY <1>3 DEF Record
  <2>2. n \in 1..Len(log) /\ log[n] \in Entry
    <3> HIDE DEF Entry
    <3>1. Len(log) \in Nat /\ Len(log) # 0
      BY <1>1, <1>3, EmptySeq
    <3> QED
      BY <1>1, <3>1
  <2>3. e.callback = c /\ e \in S
    BY <1>3, <2>2 DEF Last
  <2> HIDE DEF Entry, e, S
  <2>4. l \in Seq(S) /\ Len(l) = n /\ l[n] = e
    BY <1>2, <2>1, <2>2, <2>3
  <2> QED
    BY <2>2, <2>3, <2>4 DEF Last, LastOf
<1>4. CASE ~(log # <<>> /\ Last(log).callback = c /\ Last(log).to + 1 = from)
  <2>1. l = Append(log, f)
    BY <1>4 DEF Record
  <2>2. f \in S /\ f.callback = c
    OBVIOUS
  <2> HIDE DEF Entry, e, f, S
  <2>3. l \in Seq(S) /\ Len(l) = n + 1 /\ l[n + 1] = f /\ n \in Nat
    BY <1>2, <2>1, <2>2
  <2> QED
    BY <2>2, <2>3 DEF Last, LastOf
<1> QED
  BY <1>3, <1>4

\* The ways a step ends leave the flags of its struct.
LEMMA EndsKeep ==
  ASSUME NEW q, "flags" \in DOMAIN q
  PROVE  /\ \A x, error : Fail(q, x, error) => log' = log /\ parser'.flags = q.flags
         /\ \A x, next : RETURN(q, x, next) => parser'.flags = q.flags
         /\ \A x : Advance(q, x) \/ REEXECUTE(q, x) => parser'.flags = q.flags
         /\ \A x : Break(q, x) \/ Again(q, x) => log' = log /\ parser'.flags = q.flags
         /\ \A next : Loop(q, next) => log' = log /\ parser'.flags = q.flags
         /\ \A x, callback, answer, next :
              Stop(q, x, callback, answer, next) => parser'.flags = q.flags
BY DEF Fail, RETURN, Advance, REEXECUTE, Break, Again, Loop, Stop

LEMMA NotifyEnds ==
  ASSUME log \in History, NEW q, "flags" \in DOMAIN q, NEW x, NEW c, NEW next,
         \/ CALLBACK_NOTIFY(q, x, c, next, Advance)
         \/ CALLBACK_NOTIFY(q, x, c, next, REEXECUTE)
         \/ CALLBACK_NOTIFY(q, x, c, next, Leave)
  PROVE  Calls(c) /\ parser'.flags = q.flags
<1>1. /\ log' = Record(c, x.p, x.p)
      /\ \/ Advance(q, x) \/ REEXECUTE(q, x) \/ RETURN(q, x, x.p + 1)
         \/ \E answer : Stop(q, x, c, answer, next)
  BY DEF CALLBACK_NOTIFY, Leave
<1>2. Calls(c)
  BY <1>1, RecordCalls DEF Calls
<1> QED
  BY <1>1, <1>2, EndsKeep

LEMMA DataEnds ==
  ASSUME log \in History, NEW q, "flags" \in DOMAIN q, NEW x, NEW data, NEW to, NEW next,
         \/ CALLBACK_DATA(q, x, data, to, next, Advance)
         \/ CALLBACK_DATA(q, x, data, to, next, REEXECUTE)
  PROVE  (log' = log \/ Calls(data)) /\ parser'.flags = q.flags
<1>1. \/ log' = log /\ (Advance(q, x) \/ REEXECUTE(q, x))
      \/ /\ log' = Record(data, x.marks[data], to)
         /\ \/ Advance(q, Unmark(x, data)) \/ REEXECUTE(q, Unmark(x, data))
            \/ \E answer : Stop(q, x, data, answer, next)
  BY DEF CALLBACK_DATA, Unmark
<1>2. log' = log \/ Calls(data)
  BY <1>1, RecordCalls DEF Calls
<1> QED
  BY <1>1, <1>2, EndsKeep

\* The struct has flags, before and after a step that only replaces others.
LEMMA HasFlags == ASSUME IInv PROVE "flags" \in DOMAIN parser
BY DEF IInv, Inv, IsStruct

LEMMA ToFlags ==
  ASSUME IInv, NEW s PROVE "flags" \in DOMAIN To(s) /\ To(s).flags = parser.flags
BY HasFlags DEF To

Silent == log' = log /\ parser'.flags = parser.flags

LEMMA SilentOrdered == Silent => Ordered
BY DEF Silent, Ordered, Kept

\* A step that ends without a callback.
LEMMA PlainEnds ==
  ASSUME NEW q, "flags" \in DOMAIN q, q.flags = parser.flags,
         \/ \E x, error : Fail(q, x, error)
         \/ \E x : Break(q, x) \/ Again(q, x)
         \/ \E next : Loop(q, next)
  PROVE  Silent
BY EndsKeep DEF Silent

LEMMA DeadOrder == ASSUME IInv, Dead PROVE Ordered
<1>1. Break(parser, exec) \/ Fail(parser, exec, "CLOSED_CONNECTION")
  BY DEF Dead
<1> QED
  BY <1>1, HasFlags, PlainEnds, SilentOrdered

LEMMA NewMessageFlags ==
  ASSUME IInv PROVE "flags" \in DOMAIN NewMessage(parser) /\ NewMessage(parser).flags = {}
BY HasFlags DEF NewMessage

\* The first byte of a message.
LEMMA StartOrder ==
  ASSUME IInv, StartReqOrRes \/ StartRes \/ StartReq PROVE Ordered
<1>1. parser.state \in StartStates
  BY DEF StartReqOrRes, StartRes, StartReq, At_, StartStates
<1>2. log \in History
  BY InCall
<1>3. \/ \E q : Break(q, exec) \/ Again(q, exec) \/ Fail(q, exec, "INVALID_CONSTANT")
                \/ Fail(q, exec, "INVALID_METHOD")
      \/ \E q : /\ "flags" \in DOMAIN q /\ q.flags = {}
                /\ CALLBACK_NOTIFY(q, exec, "message_begin", exec.p + 1, Advance)
  <2>1. CASE StartReqOrRes
    <3> DEFINE q == [NewMessage(parser) EXCEPT !.state = "s_res_or_resp_H"]
    <3>1. "flags" \in DOMAIN q /\ q.flags = {}
      BY NewMessageFlags
    <3> QED
      BY <2>1, <3>1 DEF StartReqOrRes
  <2>2. CASE StartRes
    <3> DEFINE q == [NewMessage(parser) EXCEPT !.state = "s_res_H"]
    <3>1. "flags" \in DOMAIN q /\ q.flags = {}
      BY NewMessageFlags
    <3> QED
      BY <2>2, <3>1 DEF StartRes
  <2>3. CASE StartReq
    <3> DEFINE r == [NewMessage(parser) EXCEPT !.index = 1]
               q == [r EXCEPT !.method = MethodOfLetter[ch], !.state = "s_req_method"]
    <3>1. "flags" \in DOMAIN q /\ q.flags = {}
      BY NewMessageFlags
    <3> QED
      BY <2>3, <3>1 DEF StartReq
  <2> QED
    BY <2>1, <2>2, <2>3
<1>4. CASE \E q : Break(q, exec) \/ Again(q, exec) \/ Fail(q, exec, "INVALID_CONSTANT")
                  \/ Fail(q, exec, "INVALID_METHOD")
  BY <1>1, <1>4 DEF Ordered, Break, Again, Fail
<1>5. CASE \E q : /\ "flags" \in DOMAIN q /\ q.flags = {}
                  /\ CALLBACK_NOTIFY(q, exec, "message_begin", exec.p + 1, Advance)
  <2>1. Calls("message_begin") /\ parser'.flags = {}
    BY <1>2, <1>5, NotifyEnds
  <2> QED
    BY <1>1, <2>1 DEF Ordered
<1> QED
  BY <1>3, <1>4, <1>5

\* The first line, but for its data.
LEMMA FirstLineSilent ==
  ASSUME IInv, \/ ResOrRespH \/ Literal \/ Version \/ FirstStatusCode \/ StatusCode
               \/ StatusStart \/ Method \/ SpacesBeforeUrl \/ HttpStart \/ HttpEnd
  PROVE  Silent
<1> USE HasFlags, ToFlags, PlainEnds
<1>1. ASSUME ResOrRespH PROVE Silent
  <2> DEFINE q == [To("s_res_HT") EXCEPT !.type = "RESPONSE"]
             r == [To("s_req_method") EXCEPT !.type = "REQUEST", !.method = "HEAD", !.index = 2]
  <2>1. Break(q, exec) \/ Break(r, exec) \/ Fail(parser, exec, "INVALID_CONSTANT")
    BY <1>1 DEF ResOrRespH
  <2>2. "flags" \in DOMAIN q /\ q.flags = parser.flags /\ "flags" \in DOMAIN r /\ r.flags = parser.flags
    OBVIOUS
  <2> HIDE DEF q, r
  <2> QED
    BY <2>1, <2>2
<1>2. Literal => Silent
  BY DEF Literal
<1>3. Version => Silent
  BY DEF Version
<1>4. ASSUME FirstStatusCode PROVE Silent
  <2> DEFINE q == [To("s_res_status_code") EXCEPT !.status_code = DigitValue(ch)]
  <2>1. Break(q, exec) \/ Break(parser, exec) \/ Fail(parser, exec, "INVALID_STATUS")
    BY <1>4 DEF FirstStatusCode
  <2>2. "flags" \in DOMAIN q /\ q.flags = parser.flags
    OBVIOUS
  <2> HIDE DEF q
  <2> QED
    BY <2>1, <2>2
<1>5. ASSUME StatusCode PROVE Silent
  <2> DEFINE code == parser.status_code * 10 + DigitValue(ch)
             q == [parser EXCEPT !.status_code = code]
             r == To("s_res_status_start")
  <2>1. Break(q, exec) \/ Break(r, exec) \/ Again(r, exec) \/ Fail(parser, exec, "INVALID_STATUS")
    BY <1>5 DEF StatusCode
  <2> HIDE DEF code
  <2>2. "flags" \in DOMAIN q /\ q.flags = parser.flags
    OBVIOUS
  <2> HIDE DEF q
  <2> QED
    BY <2>1, <2>2
<1>6. StatusStart => Silent
  BY DEF StatusStart
<1>7. ASSUME Method PROVE Silent
  <2> DEFINE next == [parser EXCEPT !.index = @ + 1]
             q == [next EXCEPT !.state = "s_req_spaces_before_url"]
             r(m) == [next EXCEPT !.method = m]
  <2>1. \/ Break(q, exec) \/ Break(next, exec) \/ Fail(parser, exec, "INVALID_METHOD")
        \/ \E m : Break(r(m), exec)
    BY <1>7 DEF Method
  <2>2. "flags" \in DOMAIN next /\ next.flags = parser.flags
    OBVIOUS
  <2> HIDE DEF next
  <2>3. /\ "flags" \in DOMAIN q /\ q.flags = parser.flags
        /\ \A m : "flags" \in DOMAIN r(m) /\ r(m).flags = parser.flags
    BY <2>2
  <2> HIDE DEF q, r
  <2> QED
    BY <2>1, <2>2, <2>3
<1>8. SpacesBeforeUrl => Silent
  BY DEF SpacesBeforeUrl
<1>9. HttpStart => Silent
  BY DEF HttpStart
<1>10. HttpEnd => Silent
  BY DEF HttpEnd
<1> QED
  BY <1>1, <1>2, <1>3, <1>4, <1>5, <1>6, <1>7, <1>8, <1>9, <1>10

\* The data of a state is passed on, or nothing is.
LEMMA DatumOrdered ==
  ASSUME NEW data \in DataKinds, data = DatumOf(parser.state), log' = log \/ Calls(data),
         parser'.flags = parser.flags
  PROVE  Ordered
<1>1. data \in CallbackNames
  BY DEF DataKinds, CallbackNames, CallbackErrors
<1> QED
  BY <1>1 DEF Ordered, Kept, Makes

LEMMA StatusOrder == ASSUME IInv, Status PROVE Ordered
<1>1. log \in History
  BY InCall
<1>2. "status" \in DataKinds /\ "status" = DatumOf(parser.state)
  BY MarkNames DEF Status, At_, DataKinds, DatumOf, BodyMarkStates
<1>3. \/ Break(parser, exec)
      \/ \E s : CALLBACK_DATA(To(s), exec, "status", exec.p - 1, exec.p + 1, Advance)
  BY DEF Status
<1>4. (log' = log \/ Calls("status")) /\ parser'.flags = parser.flags
  BY <1>1, <1>3, HasFlags, ToFlags, PlainEnds, DataEnds DEF Silent
<1> QED
  BY <1>2, <1>4, DatumOrdered

LEMMA UrlOrder == ASSUME IInv, Url PROVE Ordered
<1>1. log \in History
  BY InCall
<1>2. "url" \in DataKinds /\ "url" = DatumOf(parser.state)
  BY MarkNames DEF Url, At_, DataKinds, DatumOf, BodyMarkStates, UrlStates
<1> DEFINE old(s) == [To(s) EXCEPT !.http_major = 0, !.http_minor = 9]
<1>3. \/ \E s : Break(To(s), exec) \/ Fail(To(s), exec, "INVALID_URL")
      \/ Fail(parser, exec, "INVALID_URL")
      \/ \E s : \/ CALLBACK_DATA(To(s), exec, "url", exec.p - 1, exec.p + 1, Advance)
                \/ CALLBACK_DATA(old(s), exec, "url", exec.p - 1, exec.p + 1, Advance)
  BY DEF Url
<1>4. \A s : "flags" \in DOMAIN old(s) /\ old(s).flags = parser.flags
  BY ToFlags
<1> HIDE DEF old
<1>5. (log' = log \/ Calls("url")) /\ parser'.flags = parser.flags
  BY <1>1, <1>3, <1>4, HasFlags, ToFlags, PlainEnds, DataEnds DEF Silent
<1> QED
  BY <1>2, <1>5, DatumOrdered

-----------------------------------------------------------------------------
(* The headers. *)

LEMMA HeaderFieldStartOrder == ASSUME IInv, HeaderFieldStart PROVE Ordered
<1> DEFINE q(state) == [To("s_header_field") EXCEPT !.index = 0, !.header_state = state]
<1>1. \/ Break(To("s_headers_almost_done"), exec) \/ Again(To("s_headers_almost_done"), exec)
      \/ Fail(parser, exec, "INVALID_HEADER_TOKEN")
      \/ \E state : Break(q(state), MARK(exec, "header_field"))
  BY DEF HeaderFieldStart
<1>2. \A state : "flags" \in DOMAIN q(state) /\ q(state).flags = parser.flags
  BY ToFlags
<1> HIDE DEF q
<1> QED
  BY <1>1, <1>2, HasFlags, ToFlags, PlainEnds, SilentOrdered

LEMMA LoopRunsOutSilent == ASSUME IInv, LoopRunsOut PROVE Silent
BY HasFlags, PlainEnds DEF LoopRunsOut

\* A character of a name or a value leaves F_TRAILING as it is.
LEMMA ComparedFlags ==
  ASSUME NEW q, "flags" \in DOMAIN q, NEW keyword, NEW c, NEW otherwise,
         NEW r, r = Compared(q, keyword, c, otherwise)
  PROVE  "flags" \in DOMAIN r /\ r.flags = q.flags
<1> PICK i, h : r = [q EXCEPT !.index = i, !.header_state = h]
  BY DEF Compared
<1> QED
  OBVIOUS

LEMMA FieldCharacterFlags ==
  ASSUME NEW q, "flags" \in DOMAIN q, NEW c, NEW r, r = FieldCharacter(q, c)
  PROVE  "flags" \in DOMAIN r /\ r.flags = q.flags
<1> DEFINE compared == Compared(q, FieldWords[q.header_state], c, "h_general")
           next(state) == [q EXCEPT !.index = @ + 1, !.header_state = state]
           u == compared.uses_transfer_encoding \/ compared.header_state = "h_transfer_encoding"
           found == [compared EXCEPT !.uses_transfer_encoding = u]
<1>1. \/ \E state : r = next(state)
      \/ r = found
      \/ r = [q EXCEPT !.header_state = "h_general"]
  BY FieldWordNames DEF FieldCharacter
<1>2. "flags" \in DOMAIN compared /\ compared.flags = q.flags
  BY ComparedFlags
<1> HIDE DEF compared, u
<1>4. "flags" \in DOMAIN found /\ found.flags = q.flags
  BY <1>2
<1> HIDE DEF found
<1>3. \A state : "flags" \in DOMAIN next(state) /\ next(state).flags = q.flags
  OBVIOUS
<1> QED
  BY <1>1, <1>3, <1>4

LEMMA HeaderFieldOrder == ASSUME IInv, HeaderField PROVE Ordered
<1>1. log \in History
  BY InCall
<1>2. "header_field" \in DataKinds /\ "header_field" = DatumOf(parser.state)
  BY MarkNames DEF HeaderField, InLoop, DataKinds, DatumOf, BodyMarkStates
<1> DEFINE q == FieldCharacter(parser, Lowered(ch))
           x == Counted([exec EXCEPT !.start = 0], exec.p - LoopStart)
<1>3. \/ LoopRunsOut \/ Loop(q, exec.p + 1)
      \/ \E next : Loop(parser, next)
      \/ Fail(parser, x, "HEADER_OVERFLOW") \/ Fail(parser, x, "INVALID_HEADER_TOKEN")
      \/ CALLBACK_DATA(To("s_header_value_discard_ws"), x, "header_field", x.p - 1, x.p + 1, Advance)
  BY DEF HeaderField
<1>4. "flags" \in DOMAIN q /\ q.flags = parser.flags
  BY HasFlags, FieldCharacterFlags
<1> HIDE DEF q, x
<1>5. (log' = log \/ Calls("header_field")) /\ parser'.flags = parser.flags
  BY <1>1, <1>3, <1>4, HasFlags, ToFlags, PlainEnds, DataEnds, LoopRunsOutSilent DEF Silent
<1> QED
  BY <1>2, <1>5, DatumOrdered

\* A flag that is not F_TRAILING may be set.
LEMMA FlagOrdered ==
  ASSUME log' = log, NEW flag, flag # "F_TRAILING",
         parser'.flags \in {parser.flags, parser.flags \cup {flag}}
  PROVE  Ordered
BY DEF Ordered, Kept

LEMMA StartValueOrder == ASSUME IInv, StartValue(parser) PROVE Ordered
<1> DEFINE start == [parser EXCEPT !.state = "s_header_value", !.index = 0]
           next == [start EXCEPT !.header_state = ValueStartState(parser)]
           upgrade == [next EXCEPT !.flags = @ \cup {"F_UPGRADE"}]
           sized == [next EXCEPT !.flags = @ \cup {"F_CONTENTLENGTH"},
                                 !.content_length = DigitValue(ch)]
           x == MARK(exec, "header_value")
<1>1. \/ Break(upgrade, x) \/ Break(sized, x) \/ Break(next, x)
      \/ Fail(start, x, "INVALID_CONTENT_LENGTH") \/ Fail(start, x, "UNEXPECTED_CONTENT_LENGTH")
  BY DEF StartValue
<1>2. "flags" \in DOMAIN start /\ start.flags = parser.flags
  BY HasFlags
<1> HIDE DEF start, x
<1>3. "flags" \in DOMAIN next /\ next.flags = parser.flags
  BY <1>2
<1> HIDE DEF next
<1>4. /\ "flags" \in DOMAIN upgrade /\ upgrade.flags = parser.flags \cup {"F_UPGRADE"}
      /\ "flags" \in DOMAIN sized /\ sized.flags = parser.flags \cup {"F_CONTENTLENGTH"}
  BY <1>3
<1> HIDE DEF upgrade, sized
<1>5. /\ log' = log
      /\ \/ parser'.flags \in {parser.flags, parser.flags \cup {"F_UPGRADE"}}
         \/ parser'.flags \in {parser.flags, parser.flags \cup {"F_CONTENTLENGTH"}}
  BY <1>1, <1>2, <1>3, <1>4, EndsKeep
<1> QED
  BY <1>5, FlagOrdered

LEMMA HeaderValueBeginOrder ==
  ASSUME IInv, HeaderValueDiscardWs \/ HeaderValueStart PROVE Ordered
<1>1. \/ StartValue(parser)
      \/ Break(parser, exec) \/ \E s : Break(To(s), exec)
  BY DEF HeaderValueDiscardWs, HeaderValueStart
<1> QED
  BY <1>1, StartValueOrder, HasFlags, ToFlags, PlainEnds, SilentOrdered

LEMMA HeaderValueOrder == ASSUME IInv, HeaderValue PROVE Ordered
<1>1. /\ exec.pc \in {"switch", "loop"} /\ parser.state = "s_header_value"
      /\ log \in History
  BY InCall DEF HeaderValue, InLoop
<1>2. "header_value" \in DataKinds /\ "header_value" = DatumOf(parser.state)
  BY <1>1, MarkNames DEF DataKinds, DatumOf, BodyMarkStates
<1> DEFINE r == ValueCharacter(parser)
           q == To("s_header_almost_done")
<1>3. \/ LoopRunsOut \/ \E error : Fail(parser, exec, error)
      \/ GeneralValue \/ CrValue(exec) \/ LfValue(exec)
      \/ ~BadLength(parser) /\ Loop(r, exec.p + 1)
  BY DEF HeaderValue
<1>4. CASE LoopRunsOut \/ \E error : Fail(parser, exec, error)
  BY <1>4, LoopRunsOutSilent, HasFlags, PlainEnds, SilentOrdered
<1>5. CASE GeneralValue
  <2>1. \E next : Loop(parser, next)
    BY <1>5 DEF GeneralValue
  <2> QED
    BY <2>1, HasFlags, PlainEnds, SilentOrdered
<1>6. CASE ~BadLength(parser) /\ Loop(r, exec.p + 1)
  <2>1. IsStruct(parser) /\ Settled(parser, LastOf(log))
    BY <1>1, InCall DEF CallPcs, Sound
  <2>2. ValueStruct(parser)
    BY <1>1, <2>1 DEF ValueStruct, Settled, Measured
  <2>3. SameMessage(parser, r)
    BY <1>6, <2>2, ValueCharacterStep
  <2> HIDE DEF r
  <2>4. "flags" \in DOMAIN r /\ ("F_TRAILING" \in r.flags <=> "F_TRAILING" \in parser.flags)
    BY <2>3 DEF SameMessage, IsStruct
  <2>5. log' = log /\ parser'.flags = r.flags
    BY <1>6, <2>4, EndsKeep
  <2> QED
    BY <2>4, <2>5 DEF Ordered, Kept
<1>7. CASE CrValue(exec)
  <2>1. /\ \/ log' = log
           \/ \E from, to : log' = Record("header_value", from, to)
        /\ \/ \E x : Advance(q, x)
           \/ \E x, next : RETURN([q EXCEPT !.errno = "HEADER_OVERFLOW"], x, next)
           \/ \E answer, next : Stop(q, exec, "header_value", answer, next)
    BY <1>7 DEF CrValue, CALLBACK_DATA
  <2>2. log' = log \/ Calls("header_value")
    BY <1>1, <2>1, RecordCalls DEF Calls
  <2>3. parser'.flags = parser.flags
    BY <2>1, ToFlags, EndsKeep
  <2> QED
    BY <1>2, <2>2, <2>3, DatumOrdered
<1>8. CASE LfValue(exec)
  <2>1. \/ \E x : Fail(q, x, "HEADER_OVERFLOW")
        \/ \E x, to, next : CALLBACK_DATA(q, x, "header_value", to, next, REEXECUTE)
    BY <1>8 DEF LfValue
  <2>2. (log' = log \/ Calls("header_value")) /\ parser'.flags = parser.flags
    BY <1>1, <2>1, ToFlags, EndsKeep, DataEnds
  <2> QED
    BY <1>2, <2>2, DatumOrdered
<1> QED
  BY <1>3, <1>4, <1>5, <1>6, <1>7, <1>8

LEMMA HeaderValueLwsOrder == ASSUME IInv, HeaderValueLws PROVE Ordered
<1>1. exec.pc = "switch"
  BY DEF HeaderValueLws, At_
<1> DEFINE q == [WithFinalFlag(parser) EXCEPT !.state = "s_header_field_start"]
           s(h) == [To("s_header_value_start") EXCEPT !.header_state = h]
<1>2. Again(q, exec) \/ \E h : Again(s(h), exec)
  BY DEF HeaderValueLws
<1>3. IsStruct(q) /\ ("F_TRAILING" \in q.flags <=> "F_TRAILING" \in parser.flags)
  <2>1. PICK r : r = WithFinalFlag(parser)
    OBVIOUS
  <2> QED
    BY <1>1, <2>1, FinalFlagStep
<1>4. \A h : "flags" \in DOMAIN s(h) /\ s(h).flags = parser.flags
  BY ToFlags
<1>5. "flags" \in DOMAIN q
  BY <1>3 DEF IsStruct
<1> HIDE DEF q, s
<1>6. CASE Again(q, exec)
  BY <1>3, <1>5, <1>6, EndsKeep DEF Ordered, Kept
<1>7. CASE \E h : Again(s(h), exec)
  BY <1>4, <1>7, PlainEnds, SilentOrdered
<1> QED
  BY <1>2, <1>6, <1>7

LEMMA HeaderValueDiscardLwsOrder == ASSUME IInv, HeaderValueDiscardLws PROVE Ordered
<1>1. exec.pc = "switch" /\ parser.state = "s_header_value_discard_lws" /\ log \in History
  BY InCall DEF HeaderValueDiscardLws, At_
<1> DEFINE t == To("s_header_value_discard_ws")
           q == [WithFinalFlag(parser) EXCEPT !.state = "s_header_field_start"]
           x == MARK(exec, "header_value")
<1>2. \/ Break(t, exec) \/ Fail(parser, exec, "INVALID_CONTENT_LENGTH")
      \/ CALLBACK_DATA(q, x, "header_value", exec.p - 1, exec.p, REEXECUTE)
  BY DEF HeaderValueDiscardLws
<1>3. IsStruct(q) /\ ("F_TRAILING" \in q.flags <=> "F_TRAILING" \in parser.flags)
  <2>1. PICK r : r = WithFinalFlag(parser)
    OBVIOUS
  <2> QED
    BY <1>1, <2>1, FinalFlagStep
<1>4. "flags" \in DOMAIN q
  BY <1>3 DEF IsStruct
<1> HIDE DEF q, x
<1>5. CASE Break(t, exec) \/ Fail(parser, exec, "INVALID_CONTENT_LENGTH")
  BY <1>5, HasFlags, ToFlags, PlainEnds, SilentOrdered
<1>6. CASE CALLBACK_DATA(q, x, "header_value", exec.p - 1, exec.p, REEXECUTE)
  <2>1. (log' = log \/ Calls("header_value")) /\ Kept
    BY <1>1, <1>3, <1>4, <1>6, DataEnds DEF Kept
  <2>2. "header_value" \in CallbackNames /\ Makes(parser, "header_value")
    BY <1>1 DEF CallbackNames, CallbackErrors, Makes
  <2> QED
    BY <2>1, <2>2 DEF Ordered
<1> QED
  BY <1>2, <1>5, <1>6

LEMMA HeadersAlmostDoneOrder == ASSUME IInv, HeadersAlmostDone PROVE Ordered
<1>1. parser.state = "s_headers_almost_done" /\ log \in History
  BY InCall DEF HeadersAlmostDone, At_
<1> DEFINE q == To("s_message_done")
           r == [To("s_headers_done") EXCEPT !.upgrade = Upgrades(parser)]
           skip == [r EXCEPT !.flags = @ \cup {"F_SKIPBODY"}]
           upgrade == [r EXCEPT !.flags = @ \cup {"F_SKIPBODY"}, !.upgrade = TRUE]
           paused == [r EXCEPT !.errno = "PAUSED"]
           failed == [r EXCEPT !.errno = "CB_headers_complete"]
<1>2. \/ Fail(parser, exec, "STRICT") \/ Fail(parser, exec, "UNEXPECTED_CONTENT_LENGTH")
      \/ /\ "F_TRAILING" \in parser.flags
         /\ CALLBACK_NOTIFY(q, exec, "chunk_complete", exec.p, REEXECUTE)
      \/ "F_TRAILING" \notin parser.flags /\ HeadersComplete(r)
  BY DEF HeadersAlmostDone, Has
<1>3. "flags" \in DOMAIN r /\ r.flags = parser.flags
  BY ToFlags
<1> HIDE DEF r
<1>4. CASE Fail(parser, exec, "STRICT") \/ Fail(parser, exec, "UNEXPECTED_CONTENT_LENGTH")
  BY <1>4, HasFlags, PlainEnds, SilentOrdered
<1>5. CASE /\ "F_TRAILING" \in parser.flags
           /\ CALLBACK_NOTIFY(q, exec, "chunk_complete", exec.p, REEXECUTE)
  <2>1. Calls("chunk_complete") /\ parser'.flags = parser.flags
    BY <1>1, <1>5, ToFlags, NotifyEnds
  <2>2. "chunk_complete" \in CallbackNames /\ Makes(parser, "chunk_complete")
    BY <1>1, <1>5 DEF CallbackNames, CallbackErrors, Makes
  <2> QED
    BY <2>1, <2>2 DEF Ordered, Kept
<1>6. CASE "F_TRAILING" \notin parser.flags /\ HeadersComplete(r)
  <2>1. /\ log' = Record("headers_complete", exec.p, exec.p)
        /\ \/ REEXECUTE(r, exec) \/ REEXECUTE(skip, exec) \/ REEXECUTE(upgrade, exec)
           \/ RETURN(paused, exec, exec.p) \/ RETURN(failed, exec, exec.p)
    BY <1>6 DEF HeadersComplete
  <2>2. Calls("headers_complete")
    BY <1>1, <2>1, RecordCalls DEF Calls
  <2>3. /\ "flags" \in DOMAIN skip /\ skip.flags = parser.flags \cup {"F_SKIPBODY"}
        /\ "flags" \in DOMAIN upgrade /\ upgrade.flags = parser.flags \cup {"F_SKIPBODY"}
        /\ "flags" \in DOMAIN paused /\ paused.flags = parser.flags
        /\ "flags" \in DOMAIN failed /\ failed.flags = parser.flags
    BY <1>3
  <2> HIDE DEF skip, upgrade, paused, failed
  <2>4. parser'.flags \in {parser.flags, parser.flags \cup {"F_SKIPBODY"}}
    BY <1>3, <2>1, <2>3, EndsKeep
  <2>5. "headers_complete" \in CallbackNames /\ Makes(parser, "headers_complete")
    BY <1>1, <1>6 DEF CallbackNames, CallbackErrors, Makes
  <2> QED
    BY <2>2, <2>4, <2>5 DEF Ordered, Kept
<1> QED
  BY <1>2, <1>4, <1>5, <1>6

LEMMA HeadersDoneOrder == ASSUME IInv, HeadersDone PROVE Ordered
<1>1. parser.state = "s_headers_done" /\ log \in History
  BY InCall DEF HeadersDone, At_
<1> DEFINE q == [parser EXCEPT !.nread = 0]
           x == [exec EXCEPT !.nread = 0]
           to(s) == [q EXCEPT !.state = s]
<1>2. \/ Fail(parser, exec, "STRICT") \/ Fail(q, x, "INVALID_TRANSFER_ENCODING")
      \/ \E s : Break(to(s), x)
      \/ CALLBACK_NOTIFY(to(NEW_MESSAGE(q)), x, "message_complete", x.p + 1, Leave)
      \/ CALLBACK_NOTIFY(to(NEW_MESSAGE(q)), x, "message_complete", x.p + 1, Advance)
  BY DEF HeadersDone, Leave
<1>3. /\ "flags" \in DOMAIN q /\ q.flags = parser.flags
      /\ \A s : "flags" \in DOMAIN to(s) /\ to(s).flags = parser.flags
  BY HasFlags
<1> HIDE DEF q, x, to
<1>4. CASE \/ Fail(parser, exec, "STRICT") \/ Fail(q, x, "INVALID_TRANSFER_ENCODING")
           \/ \E s : Break(to(s), x)
  BY <1>3, <1>4, HasFlags, PlainEnds, SilentOrdered
<1>5. CASE \/ CALLBACK_NOTIFY(to(NEW_MESSAGE(q)), x, "message_complete", x.p + 1, Leave)
           \/ CALLBACK_NOTIFY(to(NEW_MESSAGE(q)), x, "message_complete", x.p + 1, Advance)
  <2>1. Calls("message_complete") /\ parser'.flags = parser.flags
    BY <1>1, <1>3, <1>5, NotifyEnds
  <2>2. "message_complete" \in CallbackNames /\ Makes(parser, "message_complete")
    BY <1>1 DEF CallbackNames, CallbackErrors, Makes
  <2> QED
    BY <2>1, <2>2 DEF Ordered, Kept
<1> QED
  BY <1>2, <1>4, <1>5

-----------------------------------------------------------------------------
(* The bodies, and the call. *)

LEMMA BodyIdentityOrder == ASSUME IInv, BodyIdentity PROVE Ordered
<1>1. parser.state = "s_body_identity" /\ log \in History
  BY InCall DEF BodyIdentity, At_
<1>2. "body" \in DataKinds /\ "body" = DatumOf(parser.state)
  BY <1>1 DEF DataKinds, DatumOf, BodyMarkStates
<1> DEFINE q == [parser EXCEPT !.content_length = @ - ToRead]
           r == [q EXCEPT !.state = "s_message_done"]
<1>3. \/ CALLBACK_DATA(r, BodyTaken, "body", BodyTaken.p, BodyTaken.p, REEXECUTE)
      \/ Break(q, BodyTaken)
  BY DEF BodyIdentity
<1>4. /\ "flags" \in DOMAIN q /\ q.flags = parser.flags
      /\ "flags" \in DOMAIN r /\ r.flags = parser.flags
  BY HasFlags
<1> HIDE DEF q, r
<1>5. (log' = log \/ Calls("body")) /\ parser'.flags = parser.flags
  BY <1>1, <1>3, <1>4, EndsKeep, DataEnds
<1> QED
  BY <1>2, <1>5, DatumOrdered

LEMMA BodySilent ==
  ASSUME IInv, BodyIdentityEof \/ ChunkSizeStart \/ ChunkSize \/ ChunkParameters \/ ChunkData
  PROVE  Silent
<1> DEFINE sized(n) == [To("s_chunk_size") EXCEPT !.content_length = n]
           longer(n) == [parser EXCEPT !.content_length = n]
           chunk(n, s) == [longer(n) EXCEPT !.state = s]
<1>1. \/ \E x : Break(parser, x)
      \/ \E s, x : Break(To(s), x)
      \/ \E error, x : Fail(parser, x, error)
      \/ \E n, x : Break(sized(n), x) \/ Break(longer(n), x)
      \/ \E n, s, x : Break(chunk(n, s), x)
  <2>1. CASE BodyIdentityEof
    BY <2>1 DEF BodyIdentityEof
  <2>2. CASE ChunkSizeStart
    BY <2>2 DEF ChunkSizeStart
  <2>3. CASE ChunkSize
    BY <2>3 DEF ChunkSize, Longer
  <2>4. CASE ChunkParameters
    BY <2>4 DEF ChunkParameters
  <2>5. CASE ChunkData
    <3> DEFINE n == parser.content_length - ToRead
               q == [parser EXCEPT !.content_length = @ - ToRead]
               s == IF q.content_length = 0 THEN "s_chunk_data_almost_done" ELSE q.state
    <3>1. Break([q EXCEPT !.state = s], BodyTaken)
      BY <2>5 DEF ChunkData
    <3>2. q = longer(n)
      OBVIOUS
    <3>3. [q EXCEPT !.state = s] = chunk(n, s)
      BY <3>2
    <3> QED
      BY <3>1, <3>3
  <2> QED
    BY <2>1, <2>2, <2>3, <2>4, <2>5
<1>2. /\ \A n : "flags" \in DOMAIN sized(n) /\ sized(n).flags = parser.flags
      /\ \A n : "flags" \in DOMAIN longer(n) /\ longer(n).flags = parser.flags
  BY HasFlags, ToFlags
<1> HIDE DEF sized, longer
<1>3. \A n, s : "flags" \in DOMAIN chunk(n, s) /\ chunk(n, s).flags = parser.flags
  BY <1>2
<1> HIDE DEF chunk
<1> QED
  BY <1>1, <1>2, <1>3, HasFlags, ToFlags, PlainEnds

LEMMA MessageDoneOrder == ASSUME IInv, MessageDone PROVE Ordered
<1>1. parser.state = "s_message_done" /\ log \in History
  BY InCall DEF MessageDone, At_
<1> DEFINE q == To(NEW_MESSAGE(parser))
<1>2. \/ CALLBACK_NOTIFY(q, exec, "message_complete", exec.p + 1, Leave)
      \/ CALLBACK_NOTIFY(q, exec, "message_complete", exec.p + 1, Advance)
  BY DEF MessageDone, Leave
<1>3. "flags" \in DOMAIN q /\ q.flags = parser.flags
  BY ToFlags
<1> HIDE DEF q
<1>4. Calls("message_complete") /\ parser'.flags = parser.flags
  BY <1>1, <1>2, <1>3, NotifyEnds
<1>5. "message_complete" \in CallbackNames /\ Makes(parser, "message_complete")
  BY <1>1 DEF CallbackNames, CallbackErrors, Makes
<1> QED
  BY <1>4, <1>5 DEF Ordered, Kept

LEMMA ChunkSizeAlmostDoneOrder == ASSUME IInv, ChunkSizeAlmostDone PROVE Ordered
<1>1. parser.state = "s_chunk_size_almost_done" /\ log \in History
  BY InCall DEF ChunkSizeAlmostDone, At_
<1>2. \/ Fail(parser, exec, "STRICT")
      \/ \E from : log' = Record("chunk_header", from, from)
  BY DEF ChunkSizeAlmostDone, CALLBACK_NOTIFY
<1>3. CASE Fail(parser, exec, "STRICT")
  BY <1>3, HasFlags, PlainEnds, SilentOrdered
<1>4. CASE \E from : log' = Record("chunk_header", from, from)
  BY <1>1, <1>4, RecordCalls DEF Ordered, Calls
<1> QED
  BY <1>2, <1>3, <1>4

LEMMA ChunkDataAlmostDoneOrder == ASSUME IInv, ChunkDataAlmostDone PROVE Ordered
<1>1. parser.state = "s_chunk_data_almost_done" /\ log \in History
  BY InCall DEF ChunkDataAlmostDone, At_
<1>2. "body" \in DataKinds /\ "body" = DatumOf(parser.state)
  BY <1>1 DEF DataKinds, DatumOf, BodyMarkStates
<1>3. \/ Fail(parser, exec, "STRICT")
      \/ CALLBACK_DATA(To("s_chunk_data_done"), exec, "body", exec.p - 1, exec.p + 1, Advance)
  BY DEF ChunkDataAlmostDone
<1>4. (log' = log \/ Calls("body")) /\ parser'.flags = parser.flags
  BY <1>1, <1>3, HasFlags, ToFlags, EndsKeep, DataEnds
<1> QED
  BY <1>2, <1>4, DatumOrdered

LEMMA ChunkDataDoneOrder == ASSUME IInv, ChunkDataDone PROVE Ordered
<1>1. parser.state = "s_chunk_data_done" /\ log \in History
  BY InCall DEF ChunkDataDone, At_
<1> DEFINE q == [To("s_chunk_size_start") EXCEPT !.nread = 0]
           x == [exec EXCEPT !.nread = 0]
<1>2. \/ Fail(parser, exec, "STRICT")
      \/ CALLBACK_NOTIFY(q, x, "chunk_complete", exec.p + 1, Advance)
  BY DEF ChunkDataDone
<1>3. "flags" \in DOMAIN q /\ q.flags = parser.flags
  BY ToFlags
<1> HIDE DEF q, x
<1>4. CASE Fail(parser, exec, "STRICT")
  BY <1>4, HasFlags, PlainEnds, SilentOrdered
<1>5. CASE CALLBACK_NOTIFY(q, x, "chunk_complete", exec.p + 1, Advance)
  <2>1. Calls("chunk_complete") /\ parser'.flags = parser.flags
    BY <1>1, <1>3, <1>5, NotifyEnds
  <2>2. "chunk_complete" \in CallbackNames /\ Makes(parser, "chunk_complete")
    BY <1>1 DEF CallbackNames, CallbackErrors, Makes
  <2> QED
    BY <2>1, <2>2 DEF Ordered, Kept
<1> QED
  BY <1>2, <1>4, <1>5

LEMMA EndOfPieceOrder == ASSUME IInv, EndOfPiece PROVE Ordered
<1>1. log \in History /\ Marking(parser, exec, LastOf(log))
  BY InCall DEF EndOfPiece, CallPcs, Sound
<1>2. \/ RETURN(parser, exec, exec.end + 1) /\ log' = log
      \/ \E m \in DataKinds :
           /\ exec.marks[m] # 0 /\ log' = Record(m, exec.marks[m], exec.end)
           /\ \/ parser' = parser
              \/ \E answer : Stop(parser, exec, m, answer, exec.end + 1)
  BY DataNames DEF EndOfPiece, CALLBACK_DATA
<1>3. CASE RETURN(parser, exec, exec.end + 1) /\ log' = log
  BY <1>3, HasFlags, EndsKeep, SilentOrdered DEF Silent
<1>4. ASSUME NEW m \in DataKinds, exec.marks[m] # 0, log' = Record(m, exec.marks[m], exec.end),
             \/ parser' = parser
             \/ \E answer : Stop(parser, exec, m, answer, exec.end + 1)
      PROVE  Ordered
  <2>1. m = DatumOf(parser.state)
    BY <1>1, <1>4 DEF Marking
  <2>2. Calls(m)
    BY <1>1, <1>4, RecordCalls DEF Calls
  <2>3. parser'.flags = parser.flags
    BY <1>4, HasFlags, EndsKeep
  <2> QED
    BY <2>1, <2>2, <2>3, DatumOrdered
<1> QED
  BY <1>2, <1>3, <1>4

LEMMA RunningOrder == ASSUME IInv, Running PROVE Ordered
<1>1. CASE Fetch
  <2>1. \/ Again(parser, exec) \/ Again(parser, Counted(exec, 1))
        \/ Fail(parser, Counted(exec, 1), "HEADER_OVERFLOW")
    BY <1>1 DEF Fetch
  <2> QED
    BY <2>1, HasFlags, PlainEnds, SilentOrdered
<1>2. CASE EndOfPiece
  BY <1>2, EndOfPieceOrder
<1>3. CASE FirstLine
  BY <1>3, DeadOrder, StartOrder, FirstLineSilent, SilentOrdered, StatusOrder, UrlOrder
     DEF FirstLine
<1>4. CASE Headers
  BY <1>4, HeaderFieldStartOrder, HeaderFieldOrder, HeaderValueBeginOrder, HeaderValueOrder,
     HeaderValueLwsOrder, HeaderValueDiscardLwsOrder, HeadersAlmostDoneOrder, HeadersDoneOrder
     DEF Headers
<1>5. CASE Body
  BY <1>5, BodyIdentityOrder, BodySilent, SilentOrdered, MessageDoneOrder,
     ChunkSizeAlmostDoneOrder, ChunkDataAlmostDoneOrder, ChunkDataDoneOrder DEF Body
<1> QED
  BY <1>1, <1>2, <1>3, <1>4, <1>5 DEF Running

LEMMA CallingOrder ==
  ASSUME IInv, Calling
  PROVE  \/ Silent
         \/ /\ parser.errno = "OK" /\ exec.pc = "idle" /\ Ordered
<1>1. ASSUME NEW n \in Pieces, Execute(n) PROVE Silent
  BY <1>1 DEF Execute, Silent
<1>2. ASSUME Resume PROVE Silent
  <2>1. parser' = [parser EXCEPT !.errno = "OK"] /\ log' = log
    BY <1>2 DEF Resume
  <2> QED
    BY <2>1, HasFlags DEF Silent
<1>3. ASSUME ExecuteEof
      PROVE  \/ Silent
             \/ /\ parser.errno = "OK" /\ exec.pc = "idle" /\ Ordered
  <2> DEFINE failed(error) == [parser EXCEPT !.errno = error]
  <2>1. \/ UNCHANGED <<parser, log>>
        \/ /\ parser.errno = "OK" /\ parser.state = "s_body_identity_eof"
           /\ log' = Record("message_complete", exec.p, exec.p)
           /\ \E error : parser' = failed(error)
        \/ log' = log /\ \E error : parser' = failed(error)
    BY <1>3 DEF ExecuteEof
  <2>2. \A error : failed(error).flags = parser.flags
    BY HasFlags
  <2> HIDE DEF failed
  <2>3. CASE \/ UNCHANGED <<parser, log>>
             \/ log' = log /\ \E error : parser' = failed(error)
    BY <2>2, <2>3 DEF Silent
  <2>4. CASE /\ parser.errno = "OK" /\ parser.state = "s_body_identity_eof"
             /\ log' = Record("message_complete", exec.p, exec.p)
             /\ \E error : parser' = failed(error)
    <3>1. Calls("message_complete")
      BY <2>4, InCall, RecordCalls DEF Calls
    <3>2. "message_complete" \in CallbackNames /\ Makes(parser, "message_complete")
      BY <2>4 DEF CallbackNames, CallbackErrors, Makes
    <3> QED
      BY <1>3, <2>2, <2>4, <3>1, <3>2 DEF Ordered, Kept, ExecuteEof
  <2> QED
    BY <2>1, <2>3, <2>4
<1> QED
  BY <1>1, <1>2, <1>3 DEF Calling

-----------------------------------------------------------------------------
(* The order of the callbacks. *)

Trailing == /\ log # <<>> /\ Last(log).callback # "message_complete"
            /\ Has(parser, "F_TRAILING")

\* The name that stands for no callback is not the name of one.
LEMMA LastKnown ==
  ASSUME NEW l \in History
  PROVE  /\ l = <<>> => LastOf(l) = "none"
         /\ l # <<>> => LastOf(l) = Last(l).callback /\ LastOf(l) # "none"
<1>1. ASSUME l # <<>> PROVE Last(l).callback \in CallbackNames
  <2> DEFINE Entry == [callback : CallbackNames, from : Nat, to : Nat]
  <2>1. l \in Seq(Entry) /\ Len(l) \in 1..Len(l)
    BY <1>1, EmptySeq DEF History
  <2>2. l[Len(l)] \in Entry
    BY <2>1, ElementOfSeq
  <2> QED
    BY <2>2 DEF Last
<1>2. "none" \notin CallbackNames
  BY DEF CallbackNames, CallbackErrors
<1> QED
  BY <1>1, <1>2 DEF LastOf

LEMMA Trails ==
  ASSUME log \in History
  PROVE  /\ Trailing \in BOOLEAN
         /\ LastOf(log) \notin {"none", "message_complete"} =>
              (Trailing <=> "F_TRAILING" \in parser.flags)
         /\ LastOf(log) \in {"none", "message_complete"} => ~Trailing
<1>1. Trailing <=> /\ log # <<>> /\ LastOf(log) # "message_complete"
                   /\ "F_TRAILING" \in parser.flags
  BY LastKnown DEF Trailing, Has
<1>2. log # <<>> <=> LastOf(log) # "none"
  BY LastKnown
<1>3. Trailing \in BOOLEAN
  BY DEF Trailing
<1> QED
  BY <1>1, <1>2, <1>3

LEMMA TrailsNext ==
  ASSUME log' \in History
  PROVE  /\ Trailing' \in BOOLEAN
         /\ LastOf(log') \notin {"none", "message_complete"} =>
              (Trailing' <=> "F_TRAILING" \in parser'.flags)
         /\ LastOf(log') \in {"none", "message_complete"} => ~Trailing'
<1>1. Trailing' <=> /\ log' # <<>> /\ LastOf(log') # "message_complete"
                    /\ "F_TRAILING" \in parser'.flags
  BY LastKnown DEF Trailing, Has
<1>2. log' # <<>> <=> LastOf(log') # "none"
  BY LastKnown
<1>3. Trailing' \in BOOLEAN
  BY DEF Trailing
<1> QED
  BY <1>1, <1>2, <1>3

\* What a state may call back is what comes after the last callback, or the
\* last callback again.
LEMMA MayFollow ==
  ASSUME log \in History, Settled(parser, LastOf(log)), NEW c, Makes(parser, c)
  PROVE  c = LastOf(log) \/ c \in Promised!After(LastOf(log))
<1> DEFINE last == LastOf(log)
<1>1. /\ Order(parser, last) /\ NoTrailers(parser)
      /\ last # "none" => log # <<>> /\ last = Last(log).callback
  BY DEF Settled, LastOf
<1> HIDE DEF last
<1>t. /\ last \notin {"none", "message_complete"} =>
           (Trailing <=> "F_TRAILING" \in parser.flags)
      /\ last \in {"none", "message_complete"} => ~Trailing
  BY Trails DEF last
<1>a. Promised!After(last) =
        CASE last = "none" -> {"message_begin"}
          [] last = "message_begin" -> {"url", "status"}
          [] last \in {"url", "status"} -> {"header_field", "headers_complete"}
          [] last = "header_field" -> {"header_value"}
          [] last = "header_value" ->
               {"header_field"} \cup IF Trailing THEN {"chunk_complete"} ELSE {"headers_complete"}
          [] last = "headers_complete" -> {"body", "chunk_header", "message_complete"}
          [] last = "body" -> {"chunk_complete", "message_complete"}
          [] last = "chunk_header" ->
               IF Trailing THEN {"header_field", "chunk_complete"} ELSE {"body"}
          [] last = "chunk_complete" ->
               IF Trailing THEN {"message_complete"} ELSE {"chunk_header"}
          [] last = "message_complete" -> {"message_begin"}
  BY DEF Promised!After, Trailing
<1>2. CASE c \in DataKinds /\ c = DatumOf(parser.state)
  <2>1. parser.state \in MarkStates
    BY <1>2 DEF DatumOf, MarkOfState, DataKinds, MarkStates, BodyMarkStates, TextMarkStates
  <2>2. CASE parser.state \in UrlStates
    <3>1. c = "url" /\ last \in {"message_begin", "url"}
      BY <1>1, <1>2, <2>2, MarkNames DEF DatumOf, BodyMarkStates, UrlStates, Order
    <3> QED
      BY <1>a, <3>1 DEF last
  <2>3. CASE parser.state = "s_res_status"
    <3>1. c = "status" /\ last \in {"message_begin", "status"}
      BY <1>1, <1>2, <2>3, MarkNames DEF DatumOf, BodyMarkStates, Order
    <3> QED
      BY <1>a, <3>1 DEF last
  <2>4. CASE parser.state = "s_header_field"
    <3>1. c = "header_field" /\ last \in BeforeLine(parser) \cup {"header_field"}
      BY <1>1, <1>2, <2>4, MarkNames DEF DatumOf, BodyMarkStates, Order
    <3> QED
      BY <1>a, <1>t, <3>1 DEF last, BeforeLine
  <2>5. CASE parser.state = "s_header_value"
    <3>1. c = "header_value" /\ last \in {"header_field", "header_value"}
      BY <1>1, <1>2, <2>5, MarkNames DEF DatumOf, BodyMarkStates, Order
    <3> QED
      BY <1>a, <3>1 DEF last
  <2>6. CASE parser.state \in BodyMarkStates
    <3>1. c = "body" /\ "F_TRAILING" \notin parser.flags
      BY <1>1, <1>2, <2>6 DEF DatumOf, BodyMarkStates, NoTrailers
    <3>2. last \in {"headers_complete", "chunk_header", "body"}
      BY <1>1, <2>6 DEF BodyMarkStates, Order
    <3> QED
      BY <1>a, <1>t, <3>1, <3>2 DEF last
  <2> QED
    BY <2>1, <2>2, <2>3, <2>4, <2>5, <2>6 DEF MarkStates, TextMarkStates
<1>3. CASE c = "header_value" /\ parser.state = "s_header_value_discard_lws"
  <2>1. last = "header_field"
    BY <1>1, <1>3 DEF Order, DiscardStates
  <2> QED
    BY <1>3, <1>a, <2>1 DEF last
<1>4. CASE c = "chunk_complete" /\ parser.state = "s_chunk_data_done"
  <2>1. last = "body"
    BY <1>1, <1>4 DEF Order
  <2> QED
    BY <1>4, <1>a, <2>1 DEF last
<1>5. CASE /\ c = "chunk_complete" /\ parser.state = "s_headers_almost_done"
           /\ "F_TRAILING" \in parser.flags
  <2>1. last \in {"chunk_header", "header_value"}
    BY <1>1, <1>5 DEF Order, LineStartStates, BeforeLine
  <2> QED
    BY <1>5, <1>a, <1>t, <2>1 DEF last
<1>6. CASE /\ c = "headers_complete" /\ parser.state = "s_headers_almost_done"
           /\ "F_TRAILING" \notin parser.flags
  <2>1. last \in {"url", "status", "header_value"}
    BY <1>1, <1>6 DEF Order, LineStartStates, BeforeLine
  <2> QED
    BY <1>6, <1>a, <1>t, <2>1 DEF last
<1>7. CASE c = "message_complete" /\ parser.state \in {"s_headers_done", "s_body_identity_eof"}
  <2>1. last \in {"headers_complete", "body"}
    BY <1>1, <1>7 DEF Order
  <2> QED
    BY <1>7, <1>a, <2>1 DEF last
<1>8. CASE c = "message_complete" /\ parser.state = "s_message_done"
  <2>1. last = IF "F_TRAILING" \in parser.flags THEN "chunk_complete" ELSE "body"
    BY <1>1, <1>8 DEF Order
  <2> QED
    BY <1>8, <1>a, <1>t, <2>1 DEF last
<1> QED
  BY <1>2, <1>3, <1>4, <1>5, <1>6, <1>7, <1>8 DEF Makes

PromisedStep == [Promised!Next]_<<LastOf(log), Trailing>>

LEMMA CallStep ==
  ASSUME NEW c, c \in Promised!After(LastOf(log)), LastOf(log') = c,
         \/ c = "chunk_header"
         \/ c = "message_complete" /\ Trailing' = FALSE
         \/ c \notin {"chunk_header", "message_complete"} /\ Trailing' = Trailing
  PROVE  PromisedStep
<1>1. Trailing' \in BOOLEAN
  BY DEF Trailing
<1>2. Promised!Call(c)
  BY <1>1 DEF Promised!Call, LastOf, Trailing
<1> QED
  BY <1>2 DEF PromisedStep, Promised!Next, LastOf

LEMMA OrderedPromised ==
  ASSUME log \in History, log' \in History, Settled(parser, LastOf(log)), Ordered
  PROVE  PromisedStep
<1>0. /\ Trailing \in BOOLEAN /\ Trailing' \in BOOLEAN
      /\ LastOf(log) \notin {"none", "message_complete"} =>
           (Trailing <=> "F_TRAILING" \in parser.flags)
      /\ LastOf(log) \in {"none", "message_complete"} => ~Trailing
      /\ LastOf(log') \notin {"none", "message_complete"} =>
           (Trailing' <=> "F_TRAILING" \in parser'.flags)
      /\ LastOf(log') \in {"none", "message_complete"} => ~Trailing'
  BY Trails, TrailsNext
<1>s. (Trailing' <=> Trailing) => Trailing' = Trailing
  BY <1>0
<1>e. LastOf(log)' = LastOf(log')
  BY DEF LastOf
<1>1. CASE log' = log /\ (Kept \/ parser.state \in StartStates)
  <2>1. parser.state \in StartStates => LastOf(log) \in {"none", "message_complete"}
    BY DEF Settled, Order
  <2>2. LastOf(log') = LastOf(log)
    BY <1>1
  <2>3. Trailing' <=> Trailing
    BY <1>0, <1>1, <2>1, <2>2 DEF Kept
  <2> QED
    BY <1>e, <1>s, <2>2, <2>3 DEF PromisedStep
<1>2. ASSUME Kept, NEW c \in CallbackNames, Makes(parser, c), Calls(c) PROVE PromisedStep
  <2>1. LastOf(log') = c /\ c \notin {"none", "chunk_header", "message_begin"}
    BY <1>2 DEF Calls, Makes, CallbackNames, CallbackErrors, DataKinds
  <2>2. CASE c = LastOf(log)
    <3>1. Trailing' <=> Trailing
      BY <1>0, <1>2, <2>1, <2>2 DEF Kept
    <3> QED
      BY <1>e, <1>s, <2>1, <2>2, <3>1 DEF PromisedStep
  <2>3. CASE c # LastOf(log)
    <3>1. c \in Promised!After(LastOf(log))
      BY <1>2, <2>3, MayFollow
    <3>2. c = "message_complete" => Trailing' = FALSE
      BY <1>0, <2>1
    <3>3. c # "message_complete" => (Trailing' <=> Trailing)
      <4>1. LastOf(log) \notin {"none", "message_complete"}
        BY <2>1, <3>1 DEF Promised!After
      <4> QED
        BY <1>0, <1>2, <2>1, <4>1 DEF Kept
    <3> QED
      BY <1>s, <2>1, <3>1, <3>2, <3>3, CallStep
  <2> QED
    BY <2>2, <2>3
<1>3. CASE /\ parser.state \in StartStates /\ Calls("message_begin")
           /\ "F_TRAILING" \notin parser'.flags
  <2>1. LastOf(log) \in {"none", "message_complete"} /\ LastOf(log') = "message_begin"
    BY <1>3 DEF Settled, Order, Calls
  <2>2. "message_begin" \in Promised!After(LastOf(log))
    BY <2>1 DEF Promised!After
  <2>3. Trailing' <=> Trailing
    BY <1>0, <1>3, <2>1
  <2> QED
    BY <1>s, <2>1, <2>2, <2>3, CallStep
<1>4. CASE parser.state = "s_chunk_size_almost_done" /\ Calls("chunk_header")
  <2>1. /\ LastOf(log) \in {"headers_complete", "chunk_complete"}
        /\ "F_TRAILING" \notin parser.flags
    BY <1>4 DEF Settled, Order, NoTrailers, SizeStates
  <2>2. ~Trailing
    BY <1>0, <2>1
  <2>3. "chunk_header" \in Promised!After(LastOf(log))
    BY <2>1, <2>2 DEF Promised!After, Trailing
  <2> QED
    BY <1>4, <2>3, CallStep DEF Calls
<1> QED
  BY <1>1, <1>2, <1>3, <1>4 DEF Ordered

\* The callbacks are made in the order CallbackOrder states, whatever is sent,
\* however it is cut, wherever a callback pauses the parser or refuses
\* (http_parser.c:641-2154).
THEOREM OrderOfCallbacks == Spec => CallbacksInOrder
<1>1. Init => Promised!Init
  BY DEF Init, Promised!Init
<1>2. IInv /\ IInv' /\ [Next]_vars => PromisedStep
  <2> SUFFICES ASSUME IInv, IInv', [Next]_vars PROVE PromisedStep
    OBVIOUS
  <2>0. log \in History /\ log' \in History
    BY DEF IInv, Inv
  <2>1. ASSUME Silent PROVE PromisedStep
    BY <2>1 DEF Silent, PromisedStep, Trailing, Has, LastOf
  <2>2. ASSUME parser.errno = "OK", exec.pc # "closed", Ordered PROVE PromisedStep
    BY <2>0, <2>2, InCall, OrderedPromised DEF Sound
  <2>3. CASE Running
    <3>1. exec.pc \in CallPcs /\ parser.errno = "OK" /\ exec.pc # "closed"
      BY <2>3, RunningInCall, InCall DEF CallPcs
    <3> QED
      BY <2>2, <2>3, <3>1, RunningOrder
  <2>4. CASE Calling
    BY <2>1, <2>2, <2>4, CallingOrder
  <2>5. CASE UNCHANGED vars
    BY <2>1, <2>5 DEF vars, Silent
  <2> QED
    BY <2>3, <2>4, <2>5 DEF Next, Finished
<1>3. PromisedStep <=> [Promised!Next]_<<IF log = <<>> THEN "none" ELSE Last(log).callback,
                                         /\ log # <<>> /\ Last(log).callback # "message_complete"
                                         /\ Has(parser, "F_TRAILING")>>
  BY DEF PromisedStep, LastOf, Trailing
<1> QED
  BY <1>1, <1>2, <1>3, Invariance, PTL DEF Spec, CallbacksInOrder, Promised!Spec

-----------------------------------------------------------------------------
(* The limit.  No headers longer than max_header_size are called complete   *)
(* by a parser whose caller drops the results, as the program does.         *)
(*                                                                          *)
(* The bytes of a message that are not counted yet lie behind its head:     *)
(* wherever a call stands, the next byte is no further from the byte at     *)
(* which the message began than nread says.  The bytes of a name or a       *)
(* value are counted when its loop ends, so in a loop it is the byte at     *)
(* which the loop began that counts.                                        *)

HeadCallbacks == {"message_begin", "url", "status", "header_field", "header_value"}

\* The head of a message is read, and not its trailers.
InHead(q, l) == LastOf(l) \in HeadCallbacks /\ "F_TRAILING" \notin q.flags

\* BeginOf, of any history.
BeginIn(l, k) == Max({j \in 1..k : l[j].callback = "message_begin"})
HeadFrom(l) == l[BeginIn(l, Len(l))].from

\* What the count lacks of the position behind the last byte it counts.
Lag(q, x) ==
  CASE x.pc = "idle" -> x.p - q.nread
    [] x.pc = "fetch" -> x.p - x.nread
    [] x.pc = "switch" -> x.p + 1 - x.nread
    [] x.pc = "loop" -> x.start + 1 - x.nread

Capped(q, x) ==
  x.pc \in {"switch", "loop"} /\ q.state \notin BodyStates => x.nread \in 1..MaxHeaderSize

Near(q, x, l) ==
  q.errno = "OK" /\ x.pc # "closed" /\ InHead(q, l) => Lag(q, x) <= HeadFrom(l)

\* Each callback belongs to a message.
Grounded(l) == \A k \in 1..Len(l) : BeginIn(l, k) \in 1..k

WithinLimit(l) ==
  \A k \in 1..Len(l) : l[k].callback = "headers_complete" =>
    l[k].to + 1 - l[BeginIn(l, k)].from <= MaxHeaderSize

LimitInv ==
  Capped(parser, exec) /\ Near(parser, exec, log) /\ Grounded(log) /\ WithinLimit(log)

-----------------------------------------------------------------------------
(* Where the message of a callback began. *)

LEMMA BeginSame ==
  ASSUME NEW l, NEW m, NEW k, \A j \in 1..k : m[j].callback = l[j].callback
  PROVE  BeginIn(m, k) = BeginIn(l, k)
<1>1. {j \in 1..k : m[j].callback = "message_begin"} = {j \in 1..k : l[j].callback = "message_begin"}
  OBVIOUS
<1> QED
  BY <1>1 DEF BeginIn

LEMMA BeginHere ==
  ASSUME NEW l, NEW k \in Nat \ {0}, l[k].callback = "message_begin"
  PROVE  BeginIn(l, k) = k
<1> DEFINE S == {j \in 1..k : l[j].callback = "message_begin"}
<1>1. k \in S /\ \A j \in S : j \in Nat /\ k >= j
  OBVIOUS
<1> HIDE DEF S
<1>2. PICK m : m = Max(S)
  OBVIOUS
<1>3. m \in S /\ m >= k
  BY <1>1, <1>2 DEF Max
<1>4. m \in Nat /\ k >= m
  BY <1>1, <1>3
<1>5. m = k
  BY <1>3, <1>4
<1> QED
  BY <1>2, <1>5 DEF S, BeginIn

LEMMA BeginBefore ==
  ASSUME NEW l, NEW k \in Nat, l[k + 1].callback # "message_begin"
  PROVE  BeginIn(l, k + 1) = BeginIn(l, k)
<1>1. {j \in 1..(k + 1) : l[j].callback = "message_begin"} = {j \in 1..k : l[j].callback = "message_begin"}
  OBVIOUS
<1> QED
  BY <1>1 DEF BeginIn

\* What Record leaves of the history: the names and the beginnings.
LEMMA RecordShape ==
  ASSUME log \in History, NEW c, NEW from, NEW to, NEW l, l = Record(c, from, to)
  PROVE  /\ Len(log) \in Nat
         /\ \A k \in 1..Len(log) : l[k].callback = log[k].callback /\ l[k].from = log[k].from
         /\ \/ /\ Len(l) = Len(log) + 1
               /\ l[Len(l)] = [callback |-> c, from |-> from, to |-> to]
               /\ \A k \in 1..Len(log) : l[k] = log[k]
            \/ /\ Len(l) = Len(log) /\ LastOf(log) = c
               /\ \A k \in 1..Len(log) : k # Len(log) => l[k] = log[k]
               /\ Len(log) # 0 /\ log[Len(log)].callback = c
<1> DEFINE Entry == [callback : CallbackNames, from : Nat, to : Nat]
           n == Len(log)
           e == [log[n] EXCEPT !.to = to]
           f == [callback |-> c, from |-> from, to |-> to]
           S == Entry \cup {e, f}
<1>1. log \in Seq(Entry)
  BY DEF History
<1>2. log \in Seq(S)
  <2> HIDE DEF Entry, e, f
  <2> QED
    BY <1>1
<1>3. CASE log # <<>> /\ Last(log).callback = c /\ Last(log).to + 1 = from
  <2>1. l = [log EXCEPT ![n] = e]
    BY <1>3 DEF Record
  <2>2. n \in 1..Len(log) /\ log[n] \in Entry
    <3> HIDE DEF Entry
    <3>1. Len(log) \in Nat /\ Len(log) # 0
      BY <1>1, <1>3, EmptySeq
    <3> QED
      BY <1>1, <3>1
  <2>3. e.callback = log[n].callback /\ e.from = log[n].from /\ e \in S
    BY <2>2
  <2> HIDE DEF Entry, e, f, S
  <2>4. l \in Seq(S) /\ Len(l) = n /\ l[n] = e /\ n \in Nat
        /\ \A k \in 1..Len(log) : k # n => l[k] = log[k]
    BY <1>2, <2>1, <2>2, <2>3
  <2>5. LastOf(log) = c /\ log[n].callback = c
    BY <1>3 DEF LastOf, Last
  <2>6. \A k \in 1..Len(log) : l[k].callback = log[k].callback /\ l[k].from = log[k].from
    BY <2>3, <2>4
  <2> QED
    BY <2>2, <2>4, <2>5, <2>6
<1>4. CASE ~(log # <<>> /\ Last(log).callback = c /\ Last(log).to + 1 = from)
  <2>1. l = Append(log, f)
    BY <1>4 DEF Record
  <2>2. f \in S
    OBVIOUS
  <2> HIDE DEF Entry, e, S
  <2>3. l \in Seq(S) /\ Len(l) = n + 1 /\ l[n + 1] = f /\ n \in Nat
        /\ \A k \in 1..Len(log) : l[k] = log[k]
    <3> HIDE DEF f
    <3> QED
      BY <1>2, <2>1, <2>2
  <2> QED
    BY <2>3
<1> QED
  BY <1>3, <1>4

\* The entries of a history, one by one.
LEMMA EntryOf ==
  ASSUME NEW l \in History, NEW k \in 1..Len(l)
  PROVE  l[k].callback \in CallbackNames /\ l[k].from \in Nat /\ l[k].to \in Nat
<1> DEFINE Entry == [callback : CallbackNames, from : Nat, to : Nat]
<1>1. l \in Seq(Entry)
  BY DEF History
<1>2. l[k] \in Entry
  BY <1>1, ElementOfSeq
<1> QED
  BY <1>2

LEMMA LastEntry ==
  ASSUME NEW l \in History
  PROVE  /\ Len(l) \in Nat
         /\ Len(l) = 0 => LastOf(l) = "none"
         /\ Len(l) # 0 => LastOf(l) = l[Len(l)].callback
<1> DEFINE Entry == [callback : CallbackNames, from : Nat, to : Nat]
<1>1. l \in Seq(Entry)
  BY DEF History
<1> HIDE DEF Entry
<1>2. Len(l) \in Nat /\ (Len(l) = 0 <=> l = <<>>)
  BY <1>1, EmptySeq
<1> QED
  BY <1>2 DEF LastOf, Last

-----------------------------------------------------------------------------
(* A step and the history. *)

Logs ==
  \/ log' = log
  \/ \E c, from, to :
       /\ log' = Record(c, from, to)
       /\ c = "message_begin" => exec.pc = "switch" /\ from = exec.p
       /\ c = "headers_complete" => exec.pc = "switch" /\ to = exec.p

\* The order of the callbacks: a message begins, and its headers are complete,
\* after callbacks of other names, and its head has no callbacks but its own.
LEMMA HeadFollows ==
  ASSUME log \in History, log' \in History, Settled(parser, LastOf(log)), Ordered
  PROVE  /\ InHead(parser', log') =>
              \/ InHead(parser, log)
              \/ log' # log /\ LastOf(log') = "message_begin"
         /\ log' # log =>
              /\ LastOf(log) = "none" => LastOf(log') = "message_begin"
              /\ LastOf(log') = "message_begin" =>
                   parser.state \in StartStates /\ LastOf(log) \in {"none", "message_complete"}
              /\ LastOf(log') = "headers_complete" =>
                   /\ InHead(parser, log) /\ LastOf(log) # "headers_complete"
                   /\ parser.state = "s_headers_almost_done"
<1> DEFINE last == LastOf(log)
<1>t. /\ last \notin {"none", "message_complete"} =>
           (Trailing <=> "F_TRAILING" \in parser.flags)
      /\ last \in {"none", "message_complete"} => ~Trailing
  BY Trails
<1>n. last \in {"none"} \cup CallbackNames
  BY LastEntry, EntryOf
<1>o. parser.state \in StartStates => last \in {"none", "message_complete"}
  BY DEF Settled, Order
<1>1. CASE log' = log /\ (Kept \/ parser.state \in StartStates)
  BY <1>1, <1>o DEF InHead, Kept, HeadCallbacks
<1>2. ASSUME Kept, NEW c \in CallbackNames, Makes(parser, c), Calls(c)
      PROVE  /\ InHead(parser', log') => InHead(parser, log)
             /\ last # "none" /\ LastOf(log') # "message_begin"
             /\ LastOf(log') = "headers_complete" =>
                  /\ InHead(parser, log) /\ last # "headers_complete"
                  /\ parser.state = "s_headers_almost_done"
  <2>1. LastOf(log') = c /\ c \notin {"none", "message_begin"}
    BY <1>2 DEF Calls, Makes, CallbackNames, CallbackErrors, DataKinds
  <2>2. c = last \/ c \in Promised!After(last)
    BY <1>2, MayFollow
  <2>3. last # "none"
    BY <2>1, <2>2 DEF Promised!After
  <2>4. ASSUME InHead(parser', log') PROVE InHead(parser, log)
    <3>1. c \in HeadCallbacks /\ "F_TRAILING" \notin parser.flags
      BY <1>2, <2>1, <2>4 DEF InHead, Kept
    <3>2. last \in HeadCallbacks
      <4>1. CASE c = last
        BY <3>1, <4>1
      <4>2. CASE c \in Promised!After(last)
        <5>1. c \in {"url", "status", "header_field", "header_value"}
          BY <2>1, <3>1 DEF HeadCallbacks
        <5>2. last \in {"chunk_header"} \cup HeadCallbacks
          BY <1>n, <4>2, <5>1 DEF Promised!After, HeadCallbacks, CallbackNames, CallbackErrors
        <5>3. last = "chunk_header" => ~Trailing
          BY <1>t, <3>1
        <5>4. last = "chunk_header" /\ ~Trailing => Promised!After(last) = {"body"}
          BY DEF Promised!After, Trailing
        <5> QED
          BY <4>2, <5>1, <5>2, <5>3, <5>4
      <4> QED
        BY <2>2, <4>1, <4>2
    <3> QED
      BY <3>1, <3>2 DEF InHead
  <2>5. ASSUME c = "headers_complete"
        PROVE  /\ InHead(parser, log) /\ last # "headers_complete"
               /\ parser.state = "s_headers_almost_done"
    <3>1. parser.state = "s_headers_almost_done" /\ "F_TRAILING" \notin parser.flags
      BY <1>2, <2>5 DEF Makes, DataKinds
    <3>2. last \in {"url", "status", "header_value"}
      BY <3>1 DEF Settled, Order, LineStartStates, BeforeLine
    <3> QED
      BY <3>1, <3>2 DEF InHead, HeadCallbacks
  <2> QED
    BY <2>1, <2>3, <2>4, <2>5
<1>3. CASE /\ parser.state \in StartStates /\ Calls("message_begin")
           /\ "F_TRAILING" \notin parser'.flags
  <2>1. log' # log
    BY <1>3, <1>o DEF Calls
  <2> QED
    BY <1>3, <1>o, <2>1 DEF Calls
<1>4. CASE parser.state = "s_chunk_size_almost_done" /\ Calls("chunk_header")
  <2>1. LastOf(log') = "chunk_header" /\ last \in {"headers_complete", "chunk_complete"}
    BY <1>4 DEF Calls, Settled, Order, SizeStates
  <2> QED
    BY <2>1 DEF InHead, HeadCallbacks
<1> QED
  BY <1>1, <1>2, <1>3, <1>4 DEF Ordered

\* Nothing is forgotten of the messages logged, and headers that are complete
\* end where the count says.
LEMMA LogStep ==
  ASSUME IInv, log' \in History, Settled(parser, LastOf(log)), LimitInv, Logs, Ordered,
         parser.errno = "OK", exec.pc # "closed"
  PROVE  /\ Grounded(log') /\ WithinLimit(log')
         /\ InHead(parser', log') =>
              \/ InHead(parser, log) /\ HeadFrom(log') = HeadFrom(log)
              \/ exec.pc = "switch" /\ parser.state \in StartStates /\ HeadFrom(log') = exec.p
<1> DEFINE n == Len(log)
<1>0. log \in History /\ n \in Nat /\ Grounded(log) /\ WithinLimit(log)
  BY InCall, LastEntry DEF LimitInv
<1>f. /\ InHead(parser', log') =>
           \/ InHead(parser, log)
           \/ log' # log /\ LastOf(log') = "message_begin"
      /\ log' # log =>
           /\ LastOf(log) = "none" => LastOf(log') = "message_begin"
           /\ LastOf(log') = "message_begin" =>
                parser.state \in StartStates /\ LastOf(log) \in {"none", "message_complete"}
           /\ LastOf(log') = "headers_complete" =>
                /\ InHead(parser, log) /\ LastOf(log) # "headers_complete"
                /\ parser.state = "s_headers_almost_done"
  BY <1>0, HeadFollows
<1>1. CASE log' = log
  <2>1. Grounded(log') /\ WithinLimit(log') /\ HeadFrom(log') = HeadFrom(log)
    BY <1>0, <1>1
  <2> QED
    BY <1>1, <1>f, <2>1
<1>2. ASSUME log' # log, NEW c, NEW from, NEW to, log' = Record(c, from, to),
             c = "message_begin" => exec.pc = "switch" /\ from = exec.p,
             c = "headers_complete" => exec.pc = "switch" /\ to = exec.p
      PROVE  /\ Grounded(log') /\ WithinLimit(log')
             /\ InHead(parser', log') =>
                  \/ InHead(parser, log) /\ HeadFrom(log') = HeadFrom(log)
                  \/ /\ exec.pc = "switch" /\ parser.state \in StartStates
                     /\ HeadFrom(log') = exec.p
  <2>1. LastOf(log') = c
    BY <1>0, <1>2, RecordCalls
  <2>2. /\ \A k \in 1..n : log'[k].callback = log[k].callback /\ log'[k].from = log[k].from
        /\ \/ /\ Len(log') = n + 1
              /\ log'[Len(log')] = [callback |-> c, from |-> from, to |-> to]
              /\ \A k \in 1..n : log'[k] = log[k]
           \/ /\ Len(log') = n /\ LastOf(log) = c
              /\ \A k \in 1..n : k # n => log'[k] = log[k]
              /\ n # 0 /\ log[n].callback = c
    BY <1>0, <1>2, RecordShape
  <2>3. \A k \in 1..n : BeginIn(log', k) = BeginIn(log, k)
    BY <1>0, <2>2, BeginSame
  <2>4. \A k \in 1..n : BeginIn(log', k) \in 1..k /\ log'[BeginIn(log', k)].from = log[BeginIn(log, k)].from
    BY <1>0, <2>2, <2>3 DEF Grounded
  <2>5. CASE Len(log') = n /\ LastOf(log) = c /\ (\A k \in 1..n : k # n => log'[k] = log[k])
             /\ n # 0 /\ log[n].callback = c
    <3>1. c \notin {"message_begin", "headers_complete"}
      BY <1>2, <1>f, <2>1, <2>5
    <3>2. Grounded(log')
      BY <2>4, <2>5 DEF Grounded
    <3>3. WithinLimit(log')
      BY <1>0, <2>2, <2>4, <2>5, <3>1 DEF WithinLimit
    <3>4. HeadFrom(log') = HeadFrom(log)
      BY <1>0, <2>4, <2>5 DEF HeadFrom
    <3> QED
      BY <1>f, <2>1, <3>1, <3>2, <3>3, <3>4
  <2>6. CASE Len(log') = n + 1 /\ (\A k \in 1..n : log'[k] = log[k])
             /\ log'[Len(log')] = [callback |-> c, from |-> from, to |-> to]
    <3>1. CASE c = "message_begin"
      <4>1. BeginIn(log', n + 1) = n + 1
        BY <1>0, <2>6, <3>1, BeginHere
      <4>2. Grounded(log')
        BY <1>0, <2>4, <2>6, <4>1 DEF Grounded
      <4>3. WithinLimit(log')
        BY <1>0, <2>4, <2>6, <3>1 DEF WithinLimit
      <4>4. HeadFrom(log') = exec.p
        BY <1>2, <2>6, <3>1, <4>1 DEF HeadFrom
      <4> QED
        BY <1>2, <1>f, <2>1, <3>1, <4>2, <4>3, <4>4
    <3>2. CASE c # "message_begin"
      <4>1. n # 0
        BY <1>0, <1>2, <1>f, <2>1, <3>2, LastEntry
      <4>2. BeginIn(log', n + 1) = BeginIn(log', n)
        BY <1>0, <2>6, <3>2, BeginBefore
      <4>3. Grounded(log')
        BY <1>0, <2>4, <2>6, <4>1, <4>2 DEF Grounded
      <4>4. HeadFrom(log') = HeadFrom(log)
        BY <1>0, <2>4, <2>6, <4>1, <4>2 DEF HeadFrom
      <4>5. ASSUME c = "headers_complete"
            PROVE  to + 1 - HeadFrom(log') <= MaxHeaderSize
        <5>1. InHead(parser, log) /\ parser.state = "s_headers_almost_done" /\ exec.pc = "switch"
          BY <1>2, <1>f, <2>1, <4>5
        <5>2. exec.p + 1 - exec.nread <= HeadFrom(log) /\ exec.nread \in 1..MaxHeaderSize
          BY <5>1 DEF LimitInv, Near, Capped, Lag, BodyStates
        <5>3. exec.p \in Nat /\ HeadFrom(log) \in Nat /\ MaxHeaderSize \in Nat
          <6>1. BeginIn(log, n) \in 1..n
            BY <1>0, <4>1 DEF Grounded
          <6> QED
            BY <1>0, <6>1, InCall, EntryOf, ParserAssumption DEF IsLocals, HeadFrom
        <5> QED
          BY <1>2, <4>4, <4>5, <5>1, <5>2, <5>3
      <4>6. WithinLimit(log')
        <5> SUFFICES ASSUME NEW k \in 1..Len(log'), log'[k].callback = "headers_complete"
                     PROVE  log'[k].to + 1 - log'[BeginIn(log', k)].from <= MaxHeaderSize
          BY DEF WithinLimit
        <5>1. CASE k \in 1..n
          BY <1>0, <2>4, <2>6, <5>1 DEF WithinLimit
        <5>2. CASE k = n + 1
          BY <2>6, <4>5, <5>2 DEF HeadFrom
        <5> QED
          BY <1>0, <2>6, <5>1, <5>2
      <4> QED
        BY <1>f, <2>1, <3>2, <4>3, <4>4, <4>6
    <3> QED
      BY <3>1, <3>2
  <2> QED
    BY <2>2, <2>5, <2>6
<1> QED
  BY <1>1, <1>2 DEF Logs

-----------------------------------------------------------------------------
(* A step and the count. *)

\* Where the count stands when the step is over, if the call goes on.
CountsOn ==
  \/ parser'.errno # "OK"
  \/ exec'.pc = "fetch" /\ exec'.p - exec'.nread = LoopStart + 1 - exec.nread
  \/ /\ exec'.pc = "switch" /\ exec'.p - exec'.nread = LoopStart - exec.nread
     /\ exec'.nread \in exec.nread..MaxHeaderSize
  \/ exec'.pc = "loop" /\ exec'.start = LoopStart /\ exec'.nread = exec.nread

\* Local variables that count what exec does.
Even(x) ==
  /\ {"pc", "p", "nread", "start", "marks"} \subseteq DOMAIN x
  /\ x.p \in Nat /\ x.nread \in Nat /\ exec.nread \in Nat /\ LoopStart \in Nat
  /\ x.p - x.nread = LoopStart - exec.nread /\ x.nread >= exec.nread

Goes == Logs /\ CountsOn

LEMMA EvenExec ==
  ASSUME IInv, exec.pc = "switch"
  PROVE  /\ Even(exec) /\ \A data : Even(MARK(exec, data)) /\ MARK(exec, data).nread = exec.nread
<1>1. Even(exec)
  BY InCall DEF IsLocals, Even, LoopStart
<1>2. ASSUME NEW data PROVE Even(MARK(exec, data)) /\ MARK(exec, data).nread = exec.nread
  <2>1. PICK m : MARK(exec, data) = exec \/ MARK(exec, data) = [exec EXCEPT !.marks = m]
    BY DEF MARK
  <2> QED
    BY <1>1, <2>1 DEF Even
<1> QED
  BY <1>1, <1>2

LEMMA EvenEnds ==
  ASSUME NEW q, NEW x, Even(x), \/ Advance(q, x)
                                \/ REEXECUTE(q, x) /\ x.nread <= MaxHeaderSize
  PROVE  CountsOn
<1>0. /\ exec.nread <= x.nread /\ x.nread \in Nat /\ x.p \in Nat
      /\ exec.nread \in Nat /\ LoopStart \in Nat /\ MaxHeaderSize \in Nat
      /\ x.p - x.nread = LoopStart - exec.nread
  BY ParserAssumption DEF Even
<1>1. CASE Advance(q, x)
  <2>1. exec'.pc = "fetch" /\ exec'.p = x.p + 1 /\ exec'.nread = x.nread
    BY <1>1 DEF Advance, Even
  <2> QED
    BY <1>0, <2>1 DEF CountsOn
<1>2. CASE REEXECUTE(q, x) /\ x.nread <= MaxHeaderSize
  <2>1. exec'.pc = "switch" /\ exec'.p = x.p /\ exec'.nread = x.nread
    BY <1>2 DEF REEXECUTE, Even
  <2> QED
    BY <1>0, <1>2, <2>1 DEF CountsOn
<1> QED
  BY <1>1, <1>2

\* After an error nothing is asked of the count.
LEMMA FailsOn ==
  ASSUME NEW q, "errno" \in DOMAIN q, NEW x
  PROVE  /\ \A error : error # "OK" /\ Fail(q, x, error) => Goes
         /\ \A c \in CallbackNames : \A answer, next : Stop(q, x, c, answer, next) => CountsOn
<1>1. ASSUME NEW error, error # "OK", Fail(q, x, error) PROVE Goes
  BY <1>1 DEF Fail, RETURN, Goes, Logs, CountsOn
<1>2. ASSUME NEW c \in CallbackNames, NEW answer, NEW next, Stop(q, x, c, answer, next)
      PROVE  CountsOn
  <2>1. CallbackErrors[c] # "OK"
    BY DEF CallbackNames, CallbackErrors
  <2> QED
    BY <1>2, <2>1 DEF Stop, CountsOn
<1> QED
  BY <1>1, <1>2

LEMMA PlainGoes ==
  ASSUME NEW q, NEW x, Even(x), \/ Break(q, x)
                                \/ Again(q, x) /\ x.nread <= MaxHeaderSize
  PROVE  Goes
BY EvenEnds DEF Break, Again, Goes, Logs

LEMMA LoopGoes ==
  ASSUME IInv, NEW q, NEW next, Loop(q, next) PROVE Goes
<1>1. exec' = [exec EXCEPT !.pc = "loop", !.start = LoopStart, !.p = next] /\ log' = log
  BY DEF Loop
<1>2. exec'.pc = "loop" /\ exec'.start = LoopStart /\ exec'.nread = exec.nread
  BY <1>1, InCall DEF IsLocals
<1> QED
  BY <1>1, <1>2 DEF Goes, Logs, CountsOn

LEMMA NotifyGoes ==
  ASSUME NEW q, "errno" \in DOMAIN q, NEW x, Even(x), exec.pc = "switch", x.p = exec.p,
         NEW c \in CallbackNames, NEW next,
         \/ CALLBACK_NOTIFY(q, x, c, next, Advance)
         \/ CALLBACK_NOTIFY(q, x, c, next, REEXECUTE) /\ x.nread <= MaxHeaderSize
  PROVE  Goes
<1>1. /\ log' = Record(c, x.p, x.p)
      /\ \/ Advance(q, x) \/ (REEXECUTE(q, x) /\ x.nread <= MaxHeaderSize)
         \/ \E answer : Stop(q, x, c, answer, next)
  BY DEF CALLBACK_NOTIFY
<1>2. Logs
  BY <1>1 DEF Logs
<1>3. CountsOn
  BY <1>1, EvenEnds, FailsOn
<1> QED
  BY <1>2, <1>3 DEF Goes

LEMMA DataLogs ==
  ASSUME NEW data \in DataKinds, NEW from, NEW to, log' = Record(data, from, to)
  PROVE  Logs
BY DEF DataKinds, Logs

LEMMA EvenUnmark ==
  ASSUME NEW x, Even(x), NEW data
  PROVE  Even(Unmark(x, data)) /\ Unmark(x, data).nread = x.nread
BY DEF Even, Unmark

LEMMA DataGoes ==
  ASSUME NEW q, "errno" \in DOMAIN q, NEW x, Even(x), NEW data \in DataKinds, NEW to, NEW next,
         \/ CALLBACK_DATA(q, x, data, to, next, Advance)
         \/ CALLBACK_DATA(q, x, data, to, next, REEXECUTE) /\ x.nread <= MaxHeaderSize
  PROVE  Goes
<1> DEFINE y == Unmark(x, data)
<1>1. \/ /\ log' = log
         /\ Advance(q, x) \/ (REEXECUTE(q, x) /\ x.nread <= MaxHeaderSize)
      \/ /\ log' = Record(data, x.marks[data], to)
         /\ \/ Advance(q, y) \/ (REEXECUTE(q, y) /\ x.nread <= MaxHeaderSize)
            \/ \E answer : Stop(q, x, data, answer, next)
  BY DEF CALLBACK_DATA, Unmark
<1>2. Even(y) /\ y.nread = x.nread
  BY EvenUnmark
<1>3. data \in CallbackNames
  BY DEF DataKinds, CallbackNames, CallbackErrors
<1> HIDE DEF y
<1>4. CountsOn
  BY <1>1, <1>2, <1>3, EvenEnds, FailsOn
<1>5. Logs
  BY <1>1, DataLogs DEF Logs
<1> QED
  BY <1>4, <1>5 DEF Goes

-----------------------------------------------------------------------------
(* The first line. *)

LEMMA HasErrno ==
  ASSUME IInv
  PROVE  /\ "errno" \in DOMAIN parser /\ "errno" \in DOMAIN NewMessage(parser)
         /\ \A s : "errno" \in DOMAIN To(s)
BY InCall DEF IsStruct, NewMessage, To

LEMMA SwitchGoes ==
  ASSUME IInv, exec.pc = "switch", exec.nread <= MaxHeaderSize
  PROVE  /\ \A q : Break(q, exec) \/ Again(q, exec) => Goes
         /\ \A q, data : Break(q, MARK(exec, data)) \/ Again(q, MARK(exec, data)) => Goes
         /\ \A x, error : error # "OK" /\ Fail(parser, x, error) => Goes
         /\ \A x, error : error # "OK" /\ Fail(NewMessage(parser), x, error) => Goes
         /\ \A s, x, error : error # "OK" /\ Fail(To(s), x, error) => Goes
<1>1. \A q : Break(q, exec) \/ Again(q, exec) => Goes
  BY EvenExec, PlainGoes
<1>2. ASSUME NEW q, NEW data, Break(q, MARK(exec, data)) \/ Again(q, MARK(exec, data)) PROVE Goes
  <2>1. Even(MARK(exec, data)) /\ MARK(exec, data).nread = exec.nread
    BY EvenExec
  <2> QED
    BY <1>2, <2>1, PlainGoes
<1> QED
  BY <1>1, <1>2, HasErrno, FailsOn

\* A message begins, or not yet.
LEMMA StartGoes ==
  ASSUME IInv, exec.nread <= MaxHeaderSize, StartReqOrRes \/ StartRes \/ StartReq PROVE Goes
<1>1. exec.pc = "switch"
  BY DEF StartReqOrRes, StartRes, StartReq, At_
<1>2. \/ \E q : Break(q, exec) \/ Again(q, exec)
      \/ Fail(NewMessage(parser), exec, "INVALID_CONSTANT")
      \/ Fail(NewMessage(parser), exec, "INVALID_METHOD")
      \/ \E q : /\ "errno" \in DOMAIN q
                /\ CALLBACK_NOTIFY(q, exec, "message_begin", exec.p + 1, Advance)
  <2>1. CASE StartReqOrRes
    <3> DEFINE q == [NewMessage(parser) EXCEPT !.state = "s_res_or_resp_H"]
    <3>1. "errno" \in DOMAIN q
      BY HasErrno
    <3> QED
      BY <2>1, <3>1 DEF StartReqOrRes
  <2>2. CASE StartRes
    <3> DEFINE q == [NewMessage(parser) EXCEPT !.state = "s_res_H"]
    <3>1. "errno" \in DOMAIN q
      BY HasErrno
    <3> QED
      BY <2>2, <3>1 DEF StartRes
  <2>3. CASE StartReq
    <3> DEFINE r == [NewMessage(parser) EXCEPT !.index = 1]
               q == [r EXCEPT !.method = MethodOfLetter[ch], !.state = "s_req_method"]
    <3>1. "errno" \in DOMAIN q
      BY HasErrno
    <3> QED
      BY <2>3, <3>1 DEF StartReq
  <2> QED
    BY <2>1, <2>2, <2>3
<1>3. "message_begin" \in CallbackNames
  BY DEF CallbackNames, CallbackErrors
<1>4. ASSUME NEW q, "errno" \in DOMAIN q,
             CALLBACK_NOTIFY(q, exec, "message_begin", exec.p + 1, Advance)
      PROVE  Goes
  BY <1>1, <1>3, <1>4, EvenExec, NotifyGoes
<1> QED
  BY <1>1, <1>2, <1>4, SwitchGoes

LEMMA FirstLineGoes ==
  ASSUME IInv, exec.nread <= MaxHeaderSize,
         \/ Dead \/ ResOrRespH \/ Literal \/ Version \/ FirstStatusCode \/ StatusCode
         \/ StatusStart \/ Method \/ SpacesBeforeUrl \/ HttpStart \/ HttpEnd
  PROVE  Goes
<1>1. exec.pc = "switch"
  BY DEF Dead, ResOrRespH, Literal, Version, FirstStatusCode, StatusCode, StatusStart, Method,
         SpacesBeforeUrl, HttpStart, HttpEnd, At_
<1> USE <1>1, SwitchGoes
<1>2. Dead => Goes
  BY DEF Dead
<1>3. ResOrRespH => Goes
  BY DEF ResOrRespH
<1>4. Literal => Goes
  BY LiteralError DEF Literal, At_
<1>5. Version => Goes
  BY DEF Version
<1>6. FirstStatusCode => Goes
  BY DEF FirstStatusCode
<1>7. ASSUME StatusCode PROVE Goes
  <2>1. (\E q : Break(q, exec) \/ Again(q, exec)) \/ Fail(parser, exec, "INVALID_STATUS")
    BY <1>7 DEF StatusCode
  <2> QED
    BY <2>1
<1>8. ASSUME StatusStart PROVE Goes
  <2>1. \E q : Break(q, MARK(exec, "status")) \/ Again(q, MARK(exec, "status"))
    BY <1>8 DEF StatusStart
  <2> QED
    BY <2>1
<1>9. ASSUME Method PROVE Goes
  <2>1. (\E q : Break(q, exec)) \/ Fail(parser, exec, "INVALID_METHOD")
    BY <1>9 DEF Method
  <2> QED
    BY <2>1
<1>10. ASSUME SpacesBeforeUrl PROVE Goes
  <2>1. \/ Break(parser, exec)
        \/ \E s : Break(To(s), MARK(exec, "url"))
        \/ Fail(To("s_dead"), MARK(exec, "url"), "INVALID_URL")
    BY <1>10 DEF SpacesBeforeUrl
  <2> QED
    BY <2>1
<1>11. HttpStart => Goes
  BY DEF HttpStart
<1>12. HttpEnd => Goes
  BY DEF HttpEnd
<1> QED
  BY <1>2, <1>3, <1>4, <1>5, <1>6, <1>7, <1>8, <1>9, <1>10, <1>11, <1>12

LEMMA StatusGoes == ASSUME IInv, exec.nread <= MaxHeaderSize, Status PROVE Goes
<1>1. exec.pc = "switch" /\ "status" \in DataKinds
  BY DEF Status, At_, DataKinds
<1>2. \/ Break(parser, exec)
      \/ \E s : CALLBACK_DATA(To(s), exec, "status", exec.p - 1, exec.p + 1, Advance)
  BY DEF Status
<1>3. ASSUME NEW s, CALLBACK_DATA(To(s), exec, "status", exec.p - 1, exec.p + 1, Advance)
      PROVE  Goes
  BY <1>1, <1>3, HasErrno, EvenExec, DataGoes
<1> QED
  BY <1>1, <1>2, <1>3, SwitchGoes

LEMMA UrlGoes == ASSUME IInv, exec.nread <= MaxHeaderSize, Url PROVE Goes
<1>1. exec.pc = "switch" /\ "url" \in DataKinds
  BY DEF Url, At_, DataKinds
<1> DEFINE old(s) == [To(s) EXCEPT !.http_major = 0, !.http_minor = 9]
<1>2. \/ \E s : Break(To(s), exec) \/ Fail(To(s), exec, "INVALID_URL")
      \/ Fail(parser, exec, "INVALID_URL")
      \/ \E s : \/ CALLBACK_DATA(To(s), exec, "url", exec.p - 1, exec.p + 1, Advance)
                \/ CALLBACK_DATA(old(s), exec, "url", exec.p - 1, exec.p + 1, Advance)
  BY DEF Url
<1>3. \A s : "errno" \in DOMAIN To(s) /\ "errno" \in DOMAIN old(s)
  BY HasErrno
<1> HIDE DEF old
<1>4. ASSUME NEW q, "errno" \in DOMAIN q,
             CALLBACK_DATA(q, exec, "url", exec.p - 1, exec.p + 1, Advance)
      PROVE  Goes
  BY <1>1, <1>4, EvenExec, DataGoes
<1> QED
  BY <1>1, <1>2, <1>3, <1>4, SwitchGoes

-----------------------------------------------------------------------------
(* The headers. *)

\* The bytes of a loop, counted when it ends.
LEMMA EvenCounted ==
  ASSUME IInv, exec.pc \in {"switch", "loop"}, NEW x,
         {"pc", "p", "nread", "start", "marks"} \subseteq DOMAIN x,
         x.p \in Nat, x.nread = exec.nread, x.p >= LoopStart
  PROVE  Even(Counted(x, x.p - LoopStart))
<1>1. exec.nread \in Nat /\ LoopStart \in Nat
  BY InCall DEF IsLocals, LoopStart
<1> QED
  BY <1>1 DEF Counted, Even

\* A loop begins in its piece, and not behind the byte at hand.
LEMMA LoopPlace ==
  ASSUME IInv, exec.pc \in {"switch", "loop"}
  PROVE  /\ LoopStart <= exec.p /\ LoopStart <= exec.end
         /\ exec.p \in Nat /\ exec.end \in Nat
         /\ {"pc", "p", "nread", "start", "marks"} \subseteq DOMAIN exec
BY InCall DEF IsLocals, Place, LoopStart

LEMMA LoopRunsOutGoes ==
  ASSUME IInv, exec.pc \in {"switch", "loop"}, LoopRunsOut PROVE Goes
<1> DEFINE x == [exec EXCEPT !.p = exec.end, !.start = 0]
<1>1. \/ Fail(parser, x, "HEADER_OVERFLOW")
      \/ Break(parser, Counted(x, exec.end - LoopStart))
  BY DEF LoopRunsOut
<1>2. /\ {"pc", "p", "nread", "start", "marks"} \subseteq DOMAIN x
      /\ x.p = exec.end /\ x.nread = exec.nread
  BY LoopPlace
<1> HIDE DEF x
<1>3. Even(Counted(x, exec.end - LoopStart))
  BY <1>2, LoopPlace, EvenCounted
<1> QED
  BY <1>1, <1>3, HasErrno, FailsOn, PlainGoes

\* The byte that ends a loop is at hand.
Ended(x) == Counted([x EXCEPT !.start = 0], x.p - LoopStart)

LEMMA EvenEnded ==
  ASSUME IInv, exec.pc \in {"switch", "loop"}, NEW data
  PROVE  Even(Ended(exec)) /\ Even(Ended(Unmark(exec, data)))
<1> DEFINE x == [exec EXCEPT !.start = 0]
           y == [Unmark(exec, data) EXCEPT !.start = 0]
<1>1. /\ {"pc", "p", "nread", "start", "marks"} \subseteq DOMAIN x
      /\ x.p = exec.p /\ x.nread = exec.nread
  BY LoopPlace
<1>2. /\ {"pc", "p", "nread", "start", "marks"} \subseteq DOMAIN y
      /\ y.p = exec.p /\ y.nread = exec.nread /\ Unmark(exec, data).p = exec.p
  BY LoopPlace DEF Unmark
<1> HIDE DEF x, y
<1>3. Even(Counted(x, exec.p - LoopStart)) /\ Even(Counted(y, exec.p - LoopStart))
  BY <1>1, <1>2, LoopPlace, EvenCounted
<1> QED
  BY <1>2, <1>3 DEF Ended, x, y

LEMMA HeaderFieldGoes == ASSUME IInv, HeaderField PROVE Goes
<1>1. exec.pc \in {"switch", "loop"} /\ "header_field" \in DataKinds
  BY DEF HeaderField, InLoop, DataKinds
<1> DEFINE x == Ended(exec)
<1>2. \/ LoopRunsOut \/ \E q, next : Loop(q, next)
      \/ Fail(parser, x, "HEADER_OVERFLOW") \/ Fail(parser, x, "INVALID_HEADER_TOKEN")
      \/ CALLBACK_DATA(To("s_header_value_discard_ws"), x, "header_field", x.p - 1, x.p + 1, Advance)
  BY DEF HeaderField, Ended
<1>3. Even(x)
  BY <1>1, EvenEnded
<1> HIDE DEF x
<1>4. CASE LoopRunsOut
  BY <1>1, <1>4, LoopRunsOutGoes
<1>5. CASE \E q, next : Loop(q, next)
  BY <1>5, LoopGoes
<1>6. CASE Fail(parser, x, "HEADER_OVERFLOW") \/ Fail(parser, x, "INVALID_HEADER_TOKEN")
  BY <1>6, HasErrno, FailsOn
<1>7. CASE CALLBACK_DATA(To("s_header_value_discard_ws"), x, "header_field", x.p - 1, x.p + 1, Advance)
  BY <1>1, <1>3, <1>7, HasErrno, DataGoes
<1> QED
  BY <1>2, <1>4, <1>5, <1>6, <1>7

LEMMA StartValueGoes ==
  ASSUME IInv, exec.pc = "switch", exec.nread <= MaxHeaderSize, StartValue(parser) PROVE Goes
<1> DEFINE start == [parser EXCEPT !.state = "s_header_value", !.index = 0]
           x == MARK(exec, "header_value")
<1>1. \/ \E q : Break(q, x)
      \/ Fail(start, x, "INVALID_CONTENT_LENGTH") \/ Fail(start, x, "UNEXPECTED_CONTENT_LENGTH")
  BY DEF StartValue
<1>2. "errno" \in DOMAIN start
  BY HasErrno
<1> HIDE DEF start
<1>3. CASE \E q : Break(q, x)
  BY <1>3, SwitchGoes
<1> QED
  BY <1>1, <1>2, <1>3, FailsOn

LEMMA HeaderLineGoes ==
  ASSUME IInv, exec.nread <= MaxHeaderSize,
         HeaderFieldStart \/ HeaderValueDiscardWs \/ HeaderValueStart \/ HeaderValueLws
  PROVE  Goes
<1>1. exec.pc = "switch"
  BY DEF HeaderFieldStart, HeaderValueDiscardWs, HeaderValueStart, HeaderValueLws, At_
<1> USE <1>1, SwitchGoes
<1>2. HeaderFieldStart => Goes
  BY DEF HeaderFieldStart
<1>3. HeaderValueDiscardWs => Goes
  BY StartValueGoes DEF HeaderValueDiscardWs
<1>4. HeaderValueStart => Goes
  BY StartValueGoes DEF HeaderValueStart
<1>5. ASSUME HeaderValueLws PROVE Goes
  <2>1. \E q : Again(q, exec)
    BY <1>5 DEF HeaderValueLws
  <2> QED
    BY <2>1
<1> QED
  BY <1>2, <1>3, <1>4, <1>5

LEMMA HeaderValueGoes == ASSUME IInv, HeaderValue PROVE Goes
<1>1. exec.pc \in {"switch", "loop"} /\ "header_value" \in DataKinds
  BY DEF HeaderValue, InLoop, DataKinds
<1> DEFINE q == To("s_header_almost_done")
           x == Ended(exec)
           y == Ended(Unmark(exec, "header_value"))
<1>2. \/ LoopRunsOut \/ CrValue(exec) \/ LfValue(exec)
      \/ Fail(parser, exec, "INVALID_HEADER_TOKEN")
      \/ Fail(parser, exec, "INVALID_CONTENT_LENGTH")
      \/ \E r, next : Loop(r, next)
  BY DEF HeaderValue, GeneralValue
<1>3. Even(x) /\ Even(y) /\ "errno" \in DOMAIN q
  BY <1>1, EvenEnded, HasErrno
<1>4. CASE \/ LoopRunsOut \/ Fail(parser, exec, "INVALID_HEADER_TOKEN")
           \/ Fail(parser, exec, "INVALID_CONTENT_LENGTH")
           \/ \E r, next : Loop(r, next)
  BY <1>1, <1>4, LoopRunsOutGoes, HasErrno, FailsOn, LoopGoes
<1>5. CASE CrValue(exec)
  <2>1. /\ log' = log \/ \E from, to : log' = Record("header_value", from, to)
        /\ \/ Advance(q, x) \/ Advance(q, y)
           \/ \E z, next : RETURN([q EXCEPT !.errno = "HEADER_OVERFLOW"], z, next)
           \/ \E answer, next : Stop(q, exec, "header_value", answer, next)
    BY <1>5 DEF CrValue, CALLBACK_DATA, Ended, Unmark
  <2> HIDE DEF q, x, y
  <2>2. Logs
    BY <1>1, <2>1, DataLogs DEF Logs
  <2>3. CASE Advance(q, x) \/ Advance(q, y)
    BY <1>3, <2>2, <2>3, EvenEnds DEF Goes
  <2>4. CASE \E z, next : RETURN([q EXCEPT !.errno = "HEADER_OVERFLOW"], z, next)
    BY <1>3, <2>2, <2>4 DEF RETURN, Goes, CountsOn
  <2>5. CASE \E answer, next : Stop(q, exec, "header_value", answer, next)
    <3>1. "header_value" \in CallbackNames
      BY DEF CallbackNames, CallbackErrors
    <3> QED
      BY <1>3, <2>2, <2>5, <3>1, FailsOn DEF Goes
  <2> QED
    BY <2>1, <2>3, <2>4, <2>5
<1>6. CASE LfValue(exec)
  <2>1. \/ Fail(q, x, "HEADER_OVERFLOW")
        \/ /\ ~Overflows(x, 0)
           /\ CALLBACK_DATA(q, x, "header_value", exec.p - 1, exec.p, REEXECUTE)
    BY <1>6 DEF LfValue, Ended
  <2> HIDE DEF q, x, y
  <2>2. ~Overflows(x, 0) => x.nread <= MaxHeaderSize
    BY <1>3, ParserAssumption DEF Overflows, Even
  <2> QED
    BY <1>1, <1>3, <2>1, <2>2, FailsOn, DataGoes
<1> QED
  BY <1>2, <1>4, <1>5, <1>6

LEMMA HeaderValueDiscardLwsGoes ==
  ASSUME IInv, exec.nread <= MaxHeaderSize, HeaderValueDiscardLws PROVE Goes
<1>1. exec.pc = "switch" /\ "header_value" \in DataKinds
  BY DEF HeaderValueDiscardLws, At_, DataKinds
<1> DEFINE w == WithFinalFlag(parser)
           q == [w EXCEPT !.state = "s_header_field_start"]
           x == MARK(exec, "header_value")
<1>2. \/ \E r : Break(r, exec)
      \/ Fail(parser, exec, "INVALID_CONTENT_LENGTH")
      \/ CALLBACK_DATA(q, x, "header_value", exec.p - 1, exec.p, REEXECUTE)
  BY DEF HeaderValueDiscardLws
<1>3. "errno" \in DOMAIN q /\ Even(x) /\ x.nread = exec.nread
  <2>1. "errno" \in DOMAIN w
    BY HasErrno DEF WithFinalFlag
  <2> HIDE DEF w
  <2> QED
    BY <1>1, <2>1, EvenExec
<1> HIDE DEF q, x
<1>4. CASE CALLBACK_DATA(q, x, "header_value", exec.p - 1, exec.p, REEXECUTE)
  BY <1>1, <1>3, <1>4, DataGoes
<1> QED
  BY <1>1, <1>2, <1>4, SwitchGoes

LEMMA HeadersAlmostDoneGoes ==
  ASSUME IInv, exec.nread <= MaxHeaderSize, HeadersAlmostDone PROVE Goes
<1>1. exec.pc = "switch"
  BY DEF HeadersAlmostDone, At_
<1> DEFINE q == To("s_message_done")
           r == [To("s_headers_done") EXCEPT !.upgrade = Upgrades(parser)]
<1>2. \/ Fail(parser, exec, "STRICT") \/ Fail(parser, exec, "UNEXPECTED_CONTENT_LENGTH")
      \/ CALLBACK_NOTIFY(q, exec, "chunk_complete", exec.p, REEXECUTE)
      \/ HeadersComplete(r)
  BY DEF HeadersAlmostDone
<1>3. "errno" \in DOMAIN q /\ "errno" \in DOMAIN r
  BY HasErrno
<1> HIDE DEF q, r
<1>4. CASE CALLBACK_NOTIFY(q, exec, "chunk_complete", exec.p, REEXECUTE)
  <2>1. "chunk_complete" \in CallbackNames
    BY DEF CallbackNames, CallbackErrors
  <2> QED
    BY <1>1, <1>3, <1>4, <2>1, EvenExec, NotifyGoes
<1>5. CASE HeadersComplete(r)
  <2>1. /\ log' = Record("headers_complete", exec.p, exec.p)
        /\ \/ \E s : REEXECUTE(s, exec)
           \/ RETURN([r EXCEPT !.errno = "PAUSED"], exec, exec.p)
           \/ RETURN([r EXCEPT !.errno = "CB_headers_complete"], exec, exec.p)
    BY <1>5 DEF HeadersComplete
  <2>2. Logs
    BY <1>1, <2>1 DEF Logs
  <2>3. CASE \E s : REEXECUTE(s, exec)
    BY <1>1, <2>2, <2>3, EvenExec, EvenEnds DEF Goes
  <2>4. CASE \/ RETURN([r EXCEPT !.errno = "PAUSED"], exec, exec.p)
             \/ RETURN([r EXCEPT !.errno = "CB_headers_complete"], exec, exec.p)
    BY <1>3, <2>2, <2>4 DEF RETURN, Goes, CountsOn
  <2> QED
    BY <2>1, <2>3, <2>4
<1> QED
  BY <1>1, <1>2, <1>4, <1>5, SwitchGoes

-----------------------------------------------------------------------------
(* The bodies. *)

\* A step in a body: the next byte, the end of the call, or a state of a body.
Stays == exec'.pc \notin {"switch", "loop"} \/ parser'.state \in BodyStates

LEMMA StayingEnds ==
  ASSUME NEW q, NEW x, "pc" \in DOMAIN x
  PROVE  /\ Advance(q, x) => Stays
         /\ \A next : RETURN(q, x, next) => Stays
         /\ \A c, answer, next : Stop(q, x, c, answer, next) => Stays
         /\ \A error : Fail(q, x, error) => Logs /\ Stays
         /\ Break(q, x) => Logs /\ Stays
         /\ REEXECUTE(q, x) /\ q.state \in BodyStates => Stays
<1>1. \A next : "pc" \in DOMAIN Returned(x, next) /\ Returned(x, next).pc = "idle"
  BY DEF Returned
<1> QED
  BY <1>1 DEF Advance, RETURN, Stop, Fail, Break, REEXECUTE, Stays, Logs

LEMMA BodyNotify ==
  ASSUME NEW q, NEW x, "pc" \in DOMAIN x, x.p = exec.p, exec.pc = "switch", NEW c, NEW next,
         \/ CALLBACK_NOTIFY(q, x, c, next, Advance)
         \/ CALLBACK_NOTIFY(q, x, c, next, Leave)
  PROVE  Logs /\ Stays
<1>1. /\ log' = Record(c, x.p, x.p)
      /\ \/ Advance(q, x) \/ RETURN(q, x, x.p + 1)
         \/ \E answer : Stop(q, x, c, answer, next)
  BY DEF CALLBACK_NOTIFY, Leave
<1>2. Logs
  BY <1>1 DEF Logs
<1> QED
  BY <1>1, <1>2, StayingEnds

LEMMA BodyData ==
  ASSUME NEW q, NEW x, "pc" \in DOMAIN x, NEW to, NEW next,
         \/ CALLBACK_DATA(q, x, "body", to, next, Advance)
         \/ CALLBACK_DATA(q, x, "body", to, next, REEXECUTE) /\ q.state \in BodyStates
  PROVE  Logs /\ Stays
<1> DEFINE y == Unmark(x, "body")
<1>1. \/ /\ log' = log
         /\ Advance(q, x) \/ (REEXECUTE(q, x) /\ q.state \in BodyStates)
      \/ /\ log' = Record("body", x.marks["body"], to)
         /\ \/ Advance(q, y) \/ (REEXECUTE(q, y) /\ q.state \in BodyStates)
            \/ \E answer : Stop(q, x, "body", answer, next)
  BY DEF CALLBACK_DATA, Unmark
<1>2. "pc" \in DOMAIN y
  BY DEF Unmark
<1> HIDE DEF y
<1>3. Stays
  BY <1>1, <1>2, StayingEnds
<1>4. "body" \in DataKinds
  BY DEF DataKinds
<1>5. Logs
  BY <1>1, <1>4, DataLogs DEF Logs
<1> QED
  BY <1>3, <1>5

LEMMA HasPc ==
  ASSUME IInv
  PROVE  /\ "pc" \in DOMAIN exec /\ "pc" \in DOMAIN BodyTaken
         /\ "pc" \in DOMAIN [exec EXCEPT !.nread = 0] /\ [exec EXCEPT !.nread = 0].p = exec.p
<1>1. "pc" \in DOMAIN exec /\ "p" \in DOMAIN exec
  BY InCall DEF IsLocals
<1>2. "pc" \in DOMAIN MARK(exec, "body")
  BY <1>1 DEF MARK
<1> QED
  BY <1>1, <1>2 DEF BodyTaken

LEMMA HeadersDoneStays == ASSUME IInv, HeadersDone PROVE Logs /\ Stays
<1>1. exec.pc = "switch"
  BY DEF HeadersDone, At_
<1> DEFINE q == [parser EXCEPT !.nread = 0]
           x == [exec EXCEPT !.nread = 0]
           over == [q EXCEPT !.state = NEW_MESSAGE(q)]
<1>2. \/ Fail(parser, exec, "STRICT") \/ Fail(q, x, "INVALID_TRANSFER_ENCODING")
      \/ \E r : Break(r, x)
      \/ CALLBACK_NOTIFY(over, x, "message_complete", x.p + 1, Leave)
      \/ CALLBACK_NOTIFY(over, x, "message_complete", x.p + 1, Advance)
  BY DEF HeadersDone, Leave
<1>3. "pc" \in DOMAIN x /\ x.p = exec.p /\ "pc" \in DOMAIN exec
  BY HasPc
<1> HIDE DEF q, x, over
<1> QED
  BY <1>1, <1>2, <1>3, StayingEnds, BodyNotify

LEMMA BodyStays == ASSUME IInv, Body PROVE Logs /\ Stays
<1>1. exec.pc = "switch"
  BY DEF Body, BodyIdentity, BodyIdentityEof, MessageDone, ChunkSizeStart, ChunkSize,
         ChunkParameters, ChunkSizeAlmostDone, ChunkData, ChunkDataAlmostDone, ChunkDataDone, At_
<1>2. CASE BodyIdentity
  <2> DEFINE q == [parser EXCEPT !.content_length = @ - ToRead]
             r == [q EXCEPT !.state = "s_message_done"]
  <2>1. \/ CALLBACK_DATA(r, BodyTaken, "body", BodyTaken.p, BodyTaken.p, REEXECUTE)
        \/ Break(q, BodyTaken)
    BY <1>2 DEF BodyIdentity
  <2>2. r.state \in BodyStates
    <3>1. "state" \in DOMAIN q
      BY InCall DEF IsStruct
    <3> QED
      BY <3>1 DEF BodyStates
  <2> HIDE DEF q, r
  <2> QED
    BY <2>1, <2>2, HasPc, BodyData, StayingEnds
<1>3. CASE BodyIdentityEof
  <2> DEFINE x == [MARK(exec, "body") EXCEPT !.p = exec.end]
  <2>1. Break(parser, x)
    BY <1>3 DEF BodyIdentityEof
  <2>2. "pc" \in DOMAIN x
    BY HasPc DEF MARK
  <2> QED
    BY <2>1, <2>2, StayingEnds
<1>4. CASE MessageDone
  <2>1. \/ CALLBACK_NOTIFY(To(NEW_MESSAGE(parser)), exec, "message_complete", exec.p + 1, Leave)
        \/ CALLBACK_NOTIFY(To(NEW_MESSAGE(parser)), exec, "message_complete", exec.p + 1, Advance)
    BY <1>4 DEF MessageDone, Leave
  <2> QED
    BY <1>1, <2>1, HasPc, BodyNotify
<1>5. CASE ChunkSizeStart \/ ChunkSize \/ ChunkParameters
  <2>1. (\E q : Break(q, exec)) \/ \E error : Fail(parser, exec, error)
    BY <1>5 DEF ChunkSizeStart, ChunkSize, ChunkParameters
  <2> QED
    BY <2>1, HasPc, StayingEnds
<1>6. CASE ChunkSizeAlmostDone
  <2> DEFINE x == [exec EXCEPT !.nread = 0]
  <2>1. \/ Fail(parser, exec, "STRICT")
        \/ \E q : CALLBACK_NOTIFY(q, x, "chunk_header", exec.p + 1, Advance)
    BY <1>6 DEF ChunkSizeAlmostDone
  <2>2. "pc" \in DOMAIN x /\ x.p = exec.p
    BY HasPc
  <2> HIDE DEF x
  <2> QED
    BY <1>1, <2>1, <2>2, HasPc, StayingEnds, BodyNotify
<1>7. CASE ChunkData
  <2>1. \E q : Break(q, BodyTaken)
    BY <1>7 DEF ChunkData
  <2> QED
    BY <2>1, HasPc, StayingEnds
<1>8. CASE ChunkDataAlmostDone
  <2>1. \/ Fail(parser, exec, "STRICT")
        \/ CALLBACK_DATA(To("s_chunk_data_done"), exec, "body", exec.p - 1, exec.p + 1, Advance)
    BY <1>8 DEF ChunkDataAlmostDone
  <2> QED
    BY <2>1, HasPc, StayingEnds, BodyData
<1>9. CASE ChunkDataDone
  <2> DEFINE x == [exec EXCEPT !.nread = 0]
             q == [To("s_chunk_size_start") EXCEPT !.nread = 0]
  <2>1. \/ Fail(parser, exec, "STRICT")
        \/ CALLBACK_NOTIFY(q, x, "chunk_complete", exec.p + 1, Advance)
    BY <1>9 DEF ChunkDataDone
  <2>2. "pc" \in DOMAIN x /\ x.p = exec.p
    BY HasPc
  <2> HIDE DEF x, q
  <2> QED
    BY <1>1, <2>1, <2>2, HasPc, StayingEnds, BodyNotify
<1> QED
  BY <1>2, <1>3, <1>4, <1>5, <1>6, <1>7, <1>8, <1>9 DEF Body

-----------------------------------------------------------------------------
(* The steps. *)

LimitNext ==
  /\ Capped(parser', exec') /\ Near(parser', exec', log')
  /\ Grounded(log') /\ WithinLimit(log')

LEMMA CallSettled ==
  ASSUME IInv, exec.pc \in CallPcs
  PROVE  /\ parser.errno = "OK" /\ exec.pc # "closed"
         /\ Settled(parser, LastOf(log)) /\ log \in History
BY InCall DEF CallPcs, Sound

\* In the states of a body no head is read.
LEMMA NoHead ==
  ASSUME Settled(parser, LastOf(log)),
         parser.state \in BodyStates \cup SizeStates \cup {"s_headers_done"}
  PROVE  ~InHead(parser, log) /\ parser.state \notin StartStates
<1>1. LastOf(log) \in {"headers_complete", "body", "chunk_complete", "chunk_header"}
  BY DEF Settled, Order, BodyStates, SizeStates
<1>2. parser.state \notin StartStates
  BY DEF BodyStates, SizeStates, StartStates
<1> QED
  BY <1>1, <1>2 DEF InHead, HeadCallbacks

LEMMA HeadLimit ==
  ASSUME IInv, IInv', LimitInv, exec.pc \in {"switch", "loop"}, parser.state \notin BodyStates,
         Goes, Ordered
  PROVE  LimitNext
<1>1. /\ parser.errno = "OK" /\ exec.pc # "closed"
      /\ Settled(parser, LastOf(log)) /\ log' \in History
  BY CallSettled DEF CallPcs, IInv, Inv
<1>2. /\ Grounded(log') /\ WithinLimit(log')
      /\ InHead(parser', log') =>
           \/ InHead(parser, log) /\ HeadFrom(log') = HeadFrom(log)
           \/ exec.pc = "switch" /\ parser.state \in StartStates /\ HeadFrom(log') = exec.p
  BY <1>1, LogStep DEF Goes
<1>3. /\ exec.nread \in 1..MaxHeaderSize /\ MaxHeaderSize \in Nat /\ LoopStart \in Nat
      /\ exec.p \in Nat
  BY InCall, ParserAssumption DEF LimitInv, Capped, IsLocals, LoopStart
<1>4. /\ exec'.pc \in {"idle", "fetch", "switch", "loop", "closed"}
      /\ exec'.pc \in {"switch", "loop"} => parser'.errno = "OK"
      /\ exec'.p \in Nat /\ exec'.nread \in Nat /\ Len(stream') \in Nat
  <2>1. /\ exec'.pc \in {"idle", "fetch", "switch", "loop", "closed"}
        /\ exec'.pc \in {"switch", "loop"} => parser'.errno = "OK"
        /\ exec'.p \in 1..Len(stream') + 1 /\ exec'.nread \in Nat /\ stream' \in Streams
    BY DEF IInv, Inv, IsLocals, CallPcs
  <2>2. Len(stream') \in Nat
    BY <2>1, ParserAssumption
  <2> QED
    BY <2>1, <2>2
<1>5. Capped(parser', exec')
  BY <1>3, <1>4 DEF Goes, CountsOn, Capped
<1>6. ASSUME parser'.errno = "OK", InHead(parser', log')
      PROVE  Lag(parser', exec') <= HeadFrom(log')
  <2>1. LoopStart + 1 - exec.nread <= HeadFrom(log') /\ HeadFrom(log') \in Nat
    <3>1. CASE InHead(parser, log) /\ HeadFrom(log') = HeadFrom(log)
      <4>1. Lag(parser, exec) <= HeadFrom(log)
        BY <1>1, <3>1 DEF LimitInv, Near
      <4>2. Lag(parser, exec) = LoopStart + 1 - exec.nread
        BY DEF Lag, LoopStart
      <4>3. HeadFrom(log) \in Nat
        <5>1. log \in History /\ Len(log) \in Nat /\ Len(log) # 0
          BY <3>1, CallSettled, LastEntry DEF CallPcs, InHead, HeadCallbacks
        <5>2. BeginIn(log, Len(log)) \in 1..Len(log)
          BY <5>1 DEF LimitInv, Grounded
        <5> QED
          BY <5>1, <5>2, EntryOf DEF HeadFrom
      <4> QED
        BY <3>1, <4>1, <4>2, <4>3
    <3>2. CASE exec.pc = "switch" /\ HeadFrom(log') = exec.p
      BY <1>3, <3>2 DEF LoopStart
    <3> QED
      BY <1>2, <1>6, <3>1, <3>2
  <2>2. CASE exec'.pc = "fetch" /\ exec'.p - exec'.nread = LoopStart + 1 - exec.nread
    BY <2>1, <2>2 DEF Lag
  <2>3. CASE exec'.pc = "switch" /\ exec'.p - exec'.nread = LoopStart - exec.nread
    <3>1. Lag(parser', exec') = exec'.p + 1 - exec'.nread
      BY <2>3 DEF Lag
    <3>2. Lag(parser', exec') = LoopStart + 1 - exec.nread
      <4> DEFINE pos == exec'.p
                 count == exec'.nread
                 begin == LoopStart
      <4>1. pos \in Nat /\ count \in Nat /\ begin \in Nat /\ exec.nread \in Nat
            /\ pos - count = begin - exec.nread
        BY <1>3, <1>4, <2>3
      <4> HIDE DEF pos, count, begin
      <4>2. pos + 1 - count = begin + 1 - exec.nread
        BY <4>1
      <4> QED
        BY <3>1, <4>2 DEF pos, count, begin
    <3> QED
      BY <2>1, <3>2
  <2>4. CASE exec'.pc = "loop" /\ exec'.start = LoopStart /\ exec'.nread = exec.nread
    BY <2>1, <2>4 DEF Lag
  <2> QED
    BY <1>6, <2>2, <2>3, <2>4 DEF Goes, CountsOn
<1> QED
  BY <1>2, <1>5, <1>6 DEF LimitNext, Near

LEMMA BodyLimit ==
  ASSUME IInv, IInv', LimitInv, exec.pc = "switch",
         parser.state \in BodyStates \cup SizeStates \cup {"s_headers_done"},
         Logs, Stays, Ordered
  PROVE  LimitNext
<1>1. /\ parser.errno = "OK" /\ exec.pc # "closed"
      /\ Settled(parser, LastOf(log)) /\ log' \in History
  BY CallSettled DEF CallPcs, IInv, Inv
<1>2. Grounded(log') /\ WithinLimit(log') /\ ~InHead(parser', log')
  BY <1>1, NoHead, LogStep
<1> QED
  BY <1>2 DEF LimitNext, Capped, Near, Stays

\* A step that logs nothing and leaves the struct's flags.
LEMMA SameLog ==
  ASSUME LimitInv, Silent
  PROVE  /\ Grounded(log') /\ WithinLimit(log')
         /\ InHead(parser', log') <=> InHead(parser, log)
         /\ HeadFrom(log') = HeadFrom(log)
<1>1. log' = log /\ parser'.flags = parser.flags
  BY DEF Silent
<1> QED
  BY <1>1 DEF LimitInv, InHead

LEMMA FetchLimit == ASSUME IInv, LimitInv, Fetch PROVE LimitNext
<1>1. /\ exec.pc = "fetch" /\ parser.errno = "OK" /\ Settled(parser, LastOf(log))
      /\ IsLocals(exec) /\ MaxHeaderSize \in Nat
  BY CallSettled, InCall, ParserAssumption DEF Fetch, CallPcs
<1>2. \/ parser.state \in BodyStates /\ Again(parser, exec)
      \/ ~Overflows(exec, 1) /\ Again(parser, Counted(exec, 1))
      \/ Fail(parser, Counted(exec, 1), "HEADER_OVERFLOW")
  BY DEF Fetch, PARSING_HEADER
<1>3. Silent
  BY <1>2, HasFlags, PlainEnds
<1>4. CASE parser.state \in BodyStates /\ Again(parser, exec)
  <2>1. ~InHead(parser, log) /\ parser' = parser
    BY <1>1, <1>4, NoHead DEF Again, REEXECUTE
  <2> QED
    BY <1>3, <1>4, <2>1, SameLog DEF LimitNext, Capped, Near
<1>5. CASE ~Overflows(exec, 1) /\ Again(parser, Counted(exec, 1))
  <2>1. /\ parser' = parser /\ exec'.pc = "switch" /\ exec'.p = exec.p
        /\ exec'.nread = exec.nread + 1
    BY <1>1, <1>5 DEF Again, REEXECUTE, Counted, IsLocals
  <2>2. exec'.nread \in 1..MaxHeaderSize /\ exec.nread \in Nat /\ exec.p \in Nat
    BY <1>1, <1>5, <2>1, InCall DEF Overflows, IsLocals
  <2>3. Lag(parser', exec') = Lag(parser, exec)
    BY <1>1, <2>1, <2>2 DEF Lag
  <2>4. InHead(parser, log) => Lag(parser, exec) <= HeadFrom(log)
    BY <1>1 DEF LimitInv, Near
  <2> QED
    BY <1>3, <2>1, <2>2, <2>3, <2>4, SameLog DEF LimitNext, Capped, Near
<1>6. CASE Fail(parser, Counted(exec, 1), "HEADER_OVERFLOW")
  <2>1. parser'.errno = "HEADER_OVERFLOW"
    BY <1>6, HasErrno DEF Fail, RETURN
  <2>2. exec'.pc = "idle"
    <3>1. "pc" \in DOMAIN Counted(exec, 1)
      BY <1>1 DEF Counted, IsLocals
    <3> QED
      BY <1>6, <3>1 DEF Fail, RETURN, Returned
  <2> QED
    BY <1>3, <2>1, <2>2, SameLog DEF LimitNext, Capped, Near
<1> QED
  BY <1>2, <1>4, <1>5, <1>6

LEMMA EndOfPieceLimit ==
  ASSUME IInv, IInv', LimitInv, EndOfPiece PROVE LimitNext
<1>1. /\ exec.pc = "fetch" /\ parser.errno = "OK" /\ Settled(parser, LastOf(log))
      /\ IsLocals(exec) /\ exec.p = exec.end + 1 /\ log' \in History
  <2>1. /\ exec.pc = "fetch" /\ exec.p > exec.end /\ exec.p <= exec.end + 1
        /\ IsLocals(exec) /\ Len(stream) \in Nat
    BY InCall DEF EndOfPiece, Place
  <2>2. exec.p \in Nat /\ exec.end \in Nat
    BY <2>1 DEF IsLocals
  <2>3. exec.p = exec.end + 1
    BY <2>1, <2>2
  <2> QED
    BY <2>1, <2>3, CallSettled DEF CallPcs, IInv, Inv
<1>2. \/ RETURN(parser, exec, exec.end + 1) /\ log' = log
      \/ \E m \in DataKinds :
           /\ log' = Record(m, exec.marks[m], exec.end)
           /\ \/ parser' = parser /\ exec' = Unmark(exec, m)
              \/ \E answer : Stop(parser, exec, m, answer, exec.end + 1)
  BY DataNames DEF EndOfPiece, CALLBACK_DATA, Unmark
<1>3. Logs
  BY <1>2, DataLogs DEF Logs
<1>4. /\ Grounded(log') /\ WithinLimit(log')
      /\ InHead(parser', log') => InHead(parser, log) /\ HeadFrom(log') = HeadFrom(log)
  BY <1>1, <1>3, EndOfPieceOrder, LogStep
<1>5. InHead(parser, log) => Lag(parser, exec) <= HeadFrom(log)
  BY <1>1 DEF LimitInv, Near
<1>6. CASE RETURN(parser, exec, exec.end + 1)
  <2>1. /\ exec'.pc = "idle" /\ exec'.p = exec.p /\ parser'.nread = exec.nread
    BY <1>1, <1>6, InCall DEF RETURN, Returned, IsLocals, IsStruct
  <2>2. Lag(parser', exec') = Lag(parser, exec)
    BY <1>1, <2>1 DEF Lag
  <2> QED
    BY <1>4, <1>5, <2>1, <2>2 DEF LimitNext, Capped, Near
<1>7. CASE \E m \in DataKinds : parser' = parser /\ exec' = Unmark(exec, m)
  <2>1. exec'.pc = "fetch" /\ exec'.p = exec.p /\ exec'.nread = exec.nread
    BY <1>1, <1>7 DEF Unmark, IsLocals
  <2>2. Lag(parser', exec') = Lag(parser, exec)
    BY <1>1, <2>1 DEF Lag
  <2> QED
    BY <1>4, <1>5, <2>1, <2>2 DEF LimitNext, Capped, Near
<1>8. ASSUME NEW m \in DataKinds, NEW answer, Stop(parser, exec, m, answer, exec.end + 1)
      PROVE  LimitNext
  <2>1. m \in CallbackNames /\ CallbackErrors[m] # "OK"
    BY DEF DataKinds, CallbackNames, CallbackErrors
  <2>2. parser'.errno # "OK"
    BY <1>8, <2>1, HasErrno DEF Stop
  <2>3. exec'.pc = "idle"
    BY <1>1, <1>8 DEF Stop, Returned, IsLocals
  <2> QED
    BY <1>4, <2>2, <2>3 DEF LimitNext, Capped, Near
<1> QED
  BY <1>2, <1>6, <1>7, <1>8

LEMMA ExecuteLimit ==
  ASSUME IInv, LimitInv, NEW n, Execute(n) PROVE LimitNext
<1>1. /\ exec.pc = "idle" /\ IsLocals(exec) /\ parser' = parser /\ Silent
  BY InCall DEF Execute, Continues, Silent
<1>2. CASE parser.errno # "OK"
  <2>1. exec'.pc = "idle"
    BY <1>1, <1>2 DEF Execute, IsLocals
  <2> QED
    BY <1>1, <1>2, <2>1, SameLog DEF LimitNext, Capped, Near
<1>3. CASE parser.errno = "OK"
  <2>1. exec'.pc = "fetch" /\ exec'.p = exec.p /\ exec'.nread = parser.nread
    BY <1>1, <1>3 DEF Execute, IsLocals
  <2>2. Lag(parser', exec') = Lag(parser, exec)
    BY <1>1, <2>1 DEF Lag
  <2>3. InHead(parser, log) => Lag(parser, exec) <= HeadFrom(log)
    BY <1>1, <1>3 DEF LimitInv, Near
  <2> QED
    BY <1>1, <2>1, <2>2, <2>3, SameLog DEF LimitNext, Capped, Near
<1> QED
  BY <1>2, <1>3

LEMMA ExecuteEofLimit ==
  ASSUME IInv, IInv', LimitInv, ExecuteEof, Silent \/ (parser.errno = "OK" /\ Ordered)
  PROVE  LimitNext
<1>1. exec'.pc = "closed" /\ exec.pc = "idle" /\ log' \in History
  BY InCall DEF ExecuteEof, IsLocals, IInv, Inv
<1>2. Grounded(log') /\ WithinLimit(log')
  <2>1. CASE Silent
    BY <2>1, SameLog
  <2>2. CASE parser.errno = "OK" /\ Ordered
    <3>1. Logs
      BY DEF ExecuteEof, Logs
    <3>2. Settled(parser, LastOf(log)) /\ exec.pc # "closed"
      BY <1>1, <2>2, InCall DEF Sound
    <3> QED
      BY <1>1, <2>2, <3>1, <3>2, LogStep
  <2> QED
    BY <2>1, <2>2
<1> QED
  BY <1>1, <1>2 DEF LimitNext, Capped, Near

LEMMA FirstLineLimit == ASSUME IInv, IInv', LimitInv, FirstLine PROVE LimitNext
<1>1. exec.pc = "switch" /\ parser.state \notin BodyStates
  <2>1. CASE Literal
    BY <2>1, LiteralNames DEF Literal, At_, BodyStates
  <2>2. CASE Url
    BY <2>2 DEF Url, At_, UrlStates, BodyStates
  <2>3. CASE ~Literal /\ ~Url
    BY <2>3 DEF FirstLine, At_, BodyStates, Dead, StartReqOrRes, ResOrRespH, StartRes, StartReq,
                Version, FirstStatusCode, StatusCode, StatusStart, Status, Method,
                SpacesBeforeUrl, HttpStart, HttpEnd
  <2> QED
    BY <2>1, <2>2, <2>3
<1>2. exec.nread <= MaxHeaderSize
  BY <1>1, ParserAssumption DEF LimitInv, Capped
<1>3. Goes
  BY <1>2, FirstLineGoes, StartGoes, StatusGoes, UrlGoes DEF FirstLine
<1>4. Ordered
  BY DeadOrder, StartOrder, FirstLineSilent, SilentOrdered, StatusOrder, UrlOrder DEF FirstLine
<1> QED
  BY <1>1, <1>3, <1>4, HeadLimit

LEMMA HeadersLimit == ASSUME IInv, IInv', LimitInv, Headers PROVE LimitNext
<1>1. Ordered
  BY HeaderFieldStartOrder, HeaderFieldOrder, HeaderValueBeginOrder, HeaderValueOrder,
     HeaderValueLwsOrder, HeaderValueDiscardLwsOrder, HeadersAlmostDoneOrder, HeadersDoneOrder
     DEF Headers
<1>2. CASE HeadersDone
  <2>1. exec.pc = "switch" /\ parser.state = "s_headers_done"
    BY <1>2 DEF HeadersDone, At_
  <2> QED
    BY <1>1, <1>2, <2>1, HeadersDoneStays, BodyLimit
<1>3. CASE ~HeadersDone
  <2>1. /\ exec.pc \in {"switch", "loop"} /\ parser.state \notin BodyStates
    BY <1>3 DEF Headers, At_, InLoop, BodyStates, HeaderFieldStart, HeaderField,
                HeaderValueDiscardWs, HeaderValueStart, HeaderValue, HeaderValueLws,
                HeaderValueDiscardLws, HeadersAlmostDone
  <2>2. exec.nread <= MaxHeaderSize
    BY <2>1, ParserAssumption DEF LimitInv, Capped
  <2>3. Goes
    BY <1>3, <2>2, HeaderFieldGoes, HeaderLineGoes, HeaderValueGoes, HeaderValueDiscardLwsGoes,
       HeadersAlmostDoneGoes DEF Headers
  <2> QED
    BY <1>1, <2>1, <2>3, HeadLimit
<1> QED
  BY <1>2, <1>3

LEMMA BodiesLimit == ASSUME IInv, IInv', LimitInv, Body PROVE LimitNext
<1>1. /\ exec.pc = "switch"
      /\ parser.state \in BodyStates \cup SizeStates \cup {"s_headers_done"}
  BY DEF Body, BodyIdentity, BodyIdentityEof, MessageDone, ChunkSizeStart, ChunkSize,
         ChunkParameters, ChunkSizeAlmostDone, ChunkData, ChunkDataAlmostDone, ChunkDataDone,
         At_, BodyStates, SizeStates
<1>2. Ordered
  BY BodyIdentityOrder, BodySilent, SilentOrdered, MessageDoneOrder, ChunkSizeAlmostDoneOrder,
     ChunkDataAlmostDoneOrder, ChunkDataDoneOrder DEF Body
<1> QED
  BY <1>1, <1>2, BodyStays, BodyLimit

LEMMA InitLimit == Init => LimitInv
<1> SUFFICES ASSUME Init PROVE LimitInv
  OBVIOUS
<1>1. exec.pc = "idle" /\ LastOf(log) = "none" /\ Len(log) = 0
  BY DEF Init, LastOf
<1> QED
  BY <1>1 DEF LimitInv, Capped, Near, InHead, HeadCallbacks, Grounded, WithinLimit

LEMMA StepLimit ==
  ASSUME IgnoresResult PROVE IInv /\ IInv' /\ LimitInv /\ [Next]_vars => LimitInv'
<1> SUFFICES ASSUME IInv, IInv', LimitInv, [Next]_vars PROVE LimitNext
  BY DEF LimitInv, LimitNext
<1>1. CASE Running
  BY <1>1, FetchLimit, EndOfPieceLimit, FirstLineLimit, HeadersLimit, BodiesLimit DEF Running
<1>2. CASE Calling
  <2>1. ~Resume
    BY DEF Resume
  <2>2. CASE \E n \in Pieces : Execute(n)
    BY <2>2, ExecuteLimit
  <2>3. CASE ExecuteEof
    BY <1>2, <2>3, CallingOrder, ExecuteEofLimit
  <2> QED
    BY <1>2, <2>1, <2>2, <2>3 DEF Calling
<1>3. CASE UNCHANGED vars
  BY <1>3 DEF vars, LimitInv, LimitNext
<1> QED
  BY <1>1, <1>2, <1>3 DEF Next, Finished

\* A parser whose caller goes on whatever a call returns, as parse does
\* (http_request_parser.cpp:265-267), calls no headers complete that are longer
\* than max_header_size, the first line with them, however the bytes are cut and
\* whatever the callbacks answer (COUNT_HEADER_SIZE, http_parser.c:143-161).  A
\* caller that resumes a parser that paused is not given this: the pause keeps
\* the count of the last call, not that of the bytes seen since.
THEOREM HeadersLimited == ASSUME IgnoresResult PROVE Spec => []HeadersWithinLimit
<1>1. IInv /\ LimitInv => HeadersWithinLimit
  <2> SUFFICES ASSUME IInv, LimitInv PROVE HeadersWithinLimit
    OBVIOUS
  <2>1. DOMAIN log = 1..Len(log)
    BY InCall DEF History
  <2>2. \A k : BeginIn(log, k) = BeginOf(k)
    BY DEF BeginIn, BeginOf
  <2> QED
    BY <2>1, <2>2 DEF LimitInv, WithinLimit, HeadersWithinLimit
<1>2. Init /\ [][Next]_vars => []LimitInv
  <2>1. Init /\ [][Next]_vars => []IInv
    BY InitIInv, StepIInv, PTL
  <2> QED
    BY <2>1, InitLimit, StepLimit, PTL
<1> QED
  BY <1>1, <1>2, Invariance, PTL DEF Spec
=============================================================================
