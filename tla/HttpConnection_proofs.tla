----------------------- MODULE HttpConnection_proofs -----------------------
(***************************************************************************)
(* The safety properties of HttpConnection, and that it implements         *)
(* RequestExchange, for all requests, buffer sizes and size limits.        *)
(*                                                                         *)
(* None of the properties is inductive.  The strengthening IInv ties       *)
(* together what the code keeps apart: how many cells the parser took      *)
(* (ParserInv), what the body stream counts (StreamInv), which coroutine   *)
(* owns the socket (PcInv), and what each way of ending left behind        *)
(* (EndInv).                                                               *)
(***************************************************************************)
EXTENDS HttpConnection, TLAPS

\* What was read was sent, and the buffer is empty unless a read came back.
FlowInv ==
  /\ received + readLen <= sent
  /\ sent <= Total
  /\ readState # "data" => readLen = 0
  /\ totalReadMessageSize = 0

\* The parser is where the cells it was given put it; the builder has made
\* the body's stream with the end of the headers.
ParserInv ==
  /\ mParseState = StateAt(Position(received))
  /\ mBodyContentLength # NoReader => Position(received) >= req.hdr
  /\ Position(received) >= req.hdr /\ req.length =>
       mBodyContentLength # NoReader

\* The stream's books balance.
StreamInv ==
  /\ StreamAccounting
  /\ mBodyContentLength = NoReader =>
       mBuffer = 0 /\ mTotalWritten = 0 /\ mDataReadSize = 0 /\ ~mEof
  /\ mEof <=> mDataReadSize > 0 /\ mDataReadSize = mBodyContentLength

\* Which coroutine reads, and what it has seen of the request.
PcInv ==
  /\ hPc = "start" => bPc = "none" /\ readState = "none"
  /\ hPc \in {"start", "reading"} => mParseState \in {"INITED", "IN_PROGRESS"}
  /\ hPc \in {"start", "reading", "building"} => bPc = "none"
  /\ hPc = "building" => HeadersParsed(mParseState)
  /\ hPc \in {"calling", "body", "waiting", "writeHead", "writeBody"} =>
       /\ Position(received) >= req.hdr
       /\ req.builds /\ req.length
       /\ bPc = "none" => mParseState = "COMPLETE"
  /\ bPc # "none" => Position(received) >= req.hdr /\ req.length
  /\ bPc \in {"spawned", "reading"} => mParseState # "COMPLETE"
  /\ bPc # "reading" /\ hPc # "reading" => readState = "none"
  /\ hPc = "reading" \/ bPc = "reading" => readState # "none"

\* How each end came about.
EndInv ==
  /\ hPc = "done" <=> failure # "none" \/ response = "sent"
  /\ hPc \in {"writeHead", "writeBody"} => mEof
  /\ response # "none" => mEof /\ hPc \in {"writeBody", "done"}
  /\ readState = "error" =>
       client = "reset" \/ (client = "fin" /\ received = sent) \/ hPc = "done"
  /\ failure = "read" => client # "open" /\ bPc = "none"
  /\ failure = "parse" => mBodyContentLength = NoReader /\ bPc = "none"
  /\ failure = "build" => ~(req.builds /\ req.length) /\ bPc = "none"
  /\ failure = "handler" => req.handler # "reads"
  /\ failure = "write" => client # "open" /\ mEof
  /\ failure # "size"

IInv == /\ TypeOK /\ FlowInv /\ ParserInv /\ StreamInv /\ PcInv /\ EndInv
        /\ AbortBlame

\* The fields of the connection's request have the types RequestType says.
LEMMA RequestFacts ==
  ASSUME TypeOK
  PROVE  /\ req \in RequestType
         /\ req.hdr \in Nat /\ req.hdr > 0
         /\ req.body \in Nat /\ req.tail \in Nat /\ req.err \in Nat
         /\ req.err < req.hdr
         /\ req.length \in BOOLEAN /\ req.builds \in BOOLEAN
         /\ Total \in Nat
<1>1. req \in Requests
  BY DEF TypeOK
<1>2. req \in RequestType /\ req.err < req.hdr
  BY <1>1, RequestsAssumption
<1> QED
  BY <1>2 DEF RequestType, Total

\* The parser never runs ahead, and past the headers it has taken every cell:
\* malformed cells stop it only inside the headers.
LEMMA PositionFacts ==
  ASSUME TypeOK, NEW m \in Nat, NEW n \in Nat
  PROVE  /\ Position(n) \in Nat /\ Position(n) <= n
         /\ m <= n => Position(m) <= Position(n)
         /\ Position(n) >= req.hdr => Position(n) = n
  BY RequestFacts DEF Position, Least

\* Body cells only grow in number, and are complete only at the body's end.
LEMMA BodyCellsFacts ==
  ASSUME TypeOK, NEW p \in Nat, NEW q \in Nat, p <= q
  PROVE  /\ BodyCells(p) \in Nat /\ BodyCells(q) \in Nat
         /\ BodyCells(p) <= BodyCells(q) /\ BodyCells(q) <= req.body
         /\ BodyCells(q) = req.body => req.body = 0 \/ q >= req.hdr + req.body
         /\ p < req.hdr => BodyCells(p) = 0
  BY RequestFacts DEF BodyCells, Least

\* What mParseState tells about the parser's position.
LEMMA StateFacts ==
  ASSUME TypeOK, NEW p \in Nat
  PROVE  /\ StateAt(p) \in {"INITED", "IN_PROGRESS", "HEADERS_COMPLETE",
                            "COMPLETE"}
         /\ p < req.hdr => StateAt(p) \in {"INITED", "IN_PROGRESS"}
         /\ StateAt(p) = "COMPLETE" <=> p = req.hdr + req.body
         /\ StateAt(p) = "HEADERS_COMPLETE" => p >= req.hdr
         /\ p >= req.hdr => StateAt(p) # "INITED"
  BY RequestFacts DEF StateAt

\* One parse call advances the parser and keeps the stream's books.
LEMMA ParseKeeps ==
  ASSUME IInv, Parse, UNCHANGED req,
         mParseState = "HEADERS_COMPLETE" => req.length
  PROVE  /\ received' \in Nat /\ received' = received + readLen
         /\ contentLength' \in Nat \cup {BadLength}
         /\ mParseState' \in {"INITED", "IN_PROGRESS", "HEADERS_COMPLETE",
                              "COMPLETE"}
         /\ ReaderTypeOK'
         /\ ParserInv'
         /\ StreamInv'
         /\ Position(received) >= req.hdr => (Position(received) >= req.hdr)'
<1> USE DEF IInv
<1>0. /\ received \in Nat /\ readLen \in Nat /\ received + readLen \in Nat
      /\ received' = received + readLen
      /\ mParseState' = StateAt(Upto)
      /\ contentLength' = LengthAfter(Upto)
  BY DEF TypeOK, Parse
<1>1. /\ From \in Nat /\ Upto \in Nat /\ From <= Upto
      /\ Position(received)' = Upto
      /\ Position(received) = From
  BY <1>0, PositionFacts DEF From, Upto, Position
<1>2. /\ BodyCells(From) \in Nat /\ BodyCells(Upto) \in Nat
      /\ BodyCells(From) <= BodyCells(Upto)
      /\ Delivered \in Nat
      /\ From < req.hdr => BodyCells(From) = 0
      /\ BodyCells(Position(received))' = BodyCells(Upto)
  BY <1>1, BodyCellsFacts DEF Delivered, BodyCells
<1>3. contentLength' \in Nat \cup {BadLength}
  BY <1>0, RequestFacts DEF LengthAfter, TypeOK
<1>4. mParseState' \in {"INITED", "IN_PROGRESS", "HEADERS_COMPLETE",
                       "COMPLETE"}
  BY <1>0, <1>1, StateFacts
<1>5. mParseState' = StateAt(Position(received))'
  BY <1>0, <1>1 DEF StateAt
<1>6. /\ req' = req /\ req.hdr \in Nat /\ req.body \in Nat
      /\ req.length \in BOOLEAN
  BY RequestFacts
<1>8. ReaderTypeOK' /\ StreamInv' /\ ParserInv'
  <2>1. CASE HeadersEnd /\ req.length /\ Construct(contentLength, Delivered)
    <3>1. contentLength \in Nat
      BY <2>1 DEF Parse, ParseThrows, TypeOK, BadLength
    <3>2. From < req.hdr /\ Upto >= req.hdr /\ Delivered = BodyCells(Upto)
      BY <1>1, <1>2, <2>1, <1>6 DEF HeadersEnd, Delivered
    <3>3. ReaderTypeOK'
      BY <1>2, <2>1, <3>1 DEF Construct, ReaderTypeOK, Least
    <3>4. StreamInv'
      BY <1>2, <2>1, <3>1, <3>2 DEF Construct, StreamInv,
         StreamAccounting, NoReader, Least
    <3>5. ParserInv'
      BY <1>1, <1>5, <1>6, <2>1, <3>1, <3>2 DEF Construct, ParserInv, NoReader
    <3> QED
      BY <3>3, <3>4, <3>5
  <2>2. CASE ~HeadersEnd /\ Delivered > 0 /\ Write(Delivered)
    <3>1. From >= req.hdr
      BY <1>1, <1>2, <1>6, <2>2 DEF HeadersEnd, Delivered, BodyCells, Least
    <3>2. From < req.hdr + req.body
      BY <1>1, <1>2, <1>6, <2>2, <3>1 DEF Delivered, BodyCells, Least
    <3>3. mParseState = "HEADERS_COMPLETE"
      BY <1>1, <1>6, <3>1, <3>2 DEF ParserInv, StateAt
    <3>4. mBodyContentLength \in Nat
      BY <1>1, <3>1, <3>3 DEF ParserInv, TypeOK, ReaderTypeOK
    <3>5. /\ mDataReadSize + mBuffer = BodyCells(From)
          /\ mTotalWritten = Least(BodyCells(From), mBodyContentLength)
      BY <1>1, <3>4 DEF StreamInv, StreamAccounting, NoReader
    <3>6. /\ mBodyContentLength' = mBodyContentLength
          /\ mDataReadSize' = mDataReadSize
          /\ mBuffer' = mBuffer + Delivered
          /\ mTotalWritten' = Least(BodyCells(Upto), mBodyContentLength)
          /\ mEof' = mEof
      BY <1>2, <2>2, <3>4, <3>5 DEF Write, bytesRemaining, Least, Delivered
    <3>7. ReaderTypeOK'
      BY <1>2, <2>2, <3>4, <3>6 DEF Write, Cancelled, TypeOK,
         ReaderTypeOK, Least
    <3>8. StreamInv'
      BY <1>2, <3>4, <3>5, <3>6 DEF StreamInv, StreamAccounting,
         NoReader, Least,
         TypeOK, ReaderTypeOK, Delivered
    <3>9. ParserInv'
      BY <1>1, <1>5, <1>6, <3>4, <3>6, <3>1 DEF ParserInv, NoReader
    <3> QED
      BY <3>7, <3>8, <3>9
  <2>3. CASE /\ IF HeadersEnd THEN ~req.length ELSE Delivered = 0
             /\ UNCHANGED readerVars
    <3>1. ReaderTypeOK'
      BY <2>3 DEF readerVars, TypeOK, ReaderTypeOK
    <3>2. ParserInv'
      BY <1>1, <1>5, <1>6, <2>3 DEF readerVars, ParserInv, HeadersEnd
    <3>3. StreamInv'
      BY <1>1, <1>2, <1>6, <2>3 DEF readerVars, StreamInv,
         StreamAccounting, HeadersEnd, Delivered, ParserInv, TypeOK,
         ReaderTypeOK
    <3> QED
      BY <3>1, <3>2, <3>3
  <2> QED
    BY <2>1, <2>2, <2>3 DEF Parse, ParseBody
<1>9. Position(received) >= req.hdr => (Position(received) >= req.hdr)'
  BY <1>1, <1>6
<1> QED
  BY <1>0, <1>3, <1>4, <1>8, <1>9

\* The end of a stream of the right length is the end of the message.
LEMMA EofFacts ==
  ASSUME IInv
  PROVE  EofLeavesNoBodyReader
<1> SUFFICES ASSUME mEof, LengthAgrees, req.tail = 0,
                    bPc \in {"spawned", "reading"}
             PROVE  FALSE
  BY DEF EofLeavesNoBodyReader, IInv, TypeOK
<1> USE DEF IInv
<1>1. /\ req.hdr \in Nat /\ req.body \in Nat
      /\ received \in Nat /\ Position(received) \in Nat
      /\ Position(received) <= received
      /\ Position(received) >= req.hdr
      /\ received <= req.hdr + req.body
  BY RequestFacts, PositionFacts DEF FlowInv, TypeOK, Total, PcInv
<1>2. mBodyContentLength # NoReader
  BY DEF StreamInv
<1>3. BodyCells(Position(received)) >= req.body
  BY <1>1, <1>2 DEF StreamInv, StreamAccounting, LengthAgrees, TypeOK,
     ReaderTypeOK,
     BodyCells, Least
<1>4. Position(received) = req.hdr + req.body
  BY <1>1, <1>3 DEF BodyCells, Least
<1> QED
  BY <1>1, <1>4 DEF ParserInv, StateAt, PcInv

\* When B is not over, neither is the stream: whatever ends H or fails B's
\* read by then is one of the four causes.
LEMMA BlameFacts ==
  ASSUME IInv, bPc \in {"spawned", "reading"},
         hPc = "done" \/ readState = "error"
  PROVE  \/ client = "reset"
         \/ client = "fin" /\ (sent < Total \/ req.tail > 0)
         \/ failure \in {"handler", "cancelled"}
         \/ mEof /\ (req.tail > 0 \/ ~LengthAgrees)
<1> USE DEF IInv
<1>1. /\ received \in Nat /\ Position(received) \in Nat
      /\ mParseState = StateAt(Position(received))
      /\ Position(received) >= req.hdr /\ Position(received) = received
      /\ received <= sent /\ sent <= Total /\ sent \in Nat
  BY RequestFacts, PositionFacts DEF FlowInv, ParserInv, PcInv, TypeOK
<1>2. mParseState # "COMPLETE"
  BY DEF PcInv
<1>3. ~(received = sent /\ sent = Total /\ req.tail = 0)
  BY <1>1, <1>2, RequestFacts, StateFacts DEF Total
<1>4. CASE hPc = "done"
  <2>1. failure \notin {"read", "parse", "build"}
    BY DEF EndInv
  <2>2. mEof \/ failure \in {"handler", "cancelled"}
    BY <1>4, <2>1 DEF EndInv, TypeOK
  <2>3. mEof => req.tail > 0 \/ ~LengthAgrees
    BY EofFacts, RequestFacts DEF EofLeavesNoBodyReader
  <2> QED
    BY <2>2, <2>3
<1>5. CASE readState = "error" /\ hPc # "done"
  BY <1>1, <1>3, <1>5, RequestFacts DEF EndInv
<1> QED
  BY <1>4, <1>5

\* A step that leaves the request, the parser and the stream's counters alone
\* leaves their invariants alone.
LEMMA ParserFrame ==
  ASSUME IInv, UNCHANGED <<req, received, mParseState, mBodyContentLength,
                           mBuffer, mTotalWritten, mDataReadSize, mEof>>
  PROVE  ParserInv' /\ StreamInv'
BY DEF IInv, ParserInv, StreamInv, StreamAccounting, Position, BodyCells,
   StateAt

\* Every step keeps the invariant.
LEMMA StepIInv == IInv /\ [Next]_vars => IInv'
<1> SUFFICES ASSUME IInv, [Next]_vars PROVE IInv'
  OBVIOUS
<1> USE DEF IInv, Running, HFail, clientVars, parserVars, socketVars,
        outcomeVars, readerVars
<1>1. ASSUME ClientSend PROVE IInv'
  <2> USE <1>1 DEF ClientSend
  <2>1. TypeOK' /\ FlowInv' /\ AbortBlame'
    BY RequestFacts DEF TypeOK, ReaderTypeOK, FlowInv, Total, AbortBlame
  <2>2. ParserInv' /\ StreamInv'
    BY ParserFrame
  <2>3. PcInv'
    BY DEF PcInv, HeadersParsed, parseComplete, parseMessageComplete,
       Position, HHoldsStrand, TypeOK
  <2>4. EndInv'
    BY DEF EndInv, PcInv, StreamInv, TypeOK
  <2> QED
    BY <2>1, <2>2, <2>3, <2>4
<1>2. ASSUME ClientClose PROVE IInv'
  <2> USE <1>2 DEF ClientClose
  <2>1. TypeOK' /\ FlowInv' /\ AbortBlame'
    BY DEF TypeOK, ReaderTypeOK, FlowInv, Total, AbortBlame
  <2>2. ParserInv' /\ StreamInv'
    BY ParserFrame
  <2>3. PcInv'
    BY DEF PcInv, HeadersParsed, parseComplete, parseMessageComplete,
       Position, HHoldsStrand, TypeOK
  <2>4. EndInv'
    BY DEF EndInv, PcInv, StreamInv, TypeOK
  <2> QED
    BY <2>1, <2>2, <2>3, <2>4
<1>3. ASSUME ReadCompletes PROVE IInv'
  <2> USE <1>3 DEF ReadCompletes
  <2>1. TypeOK' /\ FlowInv' /\ AbortBlame'
    BY DEF TypeOK, ReaderTypeOK, FlowInv, Total, AbortBlame
  <2>2. ParserInv' /\ StreamInv'
    BY ParserFrame
  <2>3. PcInv'
    BY DEF PcInv, HeadersParsed, parseComplete, parseMessageComplete,
       Position, HHoldsStrand, TypeOK
  <2>4. EndInv'
    BY DEF EndInv, PcInv, StreamInv, TypeOK
  <2> QED
    BY <2>1, <2>2, <2>3, <2>4
<1>4. ASSUME ReadFails PROVE IInv'
  <2> USE <1>4 DEF ReadFails
  <2>1. TypeOK' /\ FlowInv' /\ AbortBlame'
    BY DEF TypeOK, ReaderTypeOK, FlowInv, Total, AbortBlame
  <2>2. ParserInv' /\ StreamInv'
    BY ParserFrame
  <2>3. PcInv'
    BY DEF PcInv, HeadersParsed, parseComplete, parseMessageComplete,
       Position, HHoldsStrand, TypeOK
  <2>4. EndInv'
    BY DEF EndInv, PcInv, StreamInv, TypeOK
  <2> QED
    BY <2>1, <2>2, <2>3, <2>4
<1>5. ASSUME TimerExpires PROVE IInv'
  <2> USE <1>5 DEF TimerExpires, Expire
  <2>1. TypeOK' /\ FlowInv' /\ AbortBlame'
    BY DEF TypeOK, ReaderTypeOK, FlowInv, Total, AbortBlame
  <2>2. ParserInv' /\ StreamInv'
    BY ParserFrame
  <2>3. PcInv'
    BY DEF PcInv, HeadersParsed, parseComplete, parseMessageComplete,
       Position, HHoldsStrand, TypeOK
  <2>4. EndInv'
    BY DEF EndInv, PcInv, StreamInv, TypeOK
  <2> QED
    BY <2>1, <2>2, <2>3, <2>4
<1>6. ASSUME HStart PROVE IInv'
  <2> USE <1>6 DEF HStart
  <2>1. TypeOK' /\ FlowInv' /\ AbortBlame'
    BY DEF TypeOK, ReaderTypeOK, FlowInv, Total, AbortBlame, PcInv
  <2>2. ParserInv' /\ StreamInv'
    BY ParserFrame
  <2>3. PcInv'
    BY DEF PcInv, HeadersParsed, parseComplete, parseMessageComplete,
       Position, HHoldsStrand, TypeOK
  <2>4. EndInv'
    BY DEF EndInv, PcInv, StreamInv, TypeOK
  <2> QED
    BY <2>1, <2>2, <2>3, <2>4
<1>7. ASSUME HParse PROVE IInv'
  <2> USE <1>7 DEF HParse
  <2>a. mParseState = "HEADERS_COMPLETE" => req.length
    BY DEF PcInv
  <2>b. /\ received' \in Nat /\ received' = received + readLen
        /\ contentLength' \in Nat \cup {BadLength}
        /\ mParseState' \in {"INITED", "IN_PROGRESS", "HEADERS_COMPLETE",
                             "COMPLETE"}
        /\ ReaderTypeOK' /\ ParserInv' /\ StreamInv'
        /\ Position(received) >= req.hdr => (Position(received) >= req.hdr)'
    BY <2>a, ParseKeeps
  <2>1. TypeOK' /\ FlowInv' /\ AbortBlame'
    BY <2>b DEF TypeOK, ReaderTypeOK, FlowInv, Total, AbortBlame
  <2>2. ParserInv' /\ StreamInv'
    BY <2>b
  <2>3. PcInv'
    BY <2>b DEF PcInv, HeadersParsed, parseComplete, parseMessageComplete,
       Position, HHoldsStrand, TypeOK
  <2>4. EndInv'
    <3>1. /\ failure = "none" /\ response = "none"
          /\ hPc' # "done" /\ failure' = "none"
      BY MaxMessageAssumption DEF EndInv, FlowInv, TypeOK
    <3> QED
      BY <2>b, <3>1 DEF EndInv, TypeOK
  <2> QED
    BY <2>1, <2>2, <2>3, <2>4
<1>8. ASSUME HReadThrows PROVE IInv'
  <2> USE <1>8 DEF HReadThrows
  <2>1. TypeOK' /\ FlowInv' /\ AbortBlame'
    BY DEF TypeOK, ReaderTypeOK, FlowInv, Total, AbortBlame
  <2>2. ParserInv' /\ StreamInv'
    BY ParserFrame
  <2>3. PcInv'
    BY DEF PcInv, HeadersParsed, parseComplete, parseMessageComplete,
       Position, HHoldsStrand, TypeOK
  <2>4. EndInv'
    <3>1. failure = "none" /\ response = "none" /\ bPc = "none"
      BY DEF EndInv, PcInv, TypeOK
    <3>2. CASE readState = "error" /\ failure' = "read"
      BY <3>1, <3>2 DEF EndInv, TypeOK
    <3>3. CASE readState = "data" /\ ParseThrows /\ failure' = "parse"
      <4>1. Position(received) < req.hdr
        BY <3>3 DEF ParseThrows, HeadersEnd, From
      <4>2. mBodyContentLength = NoReader
        BY <4>1, RequestFacts, PositionFacts DEF ParserInv, TypeOK
      <4> QED
        BY <3>1, <3>3, <4>2 DEF EndInv, TypeOK
    <3> QED
      BY <3>2, <3>3
  <2> QED
    BY <2>1, <2>2, <2>3, <2>4
<1>9. ASSUME HBuild PROVE IInv'
  <2> USE <1>9 DEF HBuild, SpawnB
  <2>1. TypeOK' /\ FlowInv' /\ AbortBlame'
    BY DEF TypeOK, ReaderTypeOK, FlowInv, Total, AbortBlame
  <2>2. ParserInv' /\ StreamInv'
    BY ParserFrame
  <2>3. PcInv'
    <3>1. /\ Position(received) \in Nat
          /\ mParseState = StateAt(Position(received))
      BY PositionFacts DEF ParserInv, TypeOK
    <3>2. HeadersParsed(mParseState) /\ bPc = "none" /\ readState = "none"
      BY DEF PcInv
    <3>3. Position(received) >= req.hdr
      BY <3>1, <3>2, StateFacts, RequestFacts DEF HeadersParsed,
         parseComplete, parseMessageComplete
    <3> QED
      BY <3>2, <3>3, RequestFacts DEF PcInv, HeadersParsed,
         parseComplete, parseMessageComplete, Position, TypeOK
  <2>4. EndInv'
    BY DEF EndInv, PcInv, StreamInv, TypeOK
  <2> QED
    BY <2>1, <2>2, <2>3, <2>4
<1>10. ASSUME HCall PROVE IInv'
  <2> USE <1>10 DEF HCall
  <2>1. TypeOK' /\ FlowInv' /\ AbortBlame'
    BY DEF TypeOK, ReaderTypeOK, FlowInv, Total, AbortBlame
  <2>2. ParserInv' /\ StreamInv'
    BY ParserFrame
  <2>3. PcInv'
    BY DEF PcInv, HeadersParsed, parseComplete, parseMessageComplete,
       Position, HHoldsStrand, TypeOK
  <2>4. EndInv'
    BY DEF EndInv, PcInv, StreamInv, TypeOK
  <2> QED
    BY <2>1, <2>2, <2>3, <2>4
<1>11. ASSUME HTake PROVE IInv'
  <2> USE <1>11 DEF HTake, TakeAll, TakesLast
  <2>1. TypeOK' /\ FlowInv' /\ AbortBlame'
    BY DEF TypeOK, ReaderTypeOK, FlowInv, Total, AbortBlame
  <2>2. ParserInv' /\ StreamInv'
    <3>1. ParserInv'
      BY DEF ParserInv, Position, StateAt
    <3>2. mBodyContentLength \in Nat
      BY DEF StreamInv, TypeOK, ReaderTypeOK
    <3>3. StreamAccounting'
      BY <3>2 DEF StreamInv, StreamAccounting, Position, BodyCells,
         TypeOK, ReaderTypeOK
    <3>4. mEof' <=> mDataReadSize + mBuffer = mBodyContentLength
      BY Zenon
    <3>5. mDataReadSize' = mDataReadSize + mBuffer /\ mDataReadSize' > 0
      BY DEF TypeOK, ReaderTypeOK
    <3>6. mBodyContentLength' = mBodyContentLength
      OBVIOUS
    <3>7. StreamInv'
      BY <3>2, <3>3, <3>4, <3>5, <3>6 DEF StreamInv, NoReader
    <3> QED
      BY <3>1, <3>7
  <2>3. PcInv'
    BY DEF PcInv, HeadersParsed, parseComplete, parseMessageComplete,
       Position, HHoldsStrand, TypeOK
  <2>4. EndInv'
    BY DEF EndInv, PcInv, StreamInv, TypeOK
  <2> QED
    BY <2>1, <2>2, <2>3, <2>4
<1>12. ASSUME HWait PROVE IInv'
  <2> USE <1>12 DEF HWait, AwaitData
  <2>1. TypeOK' /\ FlowInv' /\ AbortBlame'
    BY DEF TypeOK, ReaderTypeOK, FlowInv, Total, AbortBlame
  <2>2. ParserInv' /\ StreamInv'
    BY ParserFrame
  <2>3. PcInv'
    BY DEF PcInv, HeadersParsed, parseComplete, parseMessageComplete,
       Position, HHoldsStrand, TypeOK
  <2>4. EndInv'
    BY DEF EndInv, PcInv, StreamInv, TypeOK
  <2> QED
    BY <2>1, <2>2, <2>3, <2>4
<1>13. ASSUME HWake PROVE IInv'
  <2> USE <1>13 DEF HWake, EndWait
  <2>1. TypeOK' /\ FlowInv' /\ AbortBlame'
    BY DEF TypeOK, ReaderTypeOK, FlowInv, Total, AbortBlame
  <2>2. ParserInv' /\ StreamInv'
    BY ParserFrame
  <2>3. PcInv'
    BY DEF PcInv, HeadersParsed, parseComplete, parseMessageComplete,
       Position, HHoldsStrand, TypeOK
  <2>4. EndInv'
    BY DEF EndInv, PcInv, StreamInv, TypeOK
  <2> QED
    BY <2>1, <2>2, <2>3, <2>4
<1>14. ASSUME HEof PROVE IInv'
  <2> USE <1>14 DEF HEof
  <2>1. TypeOK' /\ FlowInv' /\ AbortBlame'
    BY DEF TypeOK, ReaderTypeOK, FlowInv, Total, AbortBlame
  <2>2. ParserInv' /\ StreamInv'
    BY ParserFrame
  <2>3. PcInv'
    BY DEF PcInv, HeadersParsed, parseComplete, parseMessageComplete,
       Position, HHoldsStrand, TypeOK
  <2>4. EndInv'
    BY DEF EndInv, PcInv, StreamInv, TypeOK
  <2> QED
    BY <2>1, <2>2, <2>3, <2>4
<1>15. ASSUME HWrite PROVE IInv'
  <2> USE <1>15 DEF HWrite
  <2>1. TypeOK' /\ FlowInv' /\ AbortBlame'
    BY DEF TypeOK, ReaderTypeOK, FlowInv, Total, AbortBlame
  <2>2. ParserInv' /\ StreamInv'
    BY ParserFrame
  <2>3. PcInv'
    BY DEF PcInv, HeadersParsed, parseComplete, parseMessageComplete,
       Position, HHoldsStrand, TypeOK
  <2>4. EndInv'
    BY DEF EndInv, PcInv, StreamInv, TypeOK
  <2> QED
    BY <2>1, <2>2, <2>3, <2>4
<1>16. ASSUME BStart PROVE IInv'
  <2> USE <1>16 DEF BStart
  <2>1. TypeOK' /\ FlowInv'
    BY DEF TypeOK, ReaderTypeOK, FlowInv, Total, PcInv
  <2>2. ParserInv' /\ StreamInv'
    BY ParserFrame
  <2>3. PcInv'
    BY DEF PcInv, HeadersParsed, parseComplete, parseMessageComplete,
       Position, HHoldsStrand, TypeOK
  <2>4. EndInv'
    BY DEF EndInv, PcInv, StreamInv, TypeOK
  <2>5. AbortBlame'
    BY BlameFacts DEF AbortBlame, LengthAgrees, Total
  <2> QED
    BY <2>1, <2>2, <2>3, <2>4, <2>5
<1>17. ASSUME BParse PROVE IInv'
  <2> USE <1>17 DEF BParse
  <2>a. mParseState = "HEADERS_COMPLETE" => req.length
    BY DEF PcInv
  <2>b. /\ received' \in Nat /\ received' = received + readLen
        /\ contentLength' \in Nat \cup {BadLength}
        /\ mParseState' \in {"INITED", "IN_PROGRESS", "HEADERS_COMPLETE",
                             "COMPLETE"}
        /\ ReaderTypeOK' /\ ParserInv' /\ StreamInv'
        /\ Position(received) >= req.hdr => (Position(received) >= req.hdr)'
    BY <2>a, ParseKeeps
  <2>1. TypeOK' /\ FlowInv' /\ AbortBlame'
    BY <2>b DEF TypeOK, ReaderTypeOK, FlowInv, Total, AbortBlame
  <2>2. ParserInv' /\ StreamInv'
    BY <2>b
  <2>3. PcInv'
    BY <2>b DEF PcInv, HeadersParsed, parseComplete, parseMessageComplete,
       Position, HHoldsStrand, TypeOK
  <2>4. EndInv'
    <3>1. /\ Position(received) >= req.hdr
          /\ bPc # "none"
          /\ mBodyContentLength # NoReader
          /\ mBodyContentLength' = mBodyContentLength /\ mEof' = mEof
      <4>1. Position(received) >= req.hdr /\ req.length
        BY DEF PcInv
      <4>2. ~HeadersEnd
        BY <4>1, RequestFacts, PositionFacts DEF HeadersEnd, From, TypeOK
      <4> QED
        BY <4>1, <4>2 DEF Parse, ParseBody, Write, ParserInv
    <3> QED
      BY <3>1 DEF EndInv, TypeOK
  <2> QED
    BY <2>1, <2>2, <2>3, <2>4
<1>18. ASSUME BAborts PROVE IInv'
  <2> USE <1>18 DEF BAborts, BTerminates
  <2>1. TypeOK' /\ FlowInv'
    BY DEF TypeOK, ReaderTypeOK, FlowInv, Total
  <2>2. ParserInv' /\ StreamInv'
    BY ParserFrame
  <2>3. PcInv'
    BY DEF PcInv, HeadersParsed, parseComplete, parseMessageComplete,
       Position, HHoldsStrand, TypeOK
  <2>4. EndInv'
    BY DEF EndInv, PcInv, StreamInv, TypeOK
  <2>5. AbortBlame'
    BY BlameFacts DEF AbortBlame, LengthAgrees, Total
  <2> QED
    BY <2>1, <2>2, <2>3, <2>4, <2>5
<1>19. ASSUME UNCHANGED vars PROVE IInv'
  <2> USE <1>19 DEF vars
  <2>1. TypeOK' /\ FlowInv' /\ PcInv' /\ EndInv' /\ AbortBlame'
    BY DEF TypeOK, ReaderTypeOK, FlowInv, PcInv, EndInv, Total,
       HeadersParsed, parseComplete, parseMessageComplete, Position,
       AbortBlame, LengthAgrees
  <2>2. ParserInv' /\ StreamInv'
    BY ParserFrame
  <2> QED
    BY <2>1, <2>2
<1> QED
  BY <1>1, <1>2, <1>3, <1>4, <1>5, <1>6, <1>7, <1>8, <1>9, <1>10, <1>11,
     <1>12, <1>13, <1>14, <1>15, <1>16, <1>17, <1>18, <1>19 DEF Next, HStep, HTurn,
     BStep, Terminated

\* A new connection satisfies the invariant.
LEMMA InitIInv == Init => IInv
<1> SUFFICES ASSUME Init PROVE IInv
  OBVIOUS
<1>1. req \in RequestType
  BY RequestsAssumption DEF Init
<1>2. /\ req.hdr \in Nat /\ req.hdr > 0 /\ req.body \in Nat
      /\ req.tail \in Nat /\ req.err \in Nat
  BY <1>1 DEF RequestType
<1>3. TypeOK
  BY <1>2 DEF Init, TypeOK, ReaderInit, ReaderTypeOK
<1>4. FlowInv
  BY <1>2 DEF Init, FlowInv, Total
<1>5. Position(received) = 0
  BY <1>2 DEF Init, Position, Least
<1>6. ParserInv /\ StreamInv
  BY <1>2, <1>5 DEF Init, ReaderInit, ParserInv, StreamInv, StreamAccounting,
     StateAt
<1>7. PcInv /\ EndInv /\ AbortBlame
  BY DEF Init, PcInv, EndInv, AbortBlame
<1> QED
  BY <1>3, <1>4, <1>6, <1>7 DEF IInv

\* The invariant holds in every reachable state.
LEMMA Invariance == Spec => []IInv
BY InitIInv, StepIInv, PTL DEF Spec

\* The types of the model's variables, whatever is sent and however it is cut.
THEOREM TypeCorrect == Spec => []TypeOK
BY Invariance, PTL DEF IInv

\* No body byte is lost or made up between the socket and the handler,
\* whichever coroutine parses it (http_body_stream_reader.h:43, .cpp:21).
THEOREM BooksBalance == Spec => []StreamAccounting
BY Invariance, PTL DEF IInv, StreamInv

\* When the handler sees the end of a stream of the right length, B is over
\* and handle may return (http_connection.cpp:95-102).
THEOREM EofSafe == Spec => []EofLeavesNoBodyReader
BY Invariance, EofFacts, PTL

\* The process goes down for one of four reasons: the coroutine spawned at
\* http_connection.cpp:95 survives its connection in no other order of events.
THEOREM Blame == Spec => []AbortBlame
BY Invariance, PTL DEF IInv

\* The cancel of http_body_stream_reader.h:54 is the only thing that loses
\* the answer to a well-formed request of a client that stays.
THEOREM OnlyCancel == Spec => []OnlyCancelLosesAnswer
<1>1. IInv => OnlyCancelLosesAnswer
  BY RequestFacts DEF IInv, OnlyCancelLosesAnswer, WellFormed, EndInv, TypeOK,
     ParserInv, LengthAgrees, NoReader
<1> QED
  BY <1>1, Invariance, PTL

\* A message that was complete after a parse stays complete: neither loop of
\* http_connection.cpp (:60, :81) reads on.
THEOREM CompleteFinal == Spec => CompleteIsFinal
<1>1. IInv /\ [Next]_vars
        => [parseComplete(mParseState) => mParseState' = mParseState]_vars
  <2> SUFFICES ASSUME IInv, Next, mParseState = "COMPLETE"
               PROVE  mParseState' = mParseState
    BY DEF parseComplete
  <2> USE DEF parserVars
  <2>1. CASE ClientSend \/ ClientClose \/ ReadCompletes \/ ReadFails
             \/ TimerExpires
    BY <2>1 DEF ClientSend, ClientClose, ReadCompletes, ReadFails,
       TimerExpires
  <2>2. ~HParse /\ ~BParse
    BY DEF IInv, PcInv, HParse, BParse
  <2>3. CASE HStep
    BY <2>2, <2>3 DEF HStep, HTurn, HStart, HReadThrows, HBuild, HCall, HTake, HWait,
       HWake, HEof, HWrite
  <2>4. CASE BStep
    BY <2>2, <2>4 DEF BStep, BStart, BAborts
  <2>5. CASE Terminated
    BY <2>5 DEF Terminated, vars
  <2> QED
    BY <2>1, <2>3, <2>4, <2>5 DEF Next
<1> QED
  BY <1>1, Invariance, PTL DEF Spec, CompleteIsFinal

-----------------------------------------------------------------------------
(***************************************************************************)
(* The refinement of RequestExchange.                                      *)
(***************************************************************************)

\* What the exchange's phase is at each of H's places.
LEMMA PhaseFacts ==
  ASSUME IInv
  PROVE  /\ hPc \in {"start", "reading", "building"}
              => ExchangePhase = "receiving"
         /\ hPc \in {"calling", "body", "waiting"}
              => ExchangePhase = "handling" /\ mBodyContentLength \in Nat
         /\ hPc \in {"writeHead", "writeBody"}
              => ExchangePhase = "answering"
         /\ hPc = "done" /\ failure = "none" => ExchangePhase = "answered"
         /\ hPc = "done" /\ failure # "none" => ExchangePhase = "failed"
<1>1. hPc \in {"calling", "body", "waiting"} => mBodyContentLength \in Nat
  BY DEF IInv, PcInv, ParserInv, TypeOK, ReaderTypeOK
<1> QED
  BY <1>1 DEF ExchangePhase

\* What a parse call changes the abstract exchange does not see.
LEMMA ParseUnseen ==
  ASSUME IInv, Parse, UNCHANGED req, hPc # "done",
         mParseState = "HEADERS_COMPLETE" => req.length
  PROVE  /\ mDataReadSize' = mDataReadSize
         /\ Position(received) >= req.hdr
              => mBodyContentLength' = mBodyContentLength
<1> USE DEF IInv
<1>1. HeadersEnd => mBodyContentLength = NoReader
  BY RequestFacts, PositionFacts DEF HeadersEnd, From, ParserInv, TypeOK
<1>2. Position(received) >= req.hdr => ~HeadersEnd
  BY RequestFacts, PositionFacts DEF HeadersEnd, From, TypeOK
<1> QED
  BY <1>1, <1>2 DEF Parse, ParseBody, Construct, Write, readerVars, StreamInv

\* Every step of the connection is a step of the exchange or a stutter.
LEMMA StepRefines ==
  IInv /\ IInv' /\ [Next]_vars => [Exchange!Next]_(Exchange!exchangeVars)
<1> SUFFICES ASSUME IInv, IInv', [Next]_vars
             PROVE  [Exchange!Next]_(Exchange!exchangeVars)
  OBVIOUS
<1> USE DEF Running, HFail, clientVars, parserVars, outcomeVars, readerVars
<1>t. /\ mDataReadSize \in Nat /\ mDataReadSize' \in Nat
      /\ mBodyContentLength \in Nat \cup {-1}
      /\ mBodyContentLength' \in Nat \cup {-1}
  BY DEF IInv, TypeOK, ReaderTypeOK, NoReader
<1>p. /\ hPc \in {"start", "reading", "building"}
           => ExchangePhase = "receiving"
      /\ hPc \in {"calling", "body", "waiting"}
           => ExchangePhase = "handling" /\ mBodyContentLength \in Nat
      /\ hPc \in {"writeHead", "writeBody"} => ExchangePhase = "answering"
      /\ hPc = "done" /\ failure = "none" => ExchangePhase = "answered"
      /\ hPc = "done" /\ failure # "none" => ExchangePhase = "failed"
  BY PhaseFacts
<1>q. /\ hPc' \in {"start", "reading", "building"}
           => ExchangePhase' = "receiving"
      /\ hPc' \in {"calling", "body", "waiting"}
           => ExchangePhase' = "handling" /\ mBodyContentLength' \in Nat
      /\ hPc' \in {"writeHead", "writeBody"} => ExchangePhase' = "answering"
      /\ hPc' = "done" /\ failure' = "none" => ExchangePhase' = "answered"
      /\ hPc' = "done" /\ failure' # "none" => ExchangePhase' = "failed"
  BY DEF ExchangePhase, IInv, PcInv, ParserInv, TypeOK, ReaderTypeOK
<1>f. hPc # "done" => failure = "none"
  BY DEF IInv, EndInv, TypeOK
<1>1. CASE UNCHANGED <<hPc, failure, client, process, mBodyContentLength,
                       mDataReadSize>>
  BY <1>1 DEF Exchange!exchangeVars, ExchangePhase
<1>2. CASE ClientSend \/ ReadCompletes \/ ReadFails \/ TimerExpires
  BY <1>1, <1>2 DEF ClientSend, ReadCompletes, ReadFails, TimerExpires, Expire
<1>3. CASE ClientClose
  <2>1. Exchange!Leave
    BY <1>3 DEF ClientClose, Exchange!Leave, ExchangePhase
  <2> QED
    BY <1>3, <2>1 DEF Exchange!Next, ClientClose
<1>4. CASE HStep
  <2>1. CASE HParse
    <3>1. mDataReadSize' = mDataReadSize
      BY <2>1, ParseUnseen DEF HParse, IInv, PcInv
    <3>2. hPc' \in {"reading", "building"}
      BY <2>1, MaxMessageAssumption DEF HParse, IInv, FlowInv
    <3> QED
      BY <1>p, <1>q, <2>1, <3>1, <3>2 DEF HParse, Exchange!exchangeVars
  <2>2. CASE HStart \/ HWait
    BY <1>p, <1>q, <2>2 DEF HStart, HWait, AwaitData, Exchange!exchangeVars
  <2>3. CASE HReadThrows
    <3>1. Exchange!Fail
      BY <1>t, <1>p, <1>q, <2>3 DEF HReadThrows, Exchange!Fail
    <3> QED
      BY <2>3, <3>1 DEF HReadThrows, Exchange!Next, Exchange!Step
  <2>4. CASE HBuild
    <3>1. CASE req.builds /\ req.length
      <4>1. Exchange!Call
        BY <1>p, <1>q, <2>4, <3>1 DEF HBuild, Exchange!Call
      <4> QED
        BY <2>4, <4>1 DEF HBuild, Exchange!Next, Exchange!Step
    <3>2. CASE ~(req.builds /\ req.length)
      <4>1. Exchange!Fail
        BY <1>t, <1>p, <1>q, <2>4, <3>2 DEF HBuild, Exchange!Fail
      <4> QED
        BY <2>4, <4>1 DEF HBuild, Exchange!Next, Exchange!Step
    <3> QED
      BY <3>1, <3>2
  <2>5. CASE HCall
    <3>1. CASE req.handler = "throws"
      <4>1. Exchange!Fail
        BY <1>t, <1>p, <1>q, <2>5, <3>1 DEF HCall, Exchange!Fail
      <4> QED
        BY <2>5, <4>1 DEF HCall, Exchange!Next, Exchange!Step
    <3>2. CASE req.handler # "throws"
      BY <1>p, <1>q, <2>5, <3>2 DEF HCall, Exchange!exchangeVars
    <3> QED
      BY <3>1, <3>2
  <2>6. CASE HTake
    <3>1. mDataReadSize' > mDataReadSize /\ UNCHANGED mBodyContentLength
      BY <1>t, <2>6 DEF HTake, TakeAll, IInv, TypeOK, ReaderTypeOK
    <3>2. CASE UNCHANGED <<hPc, failure>>
      <4>1. mDataReadSize = mBodyContentLength => mDataReadSize = 0
        BY <1>t, <2>6 DEF HTake, TakeAll, IInv, StreamInv
      <4>2. Exchange!Give
        BY <1>t, <1>p, <1>q, <2>6, <3>1, <3>2, <4>1 DEF HTake, Exchange!Give
      <4> QED
        BY <2>6, <4>2 DEF HTake, Exchange!Next, Exchange!Step
    <3>3. CASE HFail("handler")
      <4>1. Exchange!Fail
        BY <1>t, <1>p, <1>q, <2>6, <3>1, <3>3 DEF HTake, Exchange!Fail
      <4> QED
        BY <2>6, <4>1 DEF HTake, Exchange!Next, Exchange!Step
    <3> QED
      BY <2>6, <3>2, <3>3 DEF HTake
  <2>7. CASE HWake
    <3>1. CASE hPc' = "body" /\ UNCHANGED failure
      BY <1>p, <1>q, <2>7, <3>1 DEF HWake, EndWait, Exchange!exchangeVars
    <3>2. CASE HFail("cancelled")
      <4>1. Exchange!Fail
        BY <1>t, <1>p, <1>q, <2>7, <3>2 DEF HWake, EndWait, Exchange!Fail
      <4> QED
        BY <2>7, <4>1 DEF HWake, Exchange!Next, Exchange!Step
    <3> QED
      BY <2>7, <3>1, <3>2 DEF HWake
  <2>8. CASE HEof
    <3>1. CASE req.handler = "rejects"
      <4>1. Exchange!Fail
        BY <1>t, <1>p, <1>q, <2>8, <3>1 DEF HEof, Exchange!Fail
      <4> QED
        BY <2>8, <4>1 DEF HEof, Exchange!Next, Exchange!Step
    <3>2. CASE req.handler # "rejects"
      <4>1. mDataReadSize = mBodyContentLength
        BY <2>8 DEF HEof, IInv, StreamInv
      <4>2. Exchange!Answer
        BY <1>t, <1>p, <1>q, <2>8, <3>2, <4>1 DEF HEof, Exchange!Answer
      <4> QED
        BY <2>8, <4>2 DEF HEof, Exchange!Next, Exchange!Step
    <3> QED
      BY <3>1, <3>2
  <2>9. CASE HWrite
    <3>1. CASE hPc' = "writeBody"
      BY <1>p, <1>q, <2>9, <3>1 DEF HWrite, Exchange!exchangeVars
    <3>2. CASE hPc' = "done" /\ UNCHANGED failure
      <4>1. Exchange!Finish
        BY <1>f, <1>p, <1>q, <2>9, <3>2 DEF HWrite, Exchange!Finish
      <4> QED
        BY <2>9, <4>1 DEF HWrite, Exchange!Next, Exchange!Step
    <3>3. CASE client # "open" /\ HFail("write")
      <4>1. Exchange!Fail
        BY <1>t, <1>p, <1>q, <2>9, <3>3 DEF HWrite, Exchange!Fail
      <4> QED
        BY <2>9, <4>1 DEF HWrite, Exchange!Next, Exchange!Step
    <3> QED
      BY <2>9, <3>1, <3>2, <3>3 DEF HWrite
  <2> QED
    BY <1>4, <2>1, <2>2, <2>3, <2>4, <2>5, <2>6, <2>7, <2>8, <2>9 DEF HStep, HTurn
<1>5. CASE BParse
  <2>1. /\ mDataReadSize' = mDataReadSize
        /\ mBodyContentLength' = mBodyContentLength
    BY <1>5, ParseUnseen DEF BParse, IInv, PcInv
  <2> QED
    BY <1>1, <1>5, <2>1 DEF BParse
<1>6. CASE (BStart \/ BAborts) /\ process' = "aborted"
  <2>1. client # "open" \/ hPc = "done"
    BY <1>6 DEF BStart, BAborts, IInv, EndInv
  <2>2. Exchange!GoDown
    BY <1>p, <1>6, <2>1 DEF BStart, BAborts, Exchange!GoDown, ExchangePhase
  <2> QED
    BY <1>6, <2>2 DEF BStart, BAborts, Exchange!Next
<1>7. CASE BStep
  <2>1. CASE BStart /\ UNCHANGED process
    BY <1>1, <2>1 DEF BStart
  <2> QED
    BY <1>5, <1>6, <1>7, <2>1 DEF BStep, BStart, BAborts, BTerminates
<1>8. CASE UNCHANGED vars
  BY <1>1, <1>8 DEF vars
<1> QED
  BY <1>2, <1>3, <1>4, <1>7, <1>8 DEF Next, Terminated

\* Whatever H, B, the timer and the client do, the connection is an exchange
\* as RequestExchange describes it (http_connection.cpp:69-110).
THEOREM Refinement == Spec => RefinesExchange
<1>1. Init => Exchange!Init
  BY DEF Init, ReaderInit, Exchange!Init, ExchangePhase, Running
<1> QED
  BY <1>1, Invariance, StepRefines, PTL DEF Spec, RefinesExchange,
     Exchange!Spec

=============================================================================
