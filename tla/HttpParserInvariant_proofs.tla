--------------------- MODULE HttpParserInvariant_proofs ---------------------
(***************************************************************************)
(* The invariant of HttpParser, what the ways for a step to end need to    *)
(* preserve it, and that the steps up to the end of the headers do.        *)
(*                                                                         *)
(* The invariant is stated of a struct q, local variables x and a history  *)
(* l, so that a lemma on a way for a step to end (Fail, Break, Loop, a     *)
(* callback) can say what it needs of the q, x and l it is given.  Then    *)
(* there is one lemma per action, and those on what the action is built    *)
(* from before it.                                                         *)
(***************************************************************************)
EXTENDS HttpParser, TLAPS, SequenceTheorems, FiniteSetTheorems, WellFoundedInduction

-----------------------------------------------------------------------------
(* The invariant. *)

DataKinds == {"header_field", "header_value", "url", "body", "status"}
CallbackNames == DOMAIN CallbackErrors

IsStruct(q) ==
  /\ DOMAIN q = {"type", "state", "header_state", "index", "flags", "uses_transfer_encoding",
                 "nread", "content_length", "http_major", "http_minor", "status_code",
                 "method", "errno", "upgrade"}
  /\ q.type \in {"REQUEST", "RESPONSE", "BOTH"}
  /\ q.state \in States /\ q.header_state \in HeaderStates
  /\ q.index \in 0..31 /\ q.flags \in SUBSET Flags
  /\ q.uses_transfer_encoding \in BOOLEAN /\ q.nread \in Nat
  /\ q.content_length \in 0..MaxLength
  /\ q.http_major \in 0..9 /\ q.http_minor \in 0..9 /\ q.status_code \in 0..999
  /\ q.method \in Methods /\ q.errno \in Errors /\ q.upgrade \in BOOLEAN

IsLocals(x) ==
  /\ DOMAIN x = {"pc", "p", "end", "nread", "start", "marks"}
  /\ x.pc \in {"idle", "fetch", "switch", "loop", "closed"}
  /\ x.p \in 1..Len(stream) + 1 /\ x.end \in 0..Len(stream)
  /\ x.nread \in Nat /\ x.start \in Nat
  /\ x.marks \in [DataKinds -> 0..Len(stream)]

History == Seq([callback : CallbackNames, from : Nat, to : Nat])
LastOf(l) == IF l = <<>> THEN "none" ELSE Last(l).callback

CallPcs == {"fetch", "switch", "loop"}

\* Where a call stands in its piece.
Place(q, x) ==
  /\ x.pc = "switch" => x.p <= x.end
  /\ x.pc \in {"fetch", "loop"} => x.p <= x.end + 1
  /\ x.pc = "loop" => /\ x.start \in 1..x.p /\ x.start <= x.end
                      /\ q.state \in {"s_header_field", "s_header_value"}
  /\ x.pc \notin CallPcs => \A m \in DataKinds : x.marks[m] = 0

\* Nothing is forgotten of what a body and its chunks are measured by.
Measured(q) ==
  /\ q.state \in {"s_body_identity", "s_chunk_data"} => q.content_length \notin {0, MaxLength}
  /\ q.state \in {"s_chunk_size", "s_chunk_parameters", "s_chunk_size_almost_done"} =>
       q.content_length # MaxLength
  /\ q.state = "s_chunk_data_almost_done" => q.content_length = 0
  /\ q.state \in {"s_chunk_size_start", "s_chunk_size", "s_chunk_parameters",
                  "s_chunk_size_almost_done", "s_chunk_data", "s_chunk_data_almost_done",
                  "s_chunk_data_done"} => "F_CHUNKED" \in q.flags
  /\ "F_CONTENTLENGTH" \in q.flags => q.content_length # MaxLength

\* The index is inside the word that is compared.
Words(q) ==
  /\ q.state = "s_req_method" => q.index <= 30
  /\ q.state = "s_header_field" =>
       /\ q.header_state \in NameStates
       /\ q.header_state = "h_C" => q.index = 0
       /\ q.header_state = "h_CO" => q.index = 1
       /\ q.header_state = "h_CON" => q.index = 2
       /\ q.header_state \in DOMAIN FieldWords =>
            q.index + 1 < Len(FieldWords[q.header_state].word)
  /\ q.state = "s_header_value" =>
       /\ q.header_state \notin {"h_connection", "h_transfer_encoding"}
       /\ q.header_state \in {"h_matching_connection_token_start",
                              "h_matching_transfer_encoding_token_start"} => q.index = 0
       /\ q.header_state \in DOMAIN ValueWords =>
            q.index + 1 < Len(ValueWords[q.header_state].word)

\* The size of a chunk is counted from its first byte.
ChunkCounts(q, x) ==
  q.state = "s_chunk_size_start" =>
    /\ x.pc = "switch" => x.nread = 1
    /\ x.pc = "fetch" => x.nread = 0
    /\ x.pc = "idle" => q.nread = 0

\* The states in the middle of some data, and which.
BodyMarkStates == {"s_body_identity", "s_body_identity_eof", "s_chunk_data",
                   "s_chunk_data_almost_done"}
TextMarkStates == UrlStates \cup {"s_res_status", "s_header_field", "s_header_value"}
DatumOf(state) == IF state \in BodyMarkStates THEN "body" ELSE MarkOfState(state)

\* Only the data of the state is marked; what is looked at is, in a body from
\* its first byte on.
Marking(q, x, c) ==
  /\ \A m \in DataKinds : x.marks[m] # 0 => m = DatumOf(q.state)
  /\ (x.pc \in {"switch", "loop"} \/ (x.pc = "fetch" /\ x.p <= x.end))
     /\ q.state \in TextMarkStates => x.marks[MarkOfState(q.state)] # 0
  /\ q.state = "s_chunk_data_almost_done" /\ x.marks["body"] = 0 => c = "body"

StartStates == {"s_dead", "s_start_req_or_res", "s_start_res", "s_start_req"}
BeginStates == {"s_res_or_resp_H", "s_res_H", "s_res_HT", "s_res_HTT", "s_res_HTTP",
                "s_res_http_major", "s_res_http_dot", "s_res_http_minor", "s_res_http_end",
                "s_res_first_status_code", "s_res_status_code", "s_res_status_start",
                "s_req_method", "s_req_spaces_before_url"}
UrlEndStates == {"s_req_http_start", "s_req_http_H", "s_req_http_HT", "s_req_http_HTT",
                 "s_req_http_HTTP", "s_req_http_I", "s_req_http_IC", "s_req_http_major",
                 "s_req_http_dot", "s_req_http_minor", "s_req_http_end",
                 "s_req_line_almost_done"}
DiscardStates == {"s_header_value_discard_ws", "s_header_value_discard_ws_almost_done",
                  "s_header_value_discard_lws"}
ValueEndStates == {"s_header_almost_done", "s_header_value_lws", "s_header_value_start"}
LineStartStates == {"s_header_field_start", "s_headers_almost_done"}
SizeStates == {"s_chunk_size_start", "s_chunk_size", "s_chunk_parameters",
               "s_chunk_size_almost_done"}

\* What may have been called back before a line of the headers.
BeforeLine(q) == IF "F_TRAILING" \in q.flags THEN {"chunk_header", "header_value"}
                 ELSE {"url", "status", "header_value"}

\* The last callback c, by the state and whether trailers are read.
Order(q, c) ==
  /\ q.state \in StartStates => c \in {"none", "message_complete"}
  /\ q.state \in BeginStates => c = "message_begin"
  /\ q.state = "s_res_status" => c \in {"message_begin", "status"}
  /\ q.state = "s_res_line_almost_done" => c = "status"
  /\ q.state \in UrlStates => c \in {"message_begin", "url"}
  /\ q.state \in UrlEndStates => c = "url"
  /\ q.state \in LineStartStates => c \in BeforeLine(q)
  /\ q.state = "s_header_field" => c \in BeforeLine(q) \cup {"header_field"}
  /\ q.state \in DiscardStates => c = "header_field"
  /\ q.state = "s_header_value" => c \in {"header_field", "header_value"}
  /\ q.state \in ValueEndStates => c = "header_value"
  /\ q.state = "s_headers_done" => c = "headers_complete"
  /\ q.state \in {"s_body_identity", "s_body_identity_eof"} => c \in {"headers_complete", "body"}
  /\ q.state = "s_message_done" =>
       c = IF "F_TRAILING" \in q.flags THEN "chunk_complete" ELSE "body"
  /\ q.state \in SizeStates => c \in {"headers_complete", "chunk_complete"}
  /\ q.state \in {"s_chunk_data", "s_chunk_data_almost_done"} => c \in {"chunk_header", "body"}
  /\ q.state = "s_chunk_data_done" => c = "body"

NoTrailers(q) ==
  q.state \in BeginStates \cup UrlStates \cup UrlEndStates \cup SizeStates
              \cup {"s_res_status", "s_res_line_almost_done", "s_headers_done",
                    "s_body_identity", "s_body_identity_eof", "s_chunk_data",
                    "s_chunk_data_almost_done", "s_chunk_data_done"}
    => "F_TRAILING" \notin q.flags

\* What holds of the struct, and of where the call stands.
Settled(q, c) == Measured(q) /\ Words(q) /\ Order(q, c) /\ NoTrailers(q)
Sound(q, x, c) == Settled(q, c) /\ ChunkCounts(q, x) /\ Marking(q, x, c)

Inv(q, x, l) ==
  /\ IsStruct(q) /\ IsLocals(x) /\ l \in History
  /\ Place(q, x)
  /\ x.pc \in CallPcs => q.errno = "OK"
  /\ x.pc # "closed" /\ q.errno \in {"OK", "PAUSED"} => Sound(q, x, LastOf(l))

IInv == stream \in Streams /\ Inv(parser, exec, log)

-----------------------------------------------------------------------------
(* The ways a step ends. *)

LEMMA DataNames == DOMAIN NoMarks = DataKinds
  BY DEF NoMarks, DataKinds

LEMMA StreamLength == ASSUME stream \in Streams PROVE Len(stream) \in Nat /\ stream \in Seq(STRING)
  BY ParserAssumption

LEMMA NoMarksZero == \A m \in DataKinds : NoMarks[m] = 0
  BY DEF NoMarks, DataKinds

\* The local variables of a call that has returned.
LEMMA ReturnedLocals ==
  ASSUME stream \in Streams, NEW x, IsLocals(x), NEW next \in 1..Len(stream) + 1,
         NEW y, y = Returned(x, next)
  PROVE  /\ IsLocals(y)
         /\ y.pc = "idle" /\ y.end = 0 /\ y.nread = 0
         /\ \A m \in DataKinds : y.marks[m] = 0
<1>1. /\ DOMAIN y = DOMAIN x /\ y.pc = "idle" /\ y.end = 0 /\ y.nread = 0 /\ y.start = 0
      /\ y.marks = NoMarks /\ y.p = IF IgnoresResult THEN x.end + 1 ELSE next
  BY DEF Returned, IsLocals
<1>2. NoMarks \in [DataKinds -> 0..Len(stream)]
  BY StreamLength DEF NoMarks, DataKinds
<1>3. y.p \in 1..Len(stream) + 1
  BY <1>1, StreamLength DEF IsLocals
<1> QED
  BY <1>1, <1>2, <1>3, NoMarksZero, StreamLength DEF IsLocals

\* An error: nothing more is asked of the struct than its type.
LEMMA FailStep ==
  ASSUME stream \in Streams, log \in History, NEW q, IsStruct(q), NEW x, IsLocals(x),
         NEW error \in Errors \ {"OK", "PAUSED"}, Fail(q, x, error)
  PROVE  Inv(parser', exec', log')
<1>1. /\ IsStruct(parser') /\ parser'.errno = error
  BY DEF Fail, RETURN, IsStruct, IsLocals
<1>2. exec' = Returned(x, x.p) /\ log' = log
  BY DEF Fail, RETURN
<1>3. x.p \in 1..Len(stream) + 1
  BY DEF IsLocals
<1>4. /\ IsLocals(exec') /\ exec'.pc = "idle"
      /\ \A m \in DataKinds : exec'.marks[m] = 0
  BY <1>2, <1>3, ReturnedLocals
<1> QED
  BY <1>1, <1>2, <1>4 DEF Inv, Place, CallPcs

\* On to the next byte.
LEMMA AdvanceStep ==
  ASSUME stream \in Streams, log' \in History, NEW q, IsStruct(q), NEW x, IsLocals(x),
         x.p <= x.end, q.errno = "OK", Advance(q, x),
         NEW y, y = [x EXCEPT !.pc = "fetch", !.p = @ + 1], Sound(q, y, LastOf(log'))
  PROVE  Inv(parser', exec', log')
<1>1. parser' = q /\ exec' = y
  BY DEF Advance
<1>2. y.pc = "fetch" /\ y.p = x.p + 1 /\ y.end = x.end /\ y.nread = x.nread /\ y.start = x.start
      /\ y.marks = x.marks /\ DOMAIN y = DOMAIN x
  BY DEF IsLocals
<1>3. IsLocals(y) /\ Place(q, y)
  BY <1>2, StreamLength DEF IsLocals, Place, CallPcs
<1> QED
  BY <1>1, <1>2, <1>3 DEF Inv, CallPcs

LEMMA BreakStep ==
  ASSUME stream \in Streams, log \in History, NEW q, IsStruct(q), NEW x, IsLocals(x),
         x.p <= x.end, q.errno = "OK", Break(q, x),
         NEW y, y = [x EXCEPT !.pc = "fetch", !.p = @ + 1], Sound(q, y, LastOf(log))
  PROVE  Inv(parser', exec', log')
<1>1. Advance(q, x) /\ log' = log
  BY DEF Break
<1> QED
  BY <1>1, AdvanceStep

\* The same byte again, in the state of q.
LEMMA ReexecuteStep ==
  ASSUME stream \in Streams, log' \in History, NEW q, IsStruct(q), NEW x, IsLocals(x),
         x.p <= x.end, q.errno = "OK", REEXECUTE(q, x),
         NEW y, y = [x EXCEPT !.pc = "switch"], Sound(q, y, LastOf(log'))
  PROVE  Inv(parser', exec', log')
<1>1. parser' = q /\ exec' = y
  BY DEF REEXECUTE
<1>2. y.pc = "switch" /\ y.p = x.p /\ y.end = x.end /\ y.nread = x.nread /\ y.start = x.start
      /\ y.marks = x.marks /\ DOMAIN y = DOMAIN x
  BY DEF IsLocals
<1>3. IsLocals(y) /\ Place(q, y)
  BY <1>2 DEF IsLocals, Place, CallPcs
<1> QED
  BY <1>1, <1>2, <1>3 DEF Inv, CallPcs

LEMMA AgainStep ==
  ASSUME stream \in Streams, log \in History, NEW q, IsStruct(q), NEW x, IsLocals(x),
         x.p <= x.end, q.errno = "OK", Again(q, x),
         NEW y, y = [x EXCEPT !.pc = "switch"], Sound(q, y, LastOf(log))
  PROVE  Inv(parser', exec', log')
<1>1. REEXECUTE(q, x) /\ log' = log
  BY DEF Again
<1> QED
  BY <1>1, ReexecuteStep

\* MARK sets the mark of its data and nothing else.
LEMMA MarkSets ==
  ASSUME stream \in Streams, NEW x, IsLocals(x), x.p <= Len(stream), NEW data \in DataKinds,
         NEW y, y = MARK(x, data)
  PROVE  /\ IsLocals(y)
         /\ y.pc = x.pc /\ y.p = x.p /\ y.end = x.end /\ y.nread = x.nread /\ y.start = x.start
         /\ y.marks[data] # 0
         /\ \A m \in DataKinds \ {data} : y.marks[m] = x.marks[m]
<1>1. CASE x.marks[data] = 0
  <2>1. y = [x EXCEPT !.marks = [x.marks EXCEPT ![data] = x.p]]
    BY <1>1 DEF MARK
  <2> DEFINE w == [x.marks EXCEPT ![data] = x.p]
  <2>2. /\ w \in [DataKinds -> 0..Len(stream)] /\ w[data] # 0
        /\ \A m \in DataKinds \ {data} : w[m] = x.marks[m]
    BY StreamLength DEF IsLocals
  <2>3. /\ DOMAIN y = DOMAIN x /\ y.marks = w /\ y.pc = x.pc /\ y.p = x.p /\ y.end = x.end
        /\ y.nread = x.nread /\ y.start = x.start
    BY <2>1 DEF IsLocals
  <2> HIDE DEF w
  <2> QED
    BY <2>2, <2>3 DEF IsLocals
<1>2. CASE x.marks[data] # 0
  BY <1>2 DEF MARK
<1> QED
  BY <1>1, <1>2

\* Passing data on takes its mark away.
Unmark(x, data) == [x EXCEPT !.marks[data] = 0]

LEMMA Unmarked ==
  ASSUME stream \in Streams, NEW x, IsLocals(x), NEW data \in DataKinds,
         NEW y, y = Unmark(x, data)
  PROVE  /\ IsLocals(y)
         /\ y.pc = x.pc /\ y.p = x.p /\ y.end = x.end /\ y.nread = x.nread /\ y.start = x.start
         /\ y.marks[data] = 0
         /\ \A m \in DataKinds \ {data} : y.marks[m] = x.marks[m]
<1> DEFINE w == [x.marks EXCEPT ![data] = 0]
<1>1. /\ w \in [DataKinds -> 0..Len(stream)] /\ w[data] = 0
      /\ \A m \in DataKinds \ {data} : w[m] = x.marks[m]
  BY StreamLength DEF IsLocals
<1>2. /\ DOMAIN y = DOMAIN x /\ y.marks = w /\ y.pc = x.pc /\ y.p = x.p /\ y.end = x.end
      /\ y.nread = x.nread /\ y.start = x.start
  BY DEF IsLocals, Unmark
<1> HIDE DEF w
<1> QED
  BY <1>1, <1>2 DEF IsLocals

\* The history stays one, and ends with the callback made last.
LEMMA RecordStep ==
  ASSUME log \in History, NEW callback \in CallbackNames, NEW from \in Nat, NEW to \in Nat,
         NEW l, l = Record(callback, from, to)
  PROVE  l \in History /\ l # <<>> /\ Last(l).callback = callback /\ LastOf(l) = callback
<1> DEFINE Entry == [callback : CallbackNames, from : Nat, to : Nat]
<1>0. log \in Seq(Entry)
  BY DEF History
<1>1. CASE log # <<>> /\ Last(log).callback = callback /\ Last(log).to + 1 = from
  <2> DEFINE n == Len(log)
             e == [log[n] EXCEPT !.to = to]
  <2>1. l = [log EXCEPT ![n] = e]
    BY <1>1 DEF Record
  <2>2. n \in 1..Len(log) /\ log[n] \in Entry
    <3> HIDE DEF Entry
    <3>1. Len(log) \in Nat /\ Len(log) # 0
      BY <1>0, <1>1, EmptySeq
    <3> QED
      BY <1>0, <3>1
  <2>3. e \in Entry /\ e.callback = callback
    BY <1>1, <2>2 DEF Last
  <2> HIDE DEF Entry, e
  <2>4. l \in Seq(Entry) /\ Len(l) = n /\ l[n] = e
    BY <1>0, <2>1, <2>2, <2>3
  <2> QED
    BY <2>2, <2>3, <2>4 DEF Last, LastOf, History, Entry
<1>2. CASE ~(log # <<>> /\ Last(log).callback = callback /\ Last(log).to + 1 = from)
  <2> DEFINE e == [callback |-> callback, from |-> from, to |-> to]
  <2>1. l = Append(log, e)
    BY <1>2 DEF Record
  <2>2. e \in Entry /\ e.callback = callback
    OBVIOUS
  <2> HIDE DEF Entry, e
  <2>3. l \in Seq(Entry) /\ Len(l) = Len(log) + 1 /\ l[Len(log) + 1] = e
    BY <1>0, <2>1, <2>2
  <2> QED
    BY <1>0, <2>2, <2>3 DEF Last, LastOf, History, Entry
<1> QED
  BY <1>1, <1>2

\* What holds of a step's struct still holds when the call returns behind it.
LEMMA SoundWhenIdle ==
  ASSUME NEW q, NEW x, NEW c, Sound(q, x, c), NEW r, NEW y,
         r.state = q.state, r.header_state = q.header_state, r.index = q.index,
         r.flags = q.flags, r.content_length = q.content_length,
         y.pc = "idle", \A m \in DataKinds : y.marks[m] = 0,
         q.state = "s_chunk_size_start" => r.nread = 0,
         q.state = "s_chunk_data_almost_done" => c = "body"
  PROVE  Sound(r, y, c)
<1>1. Measured(r) /\ Words(r)
  BY DEF Sound, Settled, Measured, Words
<1>2. Order(r, c) /\ NoTrailers(r)
  BY DEF Sound, Settled, Order, BeforeLine, NoTrailers
<1>3. ChunkCounts(r, y) /\ Marking(r, y, c)
  BY DEF ChunkCounts, Marking
<1> QED
  BY <1>1, <1>2, <1>3 DEF Sound, Settled

\* A callback has ended the call.
Stopped(q, x, callback, next) ==
  \E answer \in Answers(callback, stream) \ {"ok"} : Stop(q, x, callback, answer, next)

LEMMA StopStep ==
  ASSUME stream \in Streams, log' \in History, NEW q, IsStruct(q), NEW x, IsLocals(x),
         NEW callback \in CallbackNames, NEW next \in 1..Len(stream) + 1,
         Stopped(q, x, callback, next), q.errno = "OK",
         NEW y, Sound(q, y, LastOf(log')),
         q.state = "s_chunk_size_start" => q.nread = 0,
         q.state = "s_chunk_data_almost_done" => LastOf(log') = "body"
  PROVE  Inv(parser', exec', log')
<1>1. PICK answer \in Answers(callback, stream) \ {"ok"} : Stop(q, x, callback, answer, next)
  BY DEF Stopped
<1>2. exec' = Returned(x, next)
  BY <1>1 DEF Stop
<1>3. IsLocals(exec') /\ exec'.pc = "idle" /\ \A m \in DataKinds : exec'.marks[m] = 0
  BY <1>2, ReturnedLocals
<1>4. CASE answer = "pause"
  <2>1. parser' = [q EXCEPT !.errno = "PAUSED", !.nread = q.nread]
    BY <1>1, <1>4 DEF Stop
  <2>2. /\ IsStruct(parser')
        /\ parser'.state = q.state /\ parser'.header_state = q.header_state
        /\ parser'.index = q.index /\ parser'.flags = q.flags
        /\ parser'.content_length = q.content_length /\ parser'.nread = q.nread
    BY <2>1 DEF IsStruct, Errors
  <2>3. Sound(parser', exec', LastOf(log'))
    BY <1>3, <2>2, SoundWhenIdle
  <2> QED
    BY <1>3, <2>2, <2>3 DEF Inv, Place, CallPcs
<1>5. CASE answer # "pause"
  <2>1. parser' = [q EXCEPT !.errno = CallbackErrors[callback], !.nread = x.nread]
    BY <1>1, <1>5 DEF Stop
  <2>2. CallbackErrors[callback] \in Errors \ {"OK", "PAUSED"}
    BY DEF CallbackNames, CallbackErrors, Errors, Range
  <2>3. IsStruct(parser') /\ parser'.errno \notin {"OK", "PAUSED"}
    BY <2>1, <2>2 DEF IsStruct, IsLocals
  <2> QED
    BY <1>3, <2>3 DEF Inv, Place, CallPcs
<1> QED
  BY <1>4, <1>5

\* The call returns, with the bytes before next used up.
LEMMA ReturnStep ==
  ASSUME stream \in Streams, log' \in History, NEW q, IsStruct(q), NEW x, IsLocals(x),
         NEW next \in 1..Len(stream) + 1, RETURN(q, x, next),
         NEW y, q.errno \in {"OK", "PAUSED"} => Sound(q, y, LastOf(log')),
         q.state = "s_chunk_size_start" => x.nread = 0,
         q.state = "s_chunk_data_almost_done" => LastOf(log') = "body"
  PROVE  Inv(parser', exec', log')
<1>1. parser' = [q EXCEPT !.nread = x.nread] /\ exec' = Returned(x, next)
  BY DEF RETURN
<1>2. IsLocals(exec') /\ exec'.pc = "idle" /\ \A m \in DataKinds : exec'.marks[m] = 0
  BY <1>1, ReturnedLocals
<1>3. /\ IsStruct(parser')
      /\ parser'.state = q.state /\ parser'.header_state = q.header_state
      /\ parser'.index = q.index /\ parser'.flags = q.flags /\ parser'.errno = q.errno
      /\ parser'.content_length = q.content_length /\ parser'.nread = x.nread
  BY <1>1 DEF IsStruct, IsLocals
<1>4. q.errno \in {"OK", "PAUSED"} => Sound(parser', exec', LastOf(log'))
  BY <1>2, <1>3, SoundWhenIdle
<1> QED
  BY <1>2, <1>3, <1>4 DEF Inv, Place, CallPcs

-----------------------------------------------------------------------------
(* Steps in the states that mark no data. *)

MarkStates == BodyMarkStates \cup TextMarkStates

\* What every step of the switch begins with.
LEMMA InSwitch ==
  ASSUME IInv, exec.pc = "switch"
  PROVE  /\ stream \in Streams /\ log \in History
         /\ IsStruct(parser) /\ IsLocals(exec) /\ parser.errno = "OK"
         /\ exec.p <= exec.end /\ exec.p \in 1..Len(stream)
         /\ Sound(parser, exec, LastOf(log)) /\ Settled(parser, LastOf(log))
<1>1. exec.p <= exec.end
  BY DEF IInv, Inv, Place
<1>2. exec.p \in 1..Len(stream)
  BY <1>1, StreamLength DEF IInv, Inv, IsLocals
<1> QED
  BY <1>1, <1>2 DEF IInv, Inv, CallPcs, Sound

LEMMA NothingMarked ==
  ASSUME IInv, exec.pc = "switch", parser.state \notin MarkStates
  PROVE  \A m \in DataKinds : exec.marks[m] = 0
BY InSwitch DEF Sound, Marking, MarkStates, DatumOf, MarkOfState, TextMarkStates, BodyMarkStates,
                DataKinds, IsLocals

LEMMA UnmarkedSound ==
  ASSUME NEW q, NEW x, NEW c, q.state \notin MarkStates, Settled(q, c),
         \A m \in DataKinds : x.marks[m] = 0,
         q.state = "s_chunk_size_start" => x.pc = "fetch" /\ x.nread = 0
  PROVE  Sound(q, x, c)
<1>1. ChunkCounts(q, x)
  BY DEF ChunkCounts
<1>2. Marking(q, x, c)
  BY DEF Marking, MarkStates, TextMarkStates, BodyMarkStates
<1> QED
  BY <1>1, <1>2 DEF Sound

LEMMA PlainAdvance ==
  ASSUME stream \in Streams, log' \in History, NEW q, IsStruct(q), NEW x, IsLocals(x),
         x.p <= x.end, q.errno = "OK", Advance(q, x), q.state \notin MarkStates,
         \A m \in DataKinds : x.marks[m] = 0, Settled(q, LastOf(log')),
         q.state = "s_chunk_size_start" => x.nread = 0
  PROVE  Inv(parser', exec', log')
<1> DEFINE y == [x EXCEPT !.pc = "fetch", !.p = @ + 1]
<1>1. y.pc = "fetch" /\ y.nread = x.nread /\ y.marks = x.marks
  BY DEF IsLocals
<1> HIDE DEF y
<1>2. Sound(q, y, LastOf(log'))
  BY <1>1, UnmarkedSound
<1> QED
  BY <1>2, AdvanceStep DEF y

LEMMA PlainReexecute ==
  ASSUME stream \in Streams, log' \in History, NEW q, IsStruct(q), NEW x, IsLocals(x),
         x.p <= x.end, q.errno = "OK", REEXECUTE(q, x), q.state \notin MarkStates,
         \A m \in DataKinds : x.marks[m] = 0, Settled(q, LastOf(log')),
         q.state # "s_chunk_size_start"
  PROVE  Inv(parser', exec', log')
<1> DEFINE y == [x EXCEPT !.pc = "switch"]
<1>1. y.marks = x.marks
  BY DEF IsLocals
<1> HIDE DEF y
<1>2. Sound(q, y, LastOf(log'))
  BY <1>1, UnmarkedSound
<1> QED
  BY <1>2, ReexecuteStep DEF y

\* From one state without a mark to another.
LEMMA PlainBreak ==
  ASSUME IInv, exec.pc = "switch", parser.state \notin MarkStates,
         NEW q, IsStruct(q), q.errno = "OK", Break(q, exec), q.state \notin MarkStates,
         q.state # "s_chunk_size_start", Settled(q, LastOf(log))
  PROVE  Inv(parser', exec', log')
BY InSwitch, NothingMarked, PlainAdvance DEF Break

LEMMA PlainAgain ==
  ASSUME IInv, exec.pc = "switch", parser.state \notin MarkStates,
         NEW q, IsStruct(q), q.errno = "OK", Again(q, exec), q.state \notin MarkStates,
         q.state # "s_chunk_size_start", Settled(q, LastOf(log))
  PROVE  Inv(parser', exec', log')
BY InSwitch, NothingMarked, PlainReexecute DEF Again

LEMMA PlainFail ==
  ASSUME IInv, exec.pc = "switch", NEW q, IsStruct(q),
         NEW error \in Errors \ {"OK", "PAUSED"}, Fail(q, exec, error)
  PROVE  Inv(parser', exec', log')
BY InSwitch, FailStep

\* A callback that only notifies, after which the next byte is looked at, or
\* this one again, or the call returns.
Leave(q, x) == RETURN(q, x, x.p + 1)

LEMMA PlainNotify ==
  ASSUME IInv, exec.pc = "switch", NEW q, IsStruct(q), q.errno = "OK", NEW x, IsLocals(x),
         x.p = exec.p, x.end = exec.end, \A m \in DataKinds : x.marks[m] = 0,
         NEW callback \in CallbackNames, NEW next \in 1..Len(stream) + 1,
         log' = Record(callback, x.p, x.p),
         \/ Advance(q, x)
         \/ REEXECUTE(q, x) /\ q.state # "s_chunk_size_start"
         \/ Leave(q, x)
         \/ Stopped(q, x, callback, next),
         q.state \notin MarkStates, Settled(q, callback),
         q.state = "s_chunk_size_start" => x.nread = 0 /\ q.nread = 0
  PROVE  Inv(parser', exec', log')
<1>1. /\ stream \in Streams /\ log \in History
      /\ x.p \in 1..Len(stream) /\ x.p <= x.end /\ Len(stream) \in Nat
  BY InSwitch, StreamLength
<1>2. log' \in History /\ LastOf(log') = callback
  BY <1>1, RecordStep
<1>3. CASE Advance(q, x)
  BY <1>1, <1>2, <1>3, PlainAdvance
<1>4. CASE REEXECUTE(q, x) /\ q.state # "s_chunk_size_start"
  BY <1>1, <1>2, <1>4, PlainReexecute
<1>5. Sound(q, [pc |-> "fetch", nread |-> 0, marks |-> x.marks], callback)
  BY UnmarkedSound
<1>6. q.state # "s_chunk_data_almost_done"
  BY DEF MarkStates, BodyMarkStates
<1>7. CASE Leave(q, x)
  <2>1. RETURN(q, x, x.p + 1) /\ x.p + 1 \in 1..Len(stream) + 1
    BY <1>1, <1>7 DEF Leave
  <2> QED
    BY <1>1, <1>2, <1>5, <1>6, <2>1, ReturnStep
<1>8. CASE Stopped(q, x, callback, next)
  BY <1>1, <1>2, <1>5, <1>6, <1>8, StopStep
<1> QED
  BY <1>3, <1>4, <1>7, <1>8

\* The name of the state decides which conjuncts of Settled speak of it.
LEMMA StartSettled ==
  ASSUME NEW q, NEW c, q.state \in StartStates, c \in {"none", "message_complete"},
         "F_CONTENTLENGTH" \in q.flags => q.content_length # MaxLength
  PROVE  Settled(q, c) /\ q.state \notin MarkStates
BY DEF Settled, Measured, Words, Order, NoTrailers, StartStates, BeginStates,
       UrlStates, UrlEndStates, LineStartStates, DiscardStates, ValueEndStates,
       SizeStates, MarkStates, BodyMarkStates, TextMarkStates

LEMMA BeginSettled ==
  ASSUME NEW q, NEW c, q.state \in BeginStates, c = "message_begin",
         q.state = "s_req_method" => q.index <= 30,
         "F_TRAILING" \notin q.flags,
         "F_CONTENTLENGTH" \in q.flags => q.content_length # MaxLength
  PROVE  Settled(q, c) /\ q.state \notin MarkStates
BY DEF Settled, Measured, Words, Order, NoTrailers, StartStates, BeginStates,
       UrlStates, UrlEndStates, LineStartStates, DiscardStates, ValueEndStates,
       SizeStates, MarkStates, BodyMarkStates, TextMarkStates

LEMMA UrlEndSettled ==
  ASSUME NEW q, NEW c, q.state \in UrlEndStates, c = "url",
         "F_TRAILING" \notin q.flags,
         "F_CONTENTLENGTH" \in q.flags => q.content_length # MaxLength
  PROVE  Settled(q, c) /\ q.state \notin MarkStates
BY DEF Settled, Measured, Words, Order, NoTrailers, StartStates, BeginStates,
       UrlStates, UrlEndStates, LineStartStates, DiscardStates, ValueEndStates,
       SizeStates, MarkStates, BodyMarkStates, TextMarkStates

LEMMA LineStartSettled ==
  ASSUME NEW q, NEW c, q.state \in LineStartStates, c \in BeforeLine(q),
         "F_CONTENTLENGTH" \in q.flags => q.content_length # MaxLength
  PROVE  Settled(q, c) /\ q.state \notin MarkStates
BY DEF Settled, Measured, Words, Order, NoTrailers, StartStates, BeginStates,
       UrlStates, UrlEndStates, LineStartStates, DiscardStates, ValueEndStates,
       SizeStates, MarkStates, BodyMarkStates, TextMarkStates

LEMMA DiscardSettled ==
  ASSUME NEW q, NEW c, q.state \in DiscardStates, c = "header_field",
         "F_CONTENTLENGTH" \in q.flags => q.content_length # MaxLength
  PROVE  Settled(q, c) /\ q.state \notin MarkStates
BY DEF Settled, Measured, Words, Order, NoTrailers, StartStates, BeginStates,
       UrlStates, UrlEndStates, LineStartStates, DiscardStates, ValueEndStates,
       SizeStates, MarkStates, BodyMarkStates, TextMarkStates

LEMMA ValueEndSettled ==
  ASSUME NEW q, NEW c, q.state \in ValueEndStates, c = "header_value",
         "F_CONTENTLENGTH" \in q.flags => q.content_length # MaxLength
  PROVE  Settled(q, c) /\ q.state \notin MarkStates
BY DEF Settled, Measured, Words, Order, NoTrailers, StartStates, BeginStates,
       UrlStates, UrlEndStates, LineStartStates, DiscardStates, ValueEndStates,
       SizeStates, MarkStates, BodyMarkStates, TextMarkStates

LEMMA SizeSettled ==
  ASSUME NEW q, NEW c, q.state \in SizeStates, c \in {"headers_complete", "chunk_complete"},
         "F_TRAILING" \notin q.flags,
         "F_CHUNKED" \in q.flags,
         q.state # "s_chunk_size_start" => q.content_length # MaxLength,
         "F_CONTENTLENGTH" \in q.flags => q.content_length # MaxLength
  PROVE  Settled(q, c) /\ q.state \notin MarkStates
BY DEF Settled, Measured, Words, Order, NoTrailers, StartStates, BeginStates,
       UrlStates, UrlEndStates, LineStartStates, DiscardStates, ValueEndStates,
       SizeStates, MarkStates, BodyMarkStates, TextMarkStates

\* What is known in the states of a group.
LEMMA InStart ==
  ASSUME IInv, exec.pc = "switch", parser.state \in StartStates
  PROVE  parser.state \notin MarkStates /\ LastOf(log) \in {"none", "message_complete"}
BY InSwitch DEF Settled, Order, StartStates, MarkStates, BodyMarkStates, TextMarkStates, UrlStates

LEMMA InBegin ==
  ASSUME IInv, exec.pc = "switch", parser.state \in BeginStates
  PROVE  /\ parser.state \notin MarkStates /\ LastOf(log) = "message_begin"
         /\ "F_TRAILING" \notin parser.flags
BY InSwitch DEF Settled, Order, NoTrailers, BeginStates, MarkStates, BodyMarkStates,
                TextMarkStates, UrlStates

LEMMA InUrlEnd ==
  ASSUME IInv, exec.pc = "switch", parser.state \in UrlEndStates
  PROVE  /\ parser.state \notin MarkStates /\ LastOf(log) = "url"
         /\ "F_TRAILING" \notin parser.flags
BY InSwitch DEF Settled, Order, NoTrailers, UrlEndStates, MarkStates, BodyMarkStates,
                TextMarkStates, UrlStates

LEMMA InLineStart ==
  ASSUME IInv, exec.pc = "switch", parser.state \in LineStartStates
  PROVE  parser.state \notin MarkStates /\ LastOf(log) \in BeforeLine(parser)
BY InSwitch DEF Settled, Order, LineStartStates, MarkStates, BodyMarkStates, TextMarkStates,
                UrlStates

LEMMA InDiscard ==
  ASSUME IInv, exec.pc = "switch", parser.state \in DiscardStates
  PROVE  parser.state \notin MarkStates /\ LastOf(log) = "header_field"
BY InSwitch DEF Settled, Order, DiscardStates, MarkStates, BodyMarkStates, TextMarkStates,
                UrlStates

LEMMA InValueEnd ==
  ASSUME IInv, exec.pc = "switch", parser.state \in ValueEndStates
  PROVE  parser.state \notin MarkStates /\ LastOf(log) = "header_value"
BY InSwitch DEF Settled, Order, ValueEndStates, MarkStates, BodyMarkStates, TextMarkStates,
                UrlStates

LEMMA InSize ==
  ASSUME IInv, exec.pc = "switch", parser.state \in SizeStates
  PROVE  /\ parser.state \notin MarkStates
         /\ LastOf(log) \in {"headers_complete", "chunk_complete"}
         /\ "F_TRAILING" \notin parser.flags /\ "F_CHUNKED" \in parser.flags
         /\ parser.state # "s_chunk_size_start" => parser.content_length # MaxLength
BY InSwitch DEF Settled, Order, NoTrailers, Measured, SizeStates, MarkStates, BodyMarkStates,
                TextMarkStates, UrlStates

LEMMA LengthKept ==
  ASSUME IInv, exec.pc = "switch"
  PROVE  "F_CONTENTLENGTH" \in parser.flags => parser.content_length # MaxLength
BY InSwitch DEF Settled, Measured

-----------------------------------------------------------------------------
(* Steps that mark data or pass it on. *)

LEMMA UrlSettled ==
  ASSUME NEW q, NEW c, q.state \in UrlStates, c \in {"message_begin", "url"},
         "F_TRAILING" \notin q.flags,
         "F_CONTENTLENGTH" \in q.flags => q.content_length # MaxLength
  PROVE  Settled(q, c)
BY DEF Settled, Measured, Words, Order, NoTrailers, StartStates, BeginStates,
       UrlStates, UrlEndStates, LineStartStates, DiscardStates, ValueEndStates,
       SizeStates, MarkStates, BodyMarkStates, TextMarkStates

LEMMA StatusSettled ==
  ASSUME NEW q, NEW c, q.state = "s_res_status", c \in {"message_begin", "status"},
         "F_TRAILING" \notin q.flags,
         "F_CONTENTLENGTH" \in q.flags => q.content_length # MaxLength
  PROVE  Settled(q, c)
BY DEF Settled, Measured, Words, Order, NoTrailers, StartStates, BeginStates,
       UrlStates, UrlEndStates, LineStartStates, DiscardStates, ValueEndStates,
       SizeStates, MarkStates, BodyMarkStates, TextMarkStates

LEMMA FieldSettled ==
  ASSUME NEW q, NEW c, q.state = "s_header_field", c \in BeforeLine(q) \cup {"header_field"},
         Words(q),
         "F_CONTENTLENGTH" \in q.flags => q.content_length # MaxLength
  PROVE  Settled(q, c)
BY DEF Settled, Measured, Words, Order, NoTrailers, StartStates, BeginStates,
       UrlStates, UrlEndStates, LineStartStates, DiscardStates, ValueEndStates,
       SizeStates, MarkStates, BodyMarkStates, TextMarkStates

LEMMA ValueSettled ==
  ASSUME NEW q, NEW c, q.state = "s_header_value", c \in {"header_field", "header_value"},
         Words(q),
         "F_CONTENTLENGTH" \in q.flags => q.content_length # MaxLength
  PROVE  Settled(q, c)
BY DEF Settled, Measured, Words, Order, NoTrailers, StartStates, BeginStates,
       UrlStates, UrlEndStates, LineStartStates, DiscardStates, ValueEndStates,
       SizeStates, MarkStates, BodyMarkStates, TextMarkStates

LEMMA MarkNames ==
  /\ \A s \in UrlStates : MarkOfState(s) = "url"
  /\ MarkOfState("s_res_status") = "status"
  /\ MarkOfState("s_header_field") = "header_field"
  /\ MarkOfState("s_header_value") = "header_value"
BY DEF MarkOfState, UrlStates

\* The data of the state is marked, and no other.
LEMMA TextSound ==
  ASSUME NEW q, NEW x, NEW c, q.state \in TextMarkStates, Settled(q, c),
         x.marks[MarkOfState(q.state)] # 0,
         \A m \in DataKinds \ {MarkOfState(q.state)} : x.marks[m] = 0
  PROVE  Sound(q, x, c)
<1>1. q.state \notin BodyMarkStates /\ q.state # "s_chunk_size_start"
  BY DEF TextMarkStates, BodyMarkStates, UrlStates
<1>2. ChunkCounts(q, x)
  BY <1>1 DEF ChunkCounts
<1>3. Marking(q, x, c)
  BY <1>1 DEF Marking, DatumOf, BodyMarkStates
<1> QED
  BY <1>2, <1>3 DEF Sound

LEMMA InText ==
  ASSUME IInv, exec.pc \in {"switch", "loop"}, parser.state \in TextMarkStates
  PROVE  /\ MarkOfState(parser.state) \in DataKinds
         /\ exec.marks[MarkOfState(parser.state)] # 0
         /\ \A m \in DataKinds \ {MarkOfState(parser.state)} : exec.marks[m] = 0
<1>1. parser.state \notin BodyMarkStates
  BY DEF TextMarkStates, BodyMarkStates, UrlStates
<1>2. Marking(parser, exec, LastOf(log))
  BY DEF IInv, Inv, CallPcs, Sound
<1>3. MarkOfState(parser.state) \in DataKinds
  BY MarkNames DEF TextMarkStates, DataKinds
<1> QED
  BY <1>1, <1>2, <1>3 DEF Marking, DatumOf

\* The first byte of some data: it is marked.
LEMMA MarkStep ==
  ASSUME IInv, exec.pc = "switch", parser.state \notin MarkStates,
         NEW q, IsStruct(q), q.errno = "OK", q.state \in TextMarkStates,
         Settled(q, LastOf(log)), NEW data \in DataKinds, data = MarkOfState(q.state),
         NEW x, x = MARK(exec, data), Break(q, x) \/ Again(q, x)
  PROVE  Inv(parser', exec', log')
<1>1. /\ IsLocals(x) /\ x.p = exec.p /\ x.end = exec.end
      /\ x.marks[data] # 0 /\ \A m \in DataKinds \ {data} : x.marks[m] = 0
  BY InSwitch, StreamLength, MarkSets, NothingMarked
<1> DEFINE y == [x EXCEPT !.pc = "fetch", !.p = @ + 1]
           z == [x EXCEPT !.pc = "switch"]
<1>2. y.marks = x.marks /\ z.marks = x.marks
  BY <1>1 DEF IsLocals
<1> HIDE DEF y, z
<1>3. Sound(q, y, LastOf(log)) /\ Sound(q, z, LastOf(log))
  BY <1>1, <1>2, TextSound
<1>4. CASE Break(q, x)
  BY <1>1, <1>3, <1>4, InSwitch, BreakStep DEF y
<1>5. CASE Again(q, x)
  BY <1>1, <1>3, <1>5, InSwitch, AgainStep DEF z
<1> QED
  BY <1>4, <1>5

\* More of the same data.
LEMMA TextBreak ==
  ASSUME IInv, exec.pc = "switch", parser.state \in TextMarkStates,
         NEW q, IsStruct(q), q.errno = "OK", q.state \in TextMarkStates,
         MarkOfState(q.state) = MarkOfState(parser.state),
         Settled(q, LastOf(log)), Break(q, exec)
  PROVE  Inv(parser', exec', log')
<1> DEFINE y == [exec EXCEPT !.pc = "fetch", !.p = @ + 1]
<1>1. y.marks = exec.marks
  BY InSwitch DEF IsLocals
<1> HIDE DEF y
<1>2. Sound(q, y, LastOf(log))
  BY <1>1, InText, TextSound
<1> QED
  BY <1>2, InSwitch, BreakStep DEF y

\* The marked data is passed on; the state q goes to marks nothing.
LEMMA DataStep ==
  ASSUME stream \in Streams, log \in History, NEW q, IsStruct(q), q.errno = "OK",
         NEW x, IsLocals(x), x.p <= x.end, NEW data \in DataKinds,
         x.marks[data] # 0, \A m \in DataKinds \ {data} : x.marks[m] = 0,
         NEW to \in Nat, NEW next \in 1..Len(stream) + 1,
         log' = Record(data, x.marks[data], to),
         NEW y, y = Unmark(x, data),
         Advance(q, y) \/ REEXECUTE(q, y) \/ Stopped(q, x, data, next),
         q.state \notin MarkStates, q.state # "s_chunk_size_start", Settled(q, data)
  PROVE  Inv(parser', exec', log')
<1>1. data \in CallbackNames
  BY DEF DataKinds, CallbackNames, CallbackErrors
<1>2. x.marks[data] \in Nat
  BY StreamLength DEF IsLocals
<1>3. log' \in History /\ LastOf(log') = data
  BY <1>1, <1>2, RecordStep
<1>4. IsLocals(y) /\ y.p <= y.end /\ \A m \in DataKinds : y.marks[m] = 0
  <2>1. /\ IsLocals(y) /\ y.p = x.p /\ y.end = x.end /\ y.marks[data] = 0
        /\ \A m \in DataKinds \ {data} : y.marks[m] = x.marks[m]
    BY Unmarked
  <2> QED
    BY <2>1
<1>5. CASE Advance(q, y)
  BY <1>3, <1>4, <1>5, PlainAdvance
<1>6. CASE REEXECUTE(q, y)
  BY <1>3, <1>4, <1>6, PlainReexecute
<1>7. CASE Stopped(q, x, data, next)
  <2>1. Sound(q, y, data)
    BY <1>4, UnmarkedSound
  <2>2. q.state # "s_chunk_data_almost_done"
    BY DEF MarkStates, BodyMarkStates
  <2> QED
    BY <1>1, <1>3, <1>7, <2>1, <2>2, StopStep
<1> QED
  BY <1>5, <1>6, <1>7

-----------------------------------------------------------------------------
(* The first line. *)

LEMMA DeadStep ==
  ASSUME IInv, Dead PROVE Inv(parser', exec', log')
<1>1. exec.pc = "switch" /\ parser.state \in StartStates
  BY DEF Dead, At_, StartStates
<1>2. Break(parser, exec) \/ Fail(parser, exec, "CLOSED_CONNECTION")
  BY DEF Dead
<1>3. parser.state # "s_chunk_size_start"
  BY <1>1 DEF StartStates
<1> QED
  BY <1>1, <1>2, <1>3, InSwitch, InStart, PlainBreak, PlainFail DEF Errors

\* The message begins with the struct q.
LEMMA BeginStep ==
  ASSUME IInv, exec.pc = "switch", parser.state \in StartStates,
         NEW q, IsStruct(q), q.errno = "OK", q.state \in BeginStates,
         q.state = "s_req_method" => q.index <= 30, q.flags = {},
         CALLBACK_NOTIFY(q, exec, "message_begin", exec.p + 1, Advance)
  PROVE  Inv(parser', exec', log')
<1>1. /\ log' = Record("message_begin", exec.p, exec.p)
      /\ Advance(q, exec) \/ Stopped(q, exec, "message_begin", exec.p + 1)
  BY DEF CALLBACK_NOTIFY, Stopped
<1>2. Settled(q, "message_begin") /\ q.state \notin MarkStates
  BY BeginSettled
<1>3. "message_begin" \in CallbackNames /\ exec.p + 1 \in 1..Len(stream) + 1
  BY InSwitch, StreamLength DEF CallbackNames, CallbackErrors
<1>4. q.state # "s_chunk_size_start"
  BY DEF BeginStates
<1> QED
  BY <1>1, <1>2, <1>3, <1>4, InStart, InSwitch, NothingMarked, PlainNotify

LEMMA NewMessageStruct ==
  ASSUME IInv, exec.pc = "switch", NEW r, r = NewMessage(parser)
  PROVE  IsStruct(r) /\ r.flags = {} /\ r.errno = "OK" /\ r.state = parser.state
<1>1. IsStruct(parser) /\ parser.errno = "OK"
  BY InSwitch
<1> QED
  BY <1>1, ParserAssumption DEF NewMessage, IsStruct

LEMMA StartReqOrResStep ==
  ASSUME IInv, StartReqOrRes PROVE Inv(parser', exec', log')
<1>1. exec.pc = "switch" /\ parser.state = "s_start_req_or_res" /\ parser.state \in StartStates
  BY DEF StartReqOrRes, At_, StartStates
<1> DEFINE r == NewMessage(parser)
<1>2. IsStruct(r) /\ r.flags = {} /\ r.errno = "OK"
  BY <1>1, NewMessageStruct
<1>3. CASE ch \in {CR, LF}
  <2>1. Break(parser, exec)
    BY <1>3 DEF StartReqOrRes, CR, LF
  <2> QED
    BY <1>1, <2>1, InSwitch, InStart, PlainBreak
<1>4. CASE ch = "H"
  <2> DEFINE q == [r EXCEPT !.state = "s_res_or_resp_H"]
  <2>1. CALLBACK_NOTIFY(q, exec, "message_begin", exec.p + 1, Advance)
    BY <1>4 DEF StartReqOrRes, CR, LF
  <2>2. IsStruct(q) /\ q.errno = "OK" /\ q.state = "s_res_or_resp_H" /\ q.flags = {}
    BY <1>2 DEF IsStruct, States
  <2> QED
    BY <1>1, <2>1, <2>2, BeginStep DEF BeginStates
<1>5. CASE ch \notin {CR, LF, "H"}
  <2> DEFINE q == [r EXCEPT !.type = "REQUEST", !.state = "s_start_req"]
  <2>1. Again(q, exec)
    BY <1>5 DEF StartReqOrRes
  <2>2. IsStruct(q) /\ q.errno = "OK" /\ q.state = "s_start_req" /\ q.flags = {}
    BY <1>2 DEF IsStruct, States
  <2> HIDE DEF q
  <2>3. Settled(q, LastOf(log)) /\ q.state \notin MarkStates
    BY <1>1, <2>2, InStart, StartSettled DEF StartStates
  <2> QED
    BY <1>1, <2>1, <2>2, <2>3, InStart, PlainAgain
<1> QED
  BY <1>3, <1>4, <1>5

LEMMA BeginKept ==
  ASSUME IInv, exec.pc = "switch", parser.state \in BeginStates,
         NEW q, IsStruct(q), q.errno = "OK", q.state \in BeginStates,
         q.state = "s_req_method" => q.index <= 30,
         q.flags = parser.flags, q.content_length = parser.content_length,
         Break(q, exec) \/ Again(q, exec)
  PROVE  Inv(parser', exec', log')
<1>1. Settled(q, LastOf(log)) /\ q.state \notin MarkStates
  BY InBegin, LengthKept, BeginSettled
<1>2. q.state # "s_chunk_size_start"
  BY DEF BeginStates
<1> QED
  BY <1>1, <1>2, InBegin, PlainBreak, PlainAgain

LEMMA ResOrRespHStep ==
  ASSUME IInv, ResOrRespH PROVE Inv(parser', exec', log')
<1>1. exec.pc = "switch" /\ parser.state \in BeginStates
  BY DEF ResOrRespH, At_, BeginStates
<1>2. IsStruct(parser) /\ parser.errno = "OK"
  BY <1>1, InSwitch
<1> DEFINE t == [To("s_res_HT") EXCEPT !.type = "RESPONSE"]
           e == [To("s_req_method") EXCEPT !.type = "REQUEST", !.method = "HEAD", !.index = 2]
<1>3. \/ Break(t, exec) \/ Break(e, exec) \/ Fail(parser, exec, "INVALID_CONSTANT")
  BY DEF ResOrRespH
<1>4. /\ IsStruct(t) /\ t.errno = "OK" /\ t.state = "s_res_HT" /\ t.flags = parser.flags
      /\ t.content_length = parser.content_length
  BY <1>2 DEF IsStruct, States, Literals, To
<1>5. "HEAD" \in Methods
  BY DEF Methods, Range, MethodOfLetter
<1>6. /\ IsStruct(e) /\ e.errno = "OK" /\ e.state = "s_req_method" /\ e.flags = parser.flags
      /\ e.content_length = parser.content_length /\ e.index = 2
  BY <1>2, <1>5 DEF IsStruct, States, To
<1> HIDE DEF t, e
<1> QED
  BY <1>1, <1>2, <1>3, <1>4, <1>6, BeginKept, PlainFail DEF BeginStates, Errors

LEMMA StartResStep ==
  ASSUME IInv, StartRes PROVE Inv(parser', exec', log')
<1>1. exec.pc = "switch" /\ parser.state \in StartStates /\ parser.state # "s_chunk_size_start"
  BY DEF StartRes, At_, StartStates
<1> DEFINE r == NewMessage(parser)
           q == [r EXCEPT !.state = "s_res_H"]
<1>2. IsStruct(r) /\ r.flags = {} /\ r.errno = "OK"
  BY <1>1, NewMessageStruct
<1>3. \/ Break(parser, exec) \/ Fail(r, exec, "INVALID_CONSTANT")
      \/ CALLBACK_NOTIFY(q, exec, "message_begin", exec.p + 1, Advance)
  BY DEF StartRes
<1>4. IsStruct(q) /\ q.errno = "OK" /\ q.state = "s_res_H" /\ q.flags = {}
  BY <1>2 DEF IsStruct, States, Literals
<1>5. CASE Break(parser, exec)
  BY <1>1, <1>5, InSwitch, InStart, PlainBreak
<1>6. CASE Fail(r, exec, "INVALID_CONSTANT")
  BY <1>1, <1>2, <1>6, PlainFail DEF Errors
<1>7. CASE CALLBACK_NOTIFY(q, exec, "message_begin", exec.p + 1, Advance)
  BY <1>1, <1>4, <1>7, BeginStep DEF BeginStates
<1> QED
  BY <1>3, <1>5, <1>6, <1>7

LEMMA StartReqStep ==
  ASSUME IInv, StartReq PROVE Inv(parser', exec', log')
<1>1. exec.pc = "switch" /\ parser.state \in StartStates /\ parser.state # "s_chunk_size_start"
  BY DEF StartReq, At_, StartStates
<1> DEFINE r == NewMessage(parser)
           q == [[r EXCEPT !.index = 1] EXCEPT !.method = MethodOfLetter[ch],
                                               !.state = "s_req_method"]
<1>2. IsStruct(r) /\ r.flags = {} /\ r.errno = "OK"
  BY <1>1, NewMessageStruct
<1>3. \/ Break(parser, exec) \/ Fail(r, exec, "INVALID_METHOD")
      \/ /\ ch \in DOMAIN MethodOfLetter
         /\ CALLBACK_NOTIFY(q, exec, "message_begin", exec.p + 1, Advance)
  BY DEF StartReq
<1>4. ASSUME ch \in DOMAIN MethodOfLetter
      PROVE  /\ IsStruct(q) /\ q.errno = "OK" /\ q.state = "s_req_method" /\ q.flags = {}
             /\ q.index = 1
  <2>1. MethodOfLetter[ch] \in Methods
    BY <1>4 DEF Methods, Range
  <2> QED
    BY <1>2, <2>1 DEF IsStruct, States
<1>5. CASE Break(parser, exec)
  BY <1>1, <1>5, InSwitch, InStart, PlainBreak
<1>6. CASE Fail(r, exec, "INVALID_METHOD")
  BY <1>1, <1>2, <1>6, PlainFail DEF Errors
<1>7. CASE /\ ch \in DOMAIN MethodOfLetter
           /\ CALLBACK_NOTIFY(q, exec, "message_begin", exec.p + 1, Advance)
  <2>1. /\ IsStruct(q) /\ q.errno = "OK" /\ q.state = "s_req_method" /\ q.flags = {}
        /\ q.index = 1
    BY <1>4, <1>7
  <2> HIDE DEF q
  <2> QED
    BY <1>1, <1>7, <2>1, BeginStep DEF BeginStates
<1> QED
  BY <1>3, <1>5, <1>6, <1>7

LEMMA UrlEndKept ==
  ASSUME IInv, exec.pc = "switch", parser.state \in UrlEndStates,
         NEW q, IsStruct(q), q.errno = "OK", q.state \in UrlEndStates \cup {"s_header_field_start"},
         q.flags = parser.flags, q.content_length = parser.content_length, Break(q, exec)
  PROVE  Inv(parser', exec', log')
<1>1. Settled(q, LastOf(log)) /\ q.state \notin MarkStates
  <2>1. CASE q.state \in UrlEndStates
    BY <2>1, InUrlEnd, LengthKept, UrlEndSettled
  <2>2. CASE q.state = "s_header_field_start"
    BY <2>2, InUrlEnd, LengthKept, LineStartSettled DEF LineStartStates, BeforeLine
  <2> QED
    BY <2>1, <2>2
<1>2. q.state # "s_chunk_size_start"
  BY DEF UrlEndStates
<1> QED
  BY <1>1, <1>2, InUrlEnd, PlainBreak

\* The struct in another state.
LEMMA ToStruct ==
  ASSUME IInv, exec.pc = "switch", NEW state \in States, NEW q, q = To(state)
  PROVE  /\ IsStruct(q) /\ q.errno = "OK" /\ q.state = state /\ q.flags = parser.flags
         /\ q.content_length = parser.content_length /\ q.header_state = parser.header_state
         /\ q.index = parser.index /\ q.nread = parser.nread
<1>1. IsStruct(parser) /\ parser.errno = "OK"
  BY InSwitch
<1> QED
  BY <1>1 DEF IsStruct, To

\* The states in which a literal stands, and where each leads.
LEMMA LiteralNames ==
  DOMAIN Literals =
    {"s_res_H", "s_res_HT", "s_res_HTT", "s_res_HTTP", "s_res_http_dot", "s_res_http_end",
     "s_res_line_almost_done", "s_req_http_H", "s_req_http_HT", "s_req_http_HTT",
     "s_req_http_I", "s_req_http_IC", "s_req_http_HTTP", "s_req_http_dot",
     "s_req_line_almost_done", "s_header_almost_done",
     "s_header_value_discard_ws_almost_done"}
BY DEF Literals

LEMMA LiteralNext ==
  /\ Literals["s_res_H"].next = "s_res_HT" /\ Literals["s_res_HT"].next = "s_res_HTT"
  /\ Literals["s_res_HTT"].next = "s_res_HTTP" /\ Literals["s_res_HTTP"].next = "s_res_http_major"
  /\ Literals["s_res_http_dot"].next = "s_res_http_minor"
  /\ Literals["s_res_http_end"].next = "s_res_first_status_code"
  /\ Literals["s_res_line_almost_done"].next = "s_header_field_start"
  /\ Literals["s_req_http_H"].next = "s_req_http_HT"
  /\ Literals["s_req_http_HT"].next = "s_req_http_HTT"
  /\ Literals["s_req_http_HTT"].next = "s_req_http_HTTP"
  /\ Literals["s_req_http_I"].next = "s_req_http_IC"
  /\ Literals["s_req_http_IC"].next = "s_req_http_HTTP"
  /\ Literals["s_req_http_HTTP"].next = "s_req_http_major"
  /\ Literals["s_req_http_dot"].next = "s_req_http_minor"
  /\ Literals["s_req_line_almost_done"].next = "s_header_field_start"
  /\ Literals["s_header_almost_done"].next = "s_header_value_lws"
  /\ Literals["s_header_value_discard_ws_almost_done"].next = "s_header_value_discard_lws"
BY DEF Literals, Expects

LEMMA LiteralError ==
  \A s \in DOMAIN Literals : Literals[s].error \in {"STRICT", "INVALID_VERSION", "LF_EXPECTED"}
<1>1. /\ Literals["s_res_H"].error = "STRICT" /\ Literals["s_res_HT"].error = "STRICT"
      /\ Literals["s_res_HTT"].error = "STRICT" /\ Literals["s_res_HTTP"].error = "STRICT"
      /\ Literals["s_res_http_dot"].error = "INVALID_VERSION"
      /\ Literals["s_res_http_end"].error = "INVALID_VERSION"
      /\ Literals["s_res_line_almost_done"].error = "STRICT"
      /\ Literals["s_req_http_H"].error = "STRICT" /\ Literals["s_req_http_HT"].error = "STRICT"
      /\ Literals["s_req_http_HTT"].error = "STRICT" /\ Literals["s_req_http_I"].error = "STRICT"
      /\ Literals["s_req_http_IC"].error = "STRICT" /\ Literals["s_req_http_HTTP"].error = "STRICT"
      /\ Literals["s_req_http_dot"].error = "INVALID_VERSION"
      /\ Literals["s_req_line_almost_done"].error = "LF_EXPECTED"
      /\ Literals["s_header_almost_done"].error = "LF_EXPECTED"
      /\ Literals["s_header_value_discard_ws_almost_done"].error = "STRICT"
  BY DEF Literals, Expects
<1> QED
  BY <1>1, LiteralNames

LEMMA LiteralStates ==
  ASSUME NEW s \in DOMAIN Literals, NEW next, next = Literals[s].next
  PROVE  \/ s \in BeginStates /\ next \in BeginStates \ {"s_req_method"}
         \/ s \in UrlEndStates /\ next \in UrlEndStates \cup {"s_header_field_start"}
         \/ s = "s_res_line_almost_done" /\ next = "s_header_field_start"
         \/ s = "s_header_almost_done" /\ next = "s_header_value_lws"
         \/ s = "s_header_value_discard_ws_almost_done" /\ next = "s_header_value_discard_lws"
<1>1. CASE s \in BeginStates
  BY <1>1, LiteralNames, LiteralNext DEF BeginStates
<1>2. CASE s \in UrlEndStates
  BY <1>2, LiteralNames, LiteralNext DEF UrlEndStates
<1>3. CASE s \notin BeginStates \cup UrlEndStates
  BY <1>3, LiteralNames, LiteralNext DEF BeginStates, UrlEndStates
<1> QED
  BY <1>1, <1>2, <1>3
LEMMA GroupsAreStates ==
  /\ StartStates \cup BeginStates \cup UrlStates \cup UrlEndStates \subseteq States
  /\ LineStartStates \cup DiscardStates \cup ValueEndStates \cup SizeStates \subseteq States
BY LiteralNames DEF States, StartStates, BeginStates, UrlEndStates, LineStartStates, DiscardStates,
                    ValueEndStates, SizeStates

LEMMA LiteralStep ==
  ASSUME IInv, Literal PROVE Inv(parser', exec', log')
<1>1. exec.pc = "switch" /\ parser.state \in DOMAIN Literals
  BY DEF Literal, At_
<1> DEFINE q == To(Literals[parser.state].next)
<1>2. Break(q, exec) \/ Fail(parser, exec, Literals[parser.state].error)
  BY DEF Literal
<1>3. CASE Fail(parser, exec, Literals[parser.state].error)
  <2>1. Literals[parser.state].error \in Errors \ {"OK", "PAUSED"}
    BY <1>1, LiteralError DEF Errors
  <2> QED
    BY <1>1, <1>3, <2>1, InSwitch, PlainFail
<1>4. CASE Break(q, exec)
  <2>1. /\ IsStruct(q) /\ q.errno = "OK" /\ q.state = Literals[parser.state].next
        /\ q.flags = parser.flags /\ q.content_length = parser.content_length
    <3>1. Literals[parser.state].next \in States
      BY <1>1, LiteralStates, GroupsAreStates DEF LineStartStates, DiscardStates, ValueEndStates
    <3> QED
      BY <1>1, <3>1, ToStruct
  <2> HIDE DEF q
  <2>2. CASE parser.state \in BeginStates /\ q.state \in BeginStates \ {"s_req_method"}
    BY <1>1, <1>4, <2>1, <2>2, BeginKept
  <2>3. CASE parser.state \in UrlEndStates /\ q.state \in UrlEndStates \cup {"s_header_field_start"}
    BY <1>1, <1>4, <2>1, <2>3, UrlEndKept
  <2>4. CASE parser.state = "s_res_line_almost_done" /\ q.state = "s_header_field_start"
    <3>1. LastOf(log) = "status" /\ "F_TRAILING" \notin parser.flags
      BY <1>1, <2>4, InSwitch DEF Settled, Order, NoTrailers
    <3>2. Settled(q, LastOf(log)) /\ q.state \notin MarkStates
      BY <1>1, <2>1, <2>4, <3>1, LengthKept, LineStartSettled DEF LineStartStates, BeforeLine
    <3>3. parser.state \notin MarkStates
      BY <2>4 DEF MarkStates, BodyMarkStates, TextMarkStates, UrlStates
    <3> QED
      BY <1>1, <1>4, <2>1, <2>4, <3>2, <3>3, PlainBreak
  <2>5. CASE parser.state = "s_header_almost_done" /\ q.state = "s_header_value_lws"
    <3>1. parser.state \in ValueEndStates /\ q.state \in ValueEndStates
      BY <2>5 DEF ValueEndStates
    <3>2. Settled(q, LastOf(log)) /\ q.state \notin MarkStates /\ parser.state \notin MarkStates
      BY <1>1, <2>1, <3>1, InValueEnd, LengthKept, ValueEndSettled
    <3> QED
      BY <1>1, <1>4, <2>1, <2>5, <3>2, PlainBreak
  <2>6. CASE parser.state = "s_header_value_discard_ws_almost_done"
             /\ q.state = "s_header_value_discard_lws"
    <3>1. parser.state \in DiscardStates /\ q.state \in DiscardStates
      BY <2>6 DEF DiscardStates
    <3>2. Settled(q, LastOf(log)) /\ q.state \notin MarkStates /\ parser.state \notin MarkStates
      BY <1>1, <2>1, <3>1, InDiscard, LengthKept, DiscardSettled
    <3> QED
      BY <1>1, <1>4, <2>1, <2>6, <3>2, PlainBreak
  <2> QED
    BY <1>1, <2>1, <2>2, <2>3, <2>4, <2>5, <2>6, LiteralStates
<1> QED
  BY <1>2, <1>3, <1>4

LEMMA DigitNames ==
  ASSUME NEW c, IS_NUM(c)
  PROVE  /\ \E i \in 1..10 : Digits[i] = c
         /\ c \in {"0", "1", "2", "3", "4", "5", "6", "7", "8", "9"}
<1>1. PICK i \in 1..10 : Digits[i] = c
  BY DEF IS_NUM, DigitSet, Range, Digits
<1>2. /\ Digits[1] = "0" /\ Digits[2] = "1" /\ Digits[3] = "2" /\ Digits[4] = "3"
      /\ Digits[5] = "4" /\ Digits[6] = "5" /\ Digits[7] = "6" /\ Digits[8] = "7"
      /\ Digits[9] = "8" /\ Digits[10] = "9"
  BY DEF Digits
<1>3. i \in {1, 2, 3, 4, 5, 6, 7, 8, 9, 10}
  OBVIOUS
<1> QED
  BY <1>1, <1>2, <1>3

LEMMA DigitRange ==
  ASSUME NEW c, IS_NUM(c) PROVE DigitValue(c) \in 0..9
BY DigitNames DEF DigitValue

LEMMA HexRange ==
  ASSUME NEW c, IS_HEX(c) PROVE HexValue(c) \in 0..15
<1>1. CASE IS_NUM(c)
  BY <1>1, DigitRange DEF HexValue
<1>2. CASE ~IS_NUM(c)
  <2>1. c \in {"a", "b", "c", "d", "e", "f", "A", "B", "C", "D", "E", "F"}
    BY <1>2 DEF IS_HEX
  <2>2. \E i \in 1..6 : c \in {Lowercase[i], Uppercase[i]}
    BY <2>1 DEF Lowercase, Uppercase
  <2> QED
    BY <1>2, <2>2 DEF HexValue
<1> QED
  BY <1>1, <1>2

LEMMA NoDigit ==
  ASSUME NEW c, c \in {" ", CR, LF} PROVE ~IS_NUM(c)
BY DigitNames DEF CR, LF

LEMMA VersionStep ==
  ASSUME IInv, Version PROVE Inv(parser', exec', log')
<1>1. /\ exec.pc = "switch"
      /\ \/ /\ parser.state \in {"s_res_http_major", "s_res_http_minor"}
            /\ parser.state \in BeginStates
         \/ /\ parser.state \in {"s_req_http_major", "s_req_http_minor"}
            /\ parser.state \in UrlEndStates
  BY DEF Version, At_, BeginStates, UrlEndStates
<1>2. IsStruct(parser) /\ parser.errno = "OK"
  BY <1>1, InSwitch
<1>3. CASE ~IS_NUM(ch)
  BY <1>1, <1>2, <1>3, PlainFail DEF Version, Errors
<1>4. CASE IS_NUM(ch)
  <2> DEFINE a == [To("s_res_http_dot") EXCEPT !.http_major = DigitValue(ch)]
             b == [To("s_res_http_end") EXCEPT !.http_minor = DigitValue(ch)]
             c == [To("s_req_http_dot") EXCEPT !.http_major = DigitValue(ch)]
             d == [To("s_req_http_end") EXCEPT !.http_minor = DigitValue(ch)]
  <2>1. \/ parser.state \in BeginStates /\ (Break(a, exec) \/ Break(b, exec))
        \/ parser.state \in UrlEndStates /\ (Break(c, exec) \/ Break(d, exec))
    BY <1>1, <1>4 DEF Version
  <2>2. DigitValue(ch) \in 0..9
    BY <1>4, DigitRange
  <2>3. /\ IsStruct(a) /\ a.state = "s_res_http_dot" /\ a.errno = "OK"
        /\ a.flags = parser.flags /\ a.content_length = parser.content_length
    BY <1>2, <2>2, LiteralNames DEF IsStruct, To, States
  <2>4. /\ IsStruct(b) /\ b.state = "s_res_http_end" /\ b.errno = "OK"
        /\ b.flags = parser.flags /\ b.content_length = parser.content_length
    BY <1>2, <2>2, LiteralNames DEF IsStruct, To, States
  <2>5. /\ IsStruct(c) /\ c.state = "s_req_http_dot" /\ c.errno = "OK"
        /\ c.flags = parser.flags /\ c.content_length = parser.content_length
    BY <1>2, <2>2, LiteralNames DEF IsStruct, To, States
  <2>6. /\ IsStruct(d) /\ d.state = "s_req_http_end" /\ d.errno = "OK"
        /\ d.flags = parser.flags /\ d.content_length = parser.content_length
    BY <1>2, <2>2 DEF IsStruct, To, States
  <2> HIDE DEF a, b, c, d
  <2>7. {"s_res_http_dot", "s_res_http_end"} \subseteq BeginStates \ {"s_req_method"}
    BY DEF BeginStates
  <2>8. {"s_req_http_dot", "s_req_http_end"} \subseteq UrlEndStates
    BY DEF UrlEndStates
  <2>9. CASE parser.state \in BeginStates /\ (Break(a, exec) \/ Break(b, exec))
    BY <1>1, <2>3, <2>4, <2>7, <2>9, BeginKept
  <2>10. CASE parser.state \in UrlEndStates /\ (Break(c, exec) \/ Break(d, exec))
    BY <1>1, <2>5, <2>6, <2>8, <2>10, UrlEndKept
  <2> QED
    BY <2>1, <2>9, <2>10
<1> QED
  BY <1>3, <1>4

LEMMA FirstStatusCodeStep ==
  ASSUME IInv, FirstStatusCode PROVE Inv(parser', exec', log')
<1>1. /\ exec.pc = "switch" /\ parser.state = "s_res_first_status_code"
      /\ parser.state \in BeginStates
  BY DEF FirstStatusCode, At_, BeginStates
<1>2. IsStruct(parser) /\ parser.errno = "OK"
  BY <1>1, InSwitch
<1> DEFINE q == [To("s_res_status_code") EXCEPT !.status_code = DigitValue(ch)]
<1>3. CASE IS_NUM(ch)
  <2>1. Break(q, exec)
    BY <1>3, NoDigit DEF FirstStatusCode
  <2>2. DigitValue(ch) \in 0..999
    BY <1>3, DigitRange
  <2>3. IsStruct(q) /\ q.state = "s_res_status_code" /\ q.flags = parser.flags
        /\ q.content_length = parser.content_length /\ q.errno = "OK"
    BY <1>2, <2>2 DEF IsStruct, To, States
  <2> HIDE DEF q
  <2> QED
    BY <1>1, <2>1, <2>3, BeginKept DEF BeginStates
<1>4. CASE ~IS_NUM(ch)
  <2>1. Break(parser, exec) \/ Fail(parser, exec, "INVALID_STATUS")
    BY <1>4 DEF FirstStatusCode
  <2> QED
    BY <1>1, <1>2, <2>1, BeginKept, PlainFail DEF Errors
<1> QED
  BY <1>3, <1>4

LEMMA StatusCodeStep ==
  ASSUME IInv, StatusCode PROVE Inv(parser', exec', log')
<1>1. /\ exec.pc = "switch" /\ parser.state = "s_res_status_code" /\ parser.state \in BeginStates
  BY DEF StatusCode, At_, BeginStates
<1>2. IsStruct(parser) /\ parser.errno = "OK"
  BY <1>1, InSwitch
<1> DEFINE code == parser.status_code * 10 + DigitValue(ch)
           r == [parser EXCEPT !.status_code = code]
           q == To("s_res_status_start")
<1>3. CASE IS_NUM(ch) /\ code <= 999
  <2>1. code \in 0..999
    <3>1. DigitValue(ch) \in Nat
      BY <1>3, DigitRange
    <3>2. parser.status_code \in Nat
      BY <1>2 DEF IsStruct
    <3>3. code \in Nat
      <4> DEFINE d == DigitValue(ch)
                 n == parser.status_code
      <4>1. d \in Nat /\ n \in Nat
        BY <3>1, <3>2
      <4> HIDE DEF d, n
      <4>2. n * 10 + d \in Nat
        BY <4>1
      <4> QED
        BY <4>2 DEF d, n
    <3>4. code <= 999
      BY <1>3
    <3> HIDE DEF code
    <3> QED
      BY <3>3, <3>4
  <2>2. Break(r, exec)
    BY <1>3, NoDigit DEF StatusCode
  <2> HIDE DEF code
  <2>3. IsStruct(r) /\ r.state = parser.state /\ r.flags = parser.flags
        /\ r.content_length = parser.content_length /\ r.errno = "OK"
    BY <1>2, <2>1 DEF IsStruct
  <2> HIDE DEF r
  <2> QED
    BY <1>1, <2>2, <2>3, BeginKept
<1>4. CASE ~(IS_NUM(ch) /\ code <= 999)
  <2>1. Break(q, exec) \/ Again(q, exec) \/ Fail(parser, exec, "INVALID_STATUS")
    BY <1>4 DEF StatusCode
  <2>2. IsStruct(q) /\ q.state = "s_res_status_start" /\ q.flags = parser.flags
        /\ q.content_length = parser.content_length /\ q.errno = "OK"
    BY <1>1, <1>2, ToStruct, GroupsAreStates DEF BeginStates
  <2> HIDE DEF q
  <2> QED
    BY <1>1, <1>2, <2>1, <2>2, BeginKept, PlainFail DEF BeginStates, Errors
<1> QED
  BY <1>3, <1>4

LEMMA StatusStartStep ==
  ASSUME IInv, StatusStart PROVE Inv(parser', exec', log')
<1>1. exec.pc = "switch" /\ parser.state \in BeginStates
  BY DEF StatusStart, At_, BeginStates
<1> DEFINE q == [To("s_res_status") EXCEPT !.index = 0]
           x == MARK(exec, "status")
<1>2. Break(q, x) \/ Again(q, x)
  BY DEF StatusStart
<1>3. IsStruct(parser) /\ parser.errno = "OK"
  BY <1>1, InSwitch
<1>4. IsStruct(q) /\ q.errno = "OK" /\ q.state = "s_res_status" /\ q.flags = parser.flags
      /\ q.content_length = parser.content_length
  BY <1>3 DEF IsStruct, To, States
<1> HIDE DEF q
<1>5. Settled(q, LastOf(log))
  BY <1>1, <1>4, InBegin, LengthKept, StatusSettled
<1>6. q.state \in TextMarkStates /\ "status" \in DataKinds
  BY <1>4 DEF TextMarkStates, DataKinds
<1> QED
  BY <1>1, <1>2, <1>4, <1>5, <1>6, InBegin, MarkNames, MarkStep

\* The end of the data of the first line: it is passed on.
LEMMA PassedOn ==
  ASSUME IInv, exec.pc = "switch", parser.state \in TextMarkStates,
         NEW q, IsStruct(q), q.errno = "OK", NEW data, data = MarkOfState(parser.state),
         CALLBACK_DATA(q, exec, data, exec.p - 1, exec.p + 1, Advance),
         q.state \notin MarkStates, q.state # "s_chunk_size_start", Settled(q, data)
  PROVE  Inv(parser', exec', log')
<1>1. /\ data \in DataKinds /\ exec.marks[data] # 0
      /\ \A m \in DataKinds \ {data} : exec.marks[m] = 0
  BY InText
<1> DEFINE y == Unmark(exec, data)
<1>2. /\ log' = Record(data, exec.marks[data], exec.p - 1)
      /\ Advance(q, y) \/ Stopped(q, exec, data, exec.p + 1)
  BY <1>1 DEF CALLBACK_DATA, Stopped, Unmark
<1>3. exec.p - 1 \in Nat /\ exec.p + 1 \in 1..Len(stream) + 1
  BY InSwitch, StreamLength
<1> QED
  BY <1>1, <1>2, <1>3, InSwitch, DataStep

LEMMA StatusStep ==
  ASSUME IInv, Status PROVE Inv(parser', exec', log')
<1>1. exec.pc = "switch" /\ parser.state = "s_res_status" /\ parser.state \in TextMarkStates
  BY DEF Status, At_, TextMarkStates
<1> DEFINE q == To("s_res_line_almost_done")
           r == To("s_header_field_start")
<1>2. \/ CALLBACK_DATA(q, exec, "status", exec.p - 1, exec.p + 1, Advance)
      \/ CALLBACK_DATA(r, exec, "status", exec.p - 1, exec.p + 1, Advance)
      \/ Break(parser, exec)
  BY DEF Status
<1>3. /\ IsStruct(q) /\ q.errno = "OK" /\ q.state = "s_res_line_almost_done"
      /\ q.flags = parser.flags /\ q.content_length = parser.content_length
      /\ IsStruct(r) /\ r.errno = "OK" /\ r.state = "s_header_field_start"
      /\ r.flags = parser.flags /\ r.content_length = parser.content_length
  BY <1>1, ToStruct, LiteralNames DEF States
<1>4. "F_TRAILING" \notin parser.flags /\ Settled(parser, LastOf(log))
  BY <1>1, InSwitch DEF Settled, NoTrailers
<1> HIDE DEF q, r
<1>5. Settled(q, "status") /\ q.state \notin MarkStates /\ q.state # "s_chunk_size_start"
  BY <1>1, <1>3, <1>4, LengthKept DEF Settled, Measured, Words, Order, NoTrailers, StartStates,
     BeginStates, UrlStates, UrlEndStates, LineStartStates, DiscardStates, ValueEndStates,
     SizeStates, MarkStates, BodyMarkStates, TextMarkStates
<1>6. Settled(r, "status") /\ r.state \notin MarkStates /\ r.state # "s_chunk_size_start"
  BY <1>1, <1>3, <1>4, LengthKept, LineStartSettled DEF LineStartStates, BeforeLine
<1>7. CASE CALLBACK_DATA(q, exec, "status", exec.p - 1, exec.p + 1, Advance)
  BY <1>1, <1>3, <1>5, <1>7, MarkNames, PassedOn
<1>8. CASE CALLBACK_DATA(r, exec, "status", exec.p - 1, exec.p + 1, Advance)
  BY <1>1, <1>3, <1>6, <1>8, MarkNames, PassedOn
<1>9. CASE Break(parser, exec)
  BY <1>1, <1>4, <1>9, InSwitch, TextBreak
<1> QED
  BY <1>2, <1>7, <1>8, <1>9

LEMMA MethodStep ==
  ASSUME IInv, Method PROVE Inv(parser', exec', log')
<1>1. exec.pc = "switch" /\ parser.state = "s_req_method" /\ parser.state \in BeginStates
  BY DEF Method, At_, BeginStates
<1>2. IsStruct(parser) /\ parser.errno = "OK" /\ parser.index <= 30
  BY <1>1, InSwitch DEF Settled, Words
<1> DEFINE wanted == At(MethodStrings[parser.method], parser.index)
           next == [parser EXCEPT !.index = @ + 1]
           space == [next EXCEPT !.state = "s_req_spaces_before_url"]
           Guess(row) == [next EXCEPT !.method = row[4]]
<1>3. \/ Fail(parser, exec, "INVALID_METHOD")
      \/ Break(space, exec)
      \/ ch # NUL /\ ch = wanted /\ Break(next, exec)
      \/ \E row \in MethodSwitch : row[2] = parser.index /\ Break(Guess(row), exec)
  BY DEF Method
<1>4. parser.index + 1 \in 0..31
  BY <1>2 DEF IsStruct
<1>5. CASE Fail(parser, exec, "INVALID_METHOD")
  BY <1>1, <1>2, <1>5, PlainFail DEF Errors
<1>6. CASE Break(space, exec)
  <2>1. IsStruct(space) /\ space.errno = "OK" /\ space.state = "s_req_spaces_before_url"
        /\ space.flags = parser.flags /\ space.content_length = parser.content_length
    BY <1>2, <1>4 DEF IsStruct, States
  <2> HIDE DEF space
  <2> QED
    BY <1>1, <1>6, <2>1, BeginKept DEF BeginStates
<1>7. CASE ch # NUL /\ ch = wanted /\ Break(next, exec)
  <2>1. parser.index + 1 <= 30
    <3>1. PICK n \in 1..30 : n = Len(Chars(parser.method))
      BY <1>2, CharsAssumption DEF IsStruct
    <3>2. MethodStrings[parser.method] = Chars(parser.method)
      BY <1>2 DEF IsStruct, MethodStrings
    <3>3. parser.index < n
      BY <1>7, <3>1, <3>2 DEF At
    <3> QED
      <4>1. parser.index \in Nat
        BY <1>2 DEF IsStruct
      <4> QED
        BY <3>3, <4>1
  <2>2. IsStruct(next) /\ next.errno = "OK" /\ next.state = parser.state
        /\ next.flags = parser.flags /\ next.content_length = parser.content_length
        /\ next.index = parser.index + 1
    BY <1>2, <1>4 DEF IsStruct
  <2> HIDE DEF next
  <2> QED
    BY <1>1, <1>7, <2>1, <2>2, BeginKept
<1>8. CASE \E row \in MethodSwitch : row[2] = parser.index /\ Break(Guess(row), exec)
  <2>1. PICK row \in MethodSwitch : row[2] = parser.index /\ Break(Guess(row), exec)
    BY <1>8
  <2>2. row[2] \in 1..4
    BY DEF MethodSwitch
  <2>3. row[4] \in Methods
    BY DEF Methods
  <2> DEFINE q == Guess(row)
  <2>4. IsStruct(q) /\ q.errno = "OK" /\ q.state = parser.state
        /\ q.flags = parser.flags /\ q.content_length = parser.content_length
        /\ q.index = parser.index + 1
    BY <1>2, <1>4, <2>3 DEF IsStruct
  <2> HIDE DEF q
  <2>5. q.index <= 30
    BY <2>1, <2>2, <2>4
  <2> QED
    BY <1>1, <2>1, <2>4, <2>5, BeginKept DEF q
<1> QED
  BY <1>3, <1>5, <1>6, <1>7, <1>8

LEMMA UrlCharStates ==
  ASSUME NEW s, NEW c, NEW next, next = parse_url_char(s, c)
  PROVE  next \in UrlStates \cup {"s_dead"}
<1>1. CASE c \in UrlStops
  BY <1>1 DEF parse_url_char
<1>2. CASE c \notin UrlStops
  <2>1. CASE s = "s_req_path"
    BY <1>2, <2>1 DEF parse_url_char, UrlStates
  <2>2. CASE s \in {"s_req_query_string_start", "s_req_query_string"}
    BY <1>2, <2>2 DEF parse_url_char, UrlStates
  <2>3. CASE s \in {"s_req_fragment_start", "s_req_fragment"}
    BY <1>2, <2>3 DEF parse_url_char, UrlStates
  <2>4. CASE s \in {"s_req_server_start", "s_req_server", "s_req_server_with_at"}
    BY <1>2, <2>4 DEF parse_url_char, UrlStates
  <2>5. CASE s \in {"s_req_spaces_before_url", "s_req_schema"}
    BY <1>2, <2>5 DEF parse_url_char, UrlStates
  <2>6. CASE s \in {"s_req_schema_slash", "s_req_schema_slash_slash"}
    BY <1>2, <2>6 DEF parse_url_char, UrlStates
  <2>7. CASE s \notin UrlStates \cup {"s_req_spaces_before_url"}
    BY <1>2, <2>7 DEF parse_url_char, UrlStates
  <2> QED
    BY <2>1, <2>2, <2>3, <2>4, <2>5, <2>6, <2>7 DEF UrlStates
<1> QED
  BY <1>1, <1>2

LEMMA SpacesBeforeUrlStep ==
  ASSUME IInv, SpacesBeforeUrl PROVE Inv(parser', exec', log')
<1>1. exec.pc = "switch" /\ parser.state \in BeginStates /\ parser.state # "s_req_method"
  BY DEF SpacesBeforeUrl, At_, BeginStates
<1>2. IsStruct(parser) /\ parser.errno = "OK" /\ exec.p <= Len(stream)
  BY <1>1, InSwitch, StreamLength
<1> DEFINE x == MARK(exec, "url")
           state == parse_url_char(IF parser.method = "CONNECT" THEN "s_req_server_start"
                                   ELSE "s_req_spaces_before_url", ch)
           q == To(state)
           dead == To("s_dead")
<1>3. \/ Break(parser, exec) \/ Fail(dead, x, "INVALID_URL")
      \/ state # "s_dead" /\ Break(q, x)
  BY DEF SpacesBeforeUrl
<1>4. "url" \in DataKinds
  BY DEF DataKinds
<1>5. CASE Break(parser, exec)
  BY <1>1, <1>2, <1>5, BeginKept
<1>6. CASE Fail(dead, x, "INVALID_URL")
  <2>1. IsStruct(dead)
    BY <1>1, ToStruct DEF States
  <2>2. IsLocals(x)
    BY <1>1, <1>2, <1>4, InSwitch, MarkSets
  <2> QED
    BY <1>1, <1>6, <2>1, <2>2, InSwitch, FailStep DEF Errors
<1>7. CASE state # "s_dead" /\ Break(q, x)
  <2>1. state \in UrlStates
    BY <1>7, UrlCharStates
  <2> HIDE DEF state
  <2>2. IsStruct(q) /\ q.errno = "OK" /\ q.state = state /\ q.flags = parser.flags
        /\ q.content_length = parser.content_length
    BY <1>1, <2>1, ToStruct, GroupsAreStates
  <2> HIDE DEF q
  <2>3. Settled(q, LastOf(log))
    BY <1>1, <2>1, <2>2, InBegin, LengthKept, UrlSettled
  <2>4. q.state \in TextMarkStates /\ MarkOfState(q.state) = "url"
    BY <2>1, <2>2, MarkNames DEF TextMarkStates
  <2> QED
    BY <1>1, <1>4, <1>7, <2>2, <2>3, <2>4, InBegin, MarkStep
<1> QED
  BY <1>3, <1>5, <1>6, <1>7

LEMMA UrlStep ==
  ASSUME IInv, Url PROVE Inv(parser', exec', log')
<1>1. exec.pc = "switch" /\ parser.state \in UrlStates /\ parser.state \in TextMarkStates
      /\ MarkOfState(parser.state) = "url"
  BY MarkNames DEF Url, At_, TextMarkStates
<1>2. IsStruct(parser) /\ parser.errno = "OK"
  BY <1>1, InSwitch
<1>3. "F_TRAILING" \notin parser.flags /\ LastOf(log) \in {"message_begin", "url"}
  BY <1>1, InSwitch DEF Settled, NoTrailers, Order
<1> DEFINE a == To("s_req_http_start")
           b == [To("s_req_line_almost_done") EXCEPT !.http_major = 0, !.http_minor = 9]
           c == [To("s_header_field_start") EXCEPT !.http_major = 0, !.http_minor = 9]
           state == parse_url_char(parser.state, ch)
           Ends(q) == CALLBACK_DATA(q, exec, "url", exec.p - 1, exec.p + 1, Advance)
           dead == To("s_dead")
           more == To(state)
<1>4. \/ Ends(a) \/ Ends(b) \/ Ends(c)
      \/ Fail(parser, exec, "INVALID_URL") \/ Fail(dead, exec, "INVALID_URL")
      \/ state # "s_dead" /\ Break(more, exec)
  BY DEF Url
<1>5. /\ IsStruct(a) /\ a.state = "s_req_http_start" /\ a.errno = "OK"
      /\ a.flags = parser.flags /\ a.content_length = parser.content_length
      /\ IsStruct(b) /\ b.state = "s_req_line_almost_done" /\ b.errno = "OK"
      /\ b.flags = parser.flags /\ b.content_length = parser.content_length
      /\ IsStruct(c) /\ c.state = "s_header_field_start" /\ c.errno = "OK"
      /\ c.flags = parser.flags /\ c.content_length = parser.content_length
  BY <1>2, LiteralNames DEF IsStruct, To, States
<1>6. CASE Ends(a) \/ Ends(b)
  <2>1. PICK q \in {a, b} : Ends(q)
    BY <1>6
  <2>2. IsStruct(q) /\ q.state \in UrlEndStates /\ q.errno = "OK" /\ q.flags = parser.flags
        /\ q.content_length = parser.content_length
    BY <1>5 DEF UrlEndStates
  <2>3. Settled(q, "url") /\ q.state \notin MarkStates
    BY <1>1, <1>3, <2>2, LengthKept, UrlEndSettled
  <2>4. q.state # "s_chunk_size_start"
    BY <2>2 DEF UrlEndStates
  <2> QED
    BY <1>1, <2>1, <2>2, <2>3, <2>4, PassedOn
<1>7. CASE Ends(c)
  <2> HIDE DEF c
  <2>1. Settled(c, "url") /\ c.state \notin MarkStates
    BY <1>1, <1>3, <1>5, LengthKept, LineStartSettled DEF LineStartStates, BeforeLine
  <2> QED
    BY <1>1, <1>5, <1>7, <2>1, PassedOn
<1>8. CASE Fail(parser, exec, "INVALID_URL") \/ Fail(dead, exec, "INVALID_URL")
  <2>1. IsStruct(dead)
    BY <1>1, ToStruct DEF States
  <2> QED
    BY <1>1, <1>2, <1>8, <2>1, PlainFail DEF Errors
<1>9. CASE state # "s_dead" /\ Break(more, exec)
  <2>1. state \in UrlStates
    BY <1>9, UrlCharStates
  <2> HIDE DEF state
  <2>2. IsStruct(more) /\ more.errno = "OK" /\ more.state = state
        /\ more.flags = parser.flags /\ more.content_length = parser.content_length
    BY <1>1, <2>1, ToStruct, GroupsAreStates
  <2> HIDE DEF more
  <2>3. Settled(more, LastOf(log))
    BY <1>1, <1>3, <2>1, <2>2, LengthKept, UrlSettled
  <2>4. more.state \in TextMarkStates /\ MarkOfState(more.state) = "url"
    BY <2>1, <2>2, MarkNames DEF TextMarkStates
  <2> QED
    BY <1>1, <1>9, <2>2, <2>3, <2>4, TextBreak
<1> QED
  BY <1>4, <1>6, <1>7, <1>8, <1>9

LEMMA HttpStartStep ==
  ASSUME IInv, HttpStart PROVE Inv(parser', exec', log')
<1>1. exec.pc = "switch" /\ parser.state \in UrlEndStates
  BY DEF HttpStart, At_, UrlEndStates
<1>2. IsStruct(parser) /\ parser.errno = "OK"
  BY <1>1, InSwitch
<1> DEFINE a == To("s_req_http_H")
           b == To("s_req_http_I")
<1>3. \/ Break(parser, exec) \/ Break(a, exec) \/ Break(b, exec)
      \/ Fail(parser, exec, "INVALID_CONSTANT")
  BY DEF HttpStart
<1>4. /\ IsStruct(a) /\ a.state = "s_req_http_H" /\ a.errno = "OK"
      /\ a.flags = parser.flags /\ a.content_length = parser.content_length
      /\ IsStruct(b) /\ b.state = "s_req_http_I" /\ b.errno = "OK"
      /\ b.flags = parser.flags /\ b.content_length = parser.content_length
  BY <1>1, ToStruct, LiteralNames DEF States
<1> HIDE DEF a, b
<1>5. CASE Fail(parser, exec, "INVALID_CONSTANT")
  BY <1>1, <1>2, <1>5, PlainFail DEF Errors
<1>6. CASE Break(parser, exec) \/ Break(a, exec) \/ Break(b, exec)
  <2>1. {"s_req_http_H", "s_req_http_I"} \subseteq UrlEndStates
    BY DEF UrlEndStates
  <2> QED
    BY <1>1, <1>2, <1>4, <1>6, <2>1, UrlEndKept
<1> QED
  BY <1>3, <1>5, <1>6

LEMMA HttpEndStep ==
  ASSUME IInv, HttpEnd PROVE Inv(parser', exec', log')
<1>1. exec.pc = "switch" /\ parser.state \in UrlEndStates
  BY DEF HttpEnd, At_, UrlEndStates
<1>2. IsStruct(parser) /\ parser.errno = "OK"
  BY <1>1, InSwitch
<1> DEFINE a == To("s_req_line_almost_done")
           b == To("s_header_field_start")
<1>3. \/ Break(a, exec) \/ Break(b, exec) \/ Fail(parser, exec, "INVALID_VERSION")
  BY DEF HttpEnd
<1>4. /\ IsStruct(a) /\ a.state = "s_req_line_almost_done" /\ a.errno = "OK"
      /\ a.flags = parser.flags /\ a.content_length = parser.content_length
      /\ IsStruct(b) /\ b.state = "s_header_field_start" /\ b.errno = "OK"
      /\ b.flags = parser.flags /\ b.content_length = parser.content_length
  BY <1>1, ToStruct, LiteralNames DEF States
<1> HIDE DEF a, b
<1>5. CASE Fail(parser, exec, "INVALID_VERSION")
  BY <1>1, <1>2, <1>5, PlainFail DEF Errors
<1>6. CASE Break(a, exec) \/ Break(b, exec)
  <2>1. "s_req_line_almost_done" \in UrlEndStates
    BY DEF UrlEndStates
  <2> QED
    BY <1>1, <1>2, <1>4, <1>6, <2>1, UrlEndKept
<1> QED
  BY <1>3, <1>5, <1>6

-----------------------------------------------------------------------------
(* The headers. *)

LEMMA FieldWordNames ==
  /\ DOMAIN FieldWords = {"h_matching_connection", "h_matching_proxy_connection",
                          "h_matching_content_length", "h_matching_transfer_encoding",
                          "h_matching_upgrade"}
  /\ \A h \in DOMAIN FieldWords :
       FieldWords[h].found \in {"h_connection", "h_content_length", "h_transfer_encoding",
                                "h_upgrade"}
<1>1. /\ FieldWords["h_matching_connection"].found = "h_connection"
      /\ FieldWords["h_matching_proxy_connection"].found = "h_connection"
      /\ FieldWords["h_matching_content_length"].found = "h_content_length"
      /\ FieldWords["h_matching_transfer_encoding"].found = "h_transfer_encoding"
      /\ FieldWords["h_matching_upgrade"].found = "h_upgrade"
  BY DEF FieldWords, Keyword
<1>2. DOMAIN FieldWords = {"h_matching_connection", "h_matching_proxy_connection",
                           "h_matching_content_length", "h_matching_transfer_encoding",
                           "h_matching_upgrade"}
  BY DEF FieldWords
<1> QED
  BY <1>1, <1>2

LEMMA ValueWordNames ==
  /\ DOMAIN ValueWords = {"h_matching_transfer_encoding_chunked",
                          "h_matching_connection_keep_alive", "h_matching_connection_close",
                          "h_matching_connection_upgrade"}
  /\ \A h \in DOMAIN ValueWords :
       ValueWords[h].found \in {"h_transfer_encoding_chunked", "h_connection_keep_alive",
                                "h_connection_close", "h_connection_upgrade"}
<1>1. /\ ValueWords["h_matching_transfer_encoding_chunked"].found = "h_transfer_encoding_chunked"
      /\ ValueWords["h_matching_connection_keep_alive"].found = "h_connection_keep_alive"
      /\ ValueWords["h_matching_connection_close"].found = "h_connection_close"
      /\ ValueWords["h_matching_connection_upgrade"].found = "h_connection_upgrade"
  BY DEF ValueWords, Keyword
<1>2. DOMAIN ValueWords = {"h_matching_transfer_encoding_chunked",
                           "h_matching_connection_keep_alive", "h_matching_connection_close",
                           "h_matching_connection_upgrade"}
  BY DEF ValueWords
<1> QED
  BY <1>1, <1>2

LEMMA FinalFlagNames ==
  /\ DOMAIN FinalFlags = {"h_connection_keep_alive", "h_connection_close",
                          "h_connection_upgrade", "h_transfer_encoding_chunked"}
  /\ \A h \in DOMAIN FinalFlags :
       FinalFlags[h] \in {"F_CONNECTION_KEEP_ALIVE", "F_CONNECTION_CLOSE",
                          "F_CONNECTION_UPGRADE", "F_CHUNKED"}
BY DEF FinalFlags

LEMMA FlagNames ==
  {"F_CONNECTION_KEEP_ALIVE", "F_CONNECTION_CLOSE", "F_CONNECTION_UPGRADE", "F_CHUNKED",
   "F_TRAILING", "F_UPGRADE", "F_SKIPBODY", "F_CONTENTLENGTH"} \subseteq Flags
BY DEF Flags, Range, FinalFlags

\* The least of some numbers is one of them.
NatLess == {ss \in Nat \X Nat : ss[1] < ss[2]}

LEMMA LeastNatural ==
  ASSUME NEW S, S \subseteq Nat, S # {}
  PROVE  Min(S) \in S /\ \A y \in S : Min(S) <= y
<1>1. IsWellFoundedOn(NatLess, Nat)
  BY NatLessThanWellFounded DEF OpToRel, NatLess
<1>2. PICK x \in S : \A y \in S : <<y, x>> \notin NatLess
  BY <1>1, WFMin
<1>3. \A y \in S : x <= y
  <2> TAKE y \in S
  <2>1. ~(<<y, x>>[1] < <<y, x>>[2])
    BY <1>2 DEF NatLess
  <2> QED
    BY <2>1
<1> QED
  BY <1>3 DEF Min

LEMMA HeaderFieldStartStep ==
  ASSUME IInv, HeaderFieldStart PROVE Inv(parser', exec', log')
<1>1. exec.pc = "switch" /\ parser.state \in LineStartStates
  BY DEF HeaderFieldStart, At_, LineStartStates
<1>2. IsStruct(parser) /\ parser.errno = "OK"
  BY <1>1, InSwitch
<1> DEFINE first == [c |-> "h_C", p |-> "h_matching_proxy_connection",
                     t |-> "h_matching_transfer_encoding", u |-> "h_matching_upgrade"]
           state == IF Lowered(ch) \in DOMAIN first THEN first[Lowered(ch)] ELSE "h_general"
<1>3. \/ Break(To("s_headers_almost_done"), exec)
      \/ Again(To("s_headers_almost_done"), exec)
      \/ Break([To("s_header_field") EXCEPT !.index = 0, !.header_state = state],
               MARK(exec, "header_field"))
      \/ Fail(parser, exec, "INVALID_HEADER_TOKEN")
  BY DEF HeaderFieldStart
<1>0. state \in {"h_C", "h_matching_proxy_connection", "h_matching_transfer_encoding",
                "h_matching_upgrade", "h_general"}
  OBVIOUS
<1> HIDE DEF state
<1> DEFINE q == To("s_headers_almost_done")
           r == [To("s_header_field") EXCEPT !.index = 0, !.header_state = state]
<1>4. CASE Break(q, exec) \/ Again(q, exec)
  <2>1. /\ IsStruct(q) /\ q.errno = "OK" /\ q.state = "s_headers_almost_done"
        /\ q.flags = parser.flags /\ q.content_length = parser.content_length
    BY <1>1, ToStruct DEF States
  <2> HIDE DEF q
  <2>2. Settled(q, LastOf(log)) /\ q.state \notin MarkStates
    BY <1>1, <2>1, InLineStart, LengthKept, LineStartSettled DEF LineStartStates, BeforeLine
  <2> QED
    BY <1>1, <1>4, <2>1, <2>2, InLineStart, PlainBreak, PlainAgain
<1>5. CASE Break(r, MARK(exec, "header_field"))
  <2>1. state \in HeaderStates
    BY <1>0, FieldWordNames DEF HeaderStates, NameStates
  <2>2. /\ IsStruct(r) /\ r.errno = "OK" /\ r.state = "s_header_field" /\ r.index = 0
        /\ r.header_state = state
        /\ r.flags = parser.flags /\ r.content_length = parser.content_length
    BY <1>2, <2>1 DEF IsStruct, To, States
  <2> HIDE DEF r
  <2>3. Words(r)
    <3>1. r.header_state \in NameStates
      BY <1>0, <2>2, FieldWordNames DEF NameStates
    <3>2. r.header_state \notin {"h_CO", "h_CON"}
      BY <1>0, <2>2
    <3>3. ASSUME r.header_state \in DOMAIN FieldWords
          PROVE  r.index + 1 < Len(FieldWords[r.header_state].word)
      <4>1. PICK n \in 5..31 : n = Len(FieldWords[r.header_state].word)
        BY <3>3, CharsAssumption
      <4>2. r.index = 0
        BY <2>2
      <4>3. 0 + 1 < n
        OBVIOUS
      <4> QED
        BY <4>1, <4>2, <4>3
    <3> QED
      BY <2>2, <3>1, <3>2, <3>3 DEF Words
  <2>4. Settled(r, LastOf(log)) /\ r.state \in TextMarkStates
    BY <1>1, <2>2, <2>3, InLineStart, LengthKept, FieldSettled DEF BeforeLine, TextMarkStates
  <2> QED
    BY <1>1, <1>5, <2>2, <2>4, InLineStart, MarkNames, MarkStep DEF DataKinds
<1>6. CASE Fail(parser, exec, "INVALID_HEADER_TOKEN")
  BY <1>1, <1>2, <1>6, PlainFail DEF Errors
<1> QED
  BY <1>3, <1>4, <1>5, <1>6

\* What every round of the loops over a field or a value begins with.
LEMMA InRound ==
  ASSUME IInv, exec.pc \in {"switch", "loop"},
         parser.state \in {"s_header_field", "s_header_value"}
  PROVE  /\ stream \in Streams /\ log \in History /\ Len(stream) \in Nat
         /\ IsStruct(parser) /\ IsLocals(exec) /\ parser.errno = "OK"
         /\ exec.p \in 1..exec.end + 1 /\ exec.end \in 1..Len(stream)
         /\ LoopStart \in 1..exec.p /\ LoopStart <= exec.end
         /\ Settled(parser, LastOf(log)) /\ parser.state \in TextMarkStates
<1>1. /\ stream \in Streams /\ log \in History /\ IsStruct(parser) /\ IsLocals(exec)
      /\ parser.errno = "OK" /\ Place(parser, exec) /\ Sound(parser, exec, LastOf(log))
  BY DEF IInv, Inv, CallPcs
<1>2. Len(stream) \in Nat /\ exec.end \in 0..Len(stream) /\ exec.p \in 1..Len(stream) + 1
  BY <1>1, StreamLength DEF IsLocals
<1>3. CASE exec.pc = "switch"
  <2>1. LoopStart = exec.p /\ exec.p <= exec.end
    BY <1>1, <1>3 DEF LoopStart, Place
  <2> QED
    BY <1>1, <1>2, <2>1 DEF Sound, TextMarkStates
<1>4. CASE exec.pc = "loop"
  <2>1. LoopStart = exec.start /\ exec.p <= exec.end + 1 /\ exec.start \in 1..exec.p
        /\ exec.start <= exec.end
    BY <1>1, <1>4 DEF LoopStart, Place
  <2> QED
    BY <1>1, <1>2, <2>1 DEF Sound, TextMarkStates
<1> QED
  BY <1>3, <1>4

\* A loop goes on.
LEMMA LoopStep ==
  ASSUME IInv, exec.pc \in {"switch", "loop"},
         parser.state \in {"s_header_field", "s_header_value"},
         NEW q, IsStruct(q), q.errno = "OK", q.state = parser.state, Settled(q, LastOf(log)),
         NEW next \in exec.p..exec.end + 1, Loop(q, next)
  PROVE  Inv(parser', exec', log')
<1>1. /\ parser' = q /\ log' = log
      /\ exec' = [exec EXCEPT !.pc = "loop", !.start = LoopStart, !.p = next]
  BY DEF Loop
<1>2. IsLocals(exec) /\ Len(stream) \in Nat /\ stream \in Streams /\ log \in History
      /\ exec.p \in 1..exec.end + 1 /\ exec.end \in 1..Len(stream)
      /\ LoopStart \in 1..exec.p /\ LoopStart <= exec.end
  BY InRound
<1>3. /\ DOMAIN exec' = DOMAIN exec /\ exec'.pc = "loop" /\ exec'.start = LoopStart
      /\ exec'.p = next /\ exec'.end = exec.end /\ exec'.marks = exec.marks
      /\ exec'.nread = exec.nread
  BY <1>1, <1>2 DEF IsLocals
<1>4. IsLocals(exec') /\ Place(q, exec')
  <2>1. LoopStart \in Nat /\ next \in 1..Len(stream) + 1 /\ LoopStart \in 1..next
        /\ next <= exec.end + 1
    BY <1>2
  <2> QED
    BY <1>2, <1>3, <2>1 DEF IsLocals, Place, CallPcs
<1>5. Sound(q, exec', LastOf(log))
  BY <1>3, InText, TextSound DEF TextMarkStates
<1> QED
  BY <1>1, <1>2, <1>3, <1>4, <1>5 DEF Inv, CallPcs

\* The local variables with more header bytes counted.
LEMMA CountedLocals ==
  ASSUME stream \in Streams, NEW z, IsLocals(z), NEW n \in Nat, NEW y, y = Counted(z, n)
  PROVE  /\ IsLocals(y) /\ y.p = z.p /\ y.end = z.end /\ y.marks = z.marks /\ y.pc = z.pc
         /\ y.start = z.start /\ y.nread = z.nread + n
<1>1. y = [z EXCEPT !.nread = @ + n]
  BY DEF Counted
<1>2. /\ DOMAIN y = DOMAIN z /\ y.p = z.p /\ y.end = z.end /\ y.marks = z.marks /\ y.pc = z.pc
      /\ y.start = z.start /\ y.nread = z.nread + n
  BY <1>1 DEF IsLocals
<1>3. z.nread + n \in Nat
  BY DEF IsLocals
<1> QED
  BY <1>2, <1>3 DEF IsLocals

LEMMA LoopLocals ==
  ASSUME stream \in Streams, NEW x, IsLocals(x), NEW n \in Nat,
         NEW y, y = Counted([x EXCEPT !.start = 0], n)
  PROVE  /\ IsLocals(y) /\ y.p = x.p /\ y.end = x.end /\ y.marks = x.marks /\ y.pc = x.pc
<1> DEFINE z == [x EXCEPT !.start = 0]
<1>1. IsLocals(z) /\ z.p = x.p /\ z.end = x.end /\ z.marks = x.marks /\ z.pc = x.pc
  BY DEF IsLocals
<1>2. y = Counted(z, n)
  OBVIOUS
<1> HIDE DEF z
<1> QED
  BY <1>1, <1>2, CountedLocals

LEMMA LoopRunsOutStep ==
  ASSUME IInv, exec.pc \in {"switch", "loop"},
         parser.state \in {"s_header_field", "s_header_value"},
         exec.p > exec.end, LoopRunsOut
  PROVE  Inv(parser', exec', log')
<1> DEFINE n == exec.end - LoopStart
           x == [exec EXCEPT !.p = exec.end, !.start = 0]
           y == Counted(x, n)
<1>1. Fail(parser, x, "HEADER_OVERFLOW") \/ Break(parser, y)
  BY DEF LoopRunsOut
<1>2. n \in Nat /\ exec.end \in 1..Len(stream) + 1
  BY InRound
<1>3. IsLocals(exec) /\ Len(stream) \in Nat /\ IsStruct(parser) /\ parser.errno = "OK"
      /\ stream \in Streams /\ log \in History /\ Settled(parser, LastOf(log))
  BY InRound
<1>4. IsLocals(x) /\ x.p = exec.end /\ x.end = exec.end /\ x.marks = exec.marks
  BY <1>2, <1>3 DEF IsLocals
<1>5. IsLocals(y) /\ y.p = exec.end /\ y.end = exec.end /\ y.marks = exec.marks
  <2>1. y = Counted(x, n)
    OBVIOUS
  <2> HIDE DEF n, x, y
  <2>2. stream \in Streams /\ n \in Nat /\ IsLocals(x)
    BY <1>2, <1>3, <1>4
  <2>3. IsLocals(y) /\ y.p = x.p /\ y.end = x.end /\ y.marks = x.marks
    BY <2>1, <2>2, CountedLocals
  <2> QED
    BY <1>4, <2>3
<1>6. CASE Fail(parser, x, "HEADER_OVERFLOW")
  BY <1>3, <1>4, <1>6, FailStep DEF Errors
<1>7. CASE Break(parser, y)
  <2> HIDE DEF y
  <2> DEFINE z == [y EXCEPT !.pc = "fetch", !.p = @ + 1]
  <2>1. z.marks = exec.marks
    BY <1>5 DEF IsLocals
  <2> HIDE DEF z
  <2>2. Sound(parser, z, LastOf(log))
    BY <1>3, <2>1, InText, TextSound DEF TextMarkStates
  <2>3. y.p <= y.end
    BY <1>2, <1>5
  <2> QED
    BY <1>3, <1>5, <1>7, <2>2, <2>3, BreakStep DEF z
<1> QED
  BY <1>1, <1>6, <1>7

\* One more character compared with a word of which there is more than that.
LEMMA NextInside ==
  ASSUME NEW i \in 0..31, NEW n \in 5..31, i + 1 < n
  PROVE  i + 1 \in 0..31 /\ (i + 1 # n - 1 => i + 1 + 1 < n)
OBVIOUS

LEMMA ComparedStep ==
  ASSUME NEW q, IsStruct(q), NEW w, w.found \in HeaderStates, Len(w.word) \in 5..31,
         q.index + 1 < Len(w.word), NEW c, NEW otherwise \in HeaderStates,
         NEW r, r = Compared(q, w, c, otherwise)
  PROVE  /\ IsStruct(r) /\ r.errno = q.errno /\ r.state = q.state /\ r.flags = q.flags
         /\ r.content_length = q.content_length
         /\ r.index = q.index + 1
         /\ \/ r.header_state \in {otherwise, w.found}
            \/ r.header_state = q.header_state /\ r.index + 1 < Len(w.word)
<1> DEFINE i == q.index + 1
           s == CASE c # At(w.word, i) -> otherwise
                  [] c = At(w.word, i) /\ i = Len(w.word) - 1 -> w.found
                  [] OTHER -> q.header_state
<1>1. r = [q EXCEPT !.index = i, !.header_state = s]
  BY DEF Compared
<1>2. \/ s \in {otherwise, w.found}
      \/ s = q.header_state /\ i # Len(w.word) - 1
  OBVIOUS
<1>3. q.index \in 0..31 /\ q.header_state \in HeaderStates
  BY DEF IsStruct
<1> HIDE DEF s
<1>4. i \in 0..31 /\ (i # Len(w.word) - 1 => i + 1 < Len(w.word))
  BY <1>3, NextInside
<1>5. s \in HeaderStates
  BY <1>2, <1>3
<1> HIDE DEF i
<1>6. /\ IsStruct(r) /\ r.errno = q.errno /\ r.state = q.state /\ r.flags = q.flags
      /\ r.content_length = q.content_length /\ r.index = i /\ r.header_state = s
  BY <1>1, <1>4, <1>5 DEF IsStruct
<1>7. i = q.index + 1
  BY DEF i
<1> QED
  BY <1>2, <1>4, <1>6, <1>7

\* A name's next character leaves the index inside its word.
LEMMA FieldCharacterStep ==
  ASSUME NEW q, IsStruct(q), q.state = "s_header_field", Words(q), NEW c,
         NEW r, r = FieldCharacter(q, c)
  PROVE  /\ IsStruct(r) /\ r.errno = q.errno /\ r.state = q.state /\ r.flags = q.flags
         /\ r.content_length = q.content_length
         /\ Words(r)
<1>1. q.index \in 0..31 /\ q.header_state \in NameStates
  BY DEF IsStruct, Words
<1> DEFINE Moved(s) == [q EXCEPT !.index = @ + 1, !.header_state = s]
<1>2. CASE q.header_state \in {"h_C", "h_CO", "h_CON"}
  <2>1. PICK s \in {"h_CO", "h_CON", "h_matching_connection", "h_matching_content_length",
                    "h_general"} :
          /\ r = Moved(s)
          /\ s = "h_CO" => q.index = 0
          /\ s = "h_CON" => q.index = 1
          /\ s \in {"h_matching_connection", "h_matching_content_length"} => q.index = 2
    <3>1. CASE q.header_state = "h_C"
      <4>1. r = Moved(IF c = "o" THEN "h_CO" ELSE "h_general")
        BY <3>1, FieldWordNames DEF FieldCharacter
      <4>2. q.index = 0
        BY <3>1 DEF Words
      <4> QED
        BY <4>1, <4>2
    <3>2. CASE q.header_state = "h_CO"
      <4>1. r = Moved(IF c = "n" THEN "h_CON" ELSE "h_general")
        BY <3>2, FieldWordNames DEF FieldCharacter
      <4>2. q.index = 1
        BY <3>2 DEF Words
      <4> QED
        BY <4>1, <4>2
    <3>3. CASE q.header_state = "h_CON"
      <4>1. r = Moved(CASE c = "n" -> "h_matching_connection"
                        [] c = "t" -> "h_matching_content_length"
                        [] OTHER -> "h_general")
        BY <3>3, FieldWordNames DEF FieldCharacter
      <4>2. q.index = 2
        BY <3>3 DEF Words
      <4> QED
        BY <4>1, <4>2
    <3> QED
      BY <1>2, <3>1, <3>2, <3>3
  <2>2. s \in NameStates /\ q.index + 1 \in 0..31
    <3>1. s \in NameStates
      BY FieldWordNames DEF NameStates
    <3>2. q.index \in {0, 1, 2}
      BY <1>2 DEF Words
    <3> QED
      BY <3>1, <3>2
  <2>3. /\ IsStruct(r) /\ r.errno = q.errno /\ r.state = q.state /\ r.flags = q.flags
        /\ r.content_length = q.content_length /\ r.index = q.index + 1 /\ r.header_state = s
    BY <2>1, <2>2 DEF IsStruct, HeaderStates
  <2>4. ASSUME r.header_state \in DOMAIN FieldWords
        PROVE  r.index + 1 < Len(FieldWords[r.header_state].word)
    <3>1. s \in {"h_matching_connection", "h_matching_content_length"}
      BY <2>3, <2>4, FieldWordNames
    <3>2. PICK n \in 5..31 : n = Len(FieldWords[r.header_state].word)
      BY <2>4, CharsAssumption
    <3>3. r.index = 3
      BY <2>1, <2>3, <3>1
    <3>4. 3 + 1 < n
      OBVIOUS
    <3> QED
      BY <3>2, <3>3, <3>4
  <2>5. Words(r)
    <3>1. /\ r.header_state = "h_CO" => r.index = 1
          /\ r.header_state = "h_CON" => r.index = 2
          /\ r.header_state # "h_C" /\ r.header_state \in NameStates
      BY <2>1, <2>2, <2>3
    <3> QED
      BY <2>3, <2>4, <3>1 DEF Words
  <2> QED
    BY <2>3, <2>5
<1>3. CASE q.header_state \in DOMAIN FieldWords
  <2> DEFINE w == FieldWords[q.header_state]
             k == Compared(q, w, c, "h_general")
  <2>1. r = [k EXCEPT !.uses_transfer_encoding = @ \/ k.header_state = "h_transfer_encoding"]
    BY <1>3, FieldWordNames DEF FieldCharacter
  <2>2. Len(w.word) \in 5..31
    BY <1>3, CharsAssumption
  <2>3. w.found \in {"h_connection", "h_content_length", "h_transfer_encoding", "h_upgrade"}
    BY <1>3, FieldWordNames
  <2>4. w.found \in HeaderStates /\ "h_general" \in HeaderStates
    BY <2>3 DEF HeaderStates, NameStates
  <2>5. q.index + 1 < Len(w.word)
    BY <1>3 DEF Words
  <2> HIDE DEF w
  <2>6. /\ IsStruct(k) /\ k.errno = q.errno /\ k.state = q.state /\ k.flags = q.flags
        /\ k.content_length = q.content_length
        /\ k.index = q.index + 1
        /\ \/ k.header_state \in {"h_general", w.found}
           \/ k.header_state = q.header_state /\ k.index + 1 < Len(w.word)
    <3>1. k = Compared(q, w, c, "h_general")
      OBVIOUS
    <3> HIDE DEF k
    <3> QED
      BY <2>2, <2>4, <2>5, <3>1, ComparedStep
  <2> HIDE DEF k
  <2>7. (k.uses_transfer_encoding \/ k.header_state = "h_transfer_encoding") \in BOOLEAN
    OBVIOUS
  <2>8. /\ IsStruct(r) /\ r.errno = q.errno /\ r.state = q.state /\ r.flags = q.flags
        /\ r.content_length = q.content_length
        /\ r.index = k.index /\ r.header_state = k.header_state
    BY <2>1, <2>6, <2>7 DEF IsStruct
  <2>9. CASE r.header_state \in {"h_general", w.found}
    BY <2>3, <2>8, <2>9, FieldWordNames DEF Words, NameStates
  <2>10. CASE r.header_state = q.header_state /\ k.index + 1 < Len(w.word)
    <3>1. r.header_state \in NameStates /\ r.header_state \notin {"h_C", "h_CO", "h_CON"}
      BY <1>1, <1>3, <2>10, FieldWordNames
    <3>2. r.index + 1 < Len(FieldWords[r.header_state].word)
      BY <2>2, <2>8, <2>10 DEF w
    <3> QED
      BY <2>8, <3>1, <3>2 DEF Words
  <2> QED
    BY <2>6, <2>8, <2>9, <2>10
<1>4. CASE q.header_state \notin {"h_C", "h_CO", "h_CON"} \cup DOMAIN FieldWords
  <2>1. r = [q EXCEPT !.header_state = "h_general"]
    BY <1>4 DEF FieldCharacter
  <2>2. "h_general" \in NameStates /\ "h_general" \notin DOMAIN FieldWords
    BY FieldWordNames DEF NameStates
  <2>3. /\ IsStruct(r) /\ r.errno = q.errno /\ r.state = q.state /\ r.flags = q.flags
        /\ r.content_length = q.content_length /\ r.header_state = "h_general"
    BY <2>1, <2>2 DEF IsStruct, HeaderStates
  <2> QED
    BY <2>2, <2>3 DEF Words
<1> QED
  BY <1>2, <1>3, <1>4

\* How far a look ahead reaches.
LEMMA LookAheadRange ==
  ASSUME exec.p \in Nat, exec.end \in Nat, exec.p <= exec.end
  PROVE  LookAhead \in exec.p..exec.end + 1
<1>1. CASE exec.end + 1 - exec.p < MaxHeaderSize
  BY <1>1 DEF LookAhead
<1>2. CASE ~(exec.end + 1 - exec.p < MaxHeaderSize)
  <2>1. LookAhead = exec.p + MaxHeaderSize /\ MaxHeaderSize \in Nat
    BY <1>2, ParserAssumption DEF LookAhead
  <2> QED
    BY <1>2, <2>1
<1> QED
  BY <1>1, <1>2

\* The data that a loop has come to the end of is passed on.
LEMMA LoopData ==
  ASSUME IInv, exec.pc \in {"switch", "loop"},
         parser.state \in {"s_header_field", "s_header_value"},
         NEW x, IsLocals(x), x.p = exec.p, x.end = exec.end, x.marks = exec.marks,
         exec.p <= exec.end, NEW data, data = MarkOfState(parser.state)
  PROVE  /\ data \in DataKinds /\ x.marks[data] # 0
         /\ \A m \in DataKinds \ {data} : x.marks[m] = 0
         /\ x.p - 1 \in Nat /\ x.p \in 1..Len(stream) + 1 /\ x.p + 1 \in 1..Len(stream) + 1
         /\ x.p <= x.end
<1>1. parser.state \in TextMarkStates
  BY DEF TextMarkStates
<1>2. exec.p \in 1..exec.end + 1 /\ exec.end \in 1..Len(stream) /\ Len(stream) \in Nat
  BY InRound
<1> QED
  BY <1>1, <1>2, InText

LEMMA HeaderFieldStep ==
  ASSUME IInv, HeaderField PROVE Inv(parser', exec', log')
<1>1. exec.pc \in {"switch", "loop"} /\ parser.state = "s_header_field"
  BY DEF HeaderField, InLoop
<1>2. /\ stream \in Streams /\ log \in History /\ Len(stream) \in Nat
      /\ IsStruct(parser) /\ IsLocals(exec) /\ parser.errno = "OK"
      /\ exec.p \in 1..exec.end + 1 /\ exec.end \in 1..Len(stream)
      /\ LoopStart \in 1..exec.p /\ Settled(parser, LastOf(log))
  BY <1>1, InRound
<1> DEFINE n == exec.p - LoopStart
           x == Counted([exec EXCEPT !.start = 0], n)
           stops == {i \in exec.p + 1 .. LookAhead - 1 : ~TOKEN(stream[i])}
           jump == IF stops = {} THEN LookAhead ELSE Min(stops)
           far == IF jump > exec.p THEN jump ELSE exec.p + 1
           r == FieldCharacter(parser, Lowered(ch))
           q == To("s_header_value_discard_ws")
<1>3. \/ exec.p > exec.end /\ LoopRunsOut
      \/ /\ exec.p <= exec.end
         /\ \/ Loop(parser, far)
            \/ Loop(r, exec.p + 1)
            \/ Fail(parser, x, "HEADER_OVERFLOW")
            \/ Fail(parser, x, "INVALID_HEADER_TOKEN")
            \/ CALLBACK_DATA(q, x, "header_field", x.p - 1, x.p + 1, Advance)
  BY <1>2 DEF HeaderField
<1>4. CASE exec.p > exec.end /\ LoopRunsOut
  BY <1>1, <1>4, LoopRunsOutStep
<1>5. CASE exec.p <= exec.end /\ Loop(parser, far)
  <2>1. LookAhead \in exec.p..exec.end + 1
    BY <1>2, <1>5, LookAheadRange
  <2>2. jump \in exec.p..exec.end + 1
    <3>1. CASE stops = {}
      BY <2>1, <3>1
    <3>2. CASE stops # {}
      <4>1. stops \subseteq Nat
        BY <1>2, <2>1
      <4>2. Min(stops) \in stops
        BY <3>2, <4>1, LeastNatural
      <4> QED
        BY <1>2, <2>1, <3>2, <4>2
    <3> QED
      BY <3>1, <3>2
  <2> HIDE DEF jump
  <2>3. far \in exec.p..exec.end + 1
    BY <1>2, <1>5, <2>2
  <2> QED
    BY <1>1, <1>2, <1>5, <2>3, LoopStep
<1>6. CASE exec.p <= exec.end /\ Loop(r, exec.p + 1)
  <2>1. Words(parser)
    BY <1>2 DEF Settled
  <2>2. /\ IsStruct(r) /\ r.errno = parser.errno /\ r.state = parser.state
        /\ r.flags = parser.flags /\ r.content_length = parser.content_length /\ Words(r)
    BY <1>1, <1>2, <2>1, FieldCharacterStep
  <2> HIDE DEF r
  <2>3. LastOf(log) \in BeforeLine(r) \cup {"header_field"}
    BY <1>1, <1>2, <2>2 DEF Settled, Order, BeforeLine
  <2>4. Settled(r, LastOf(log))
    BY <1>1, <1>2, <2>2, <2>3, FieldSettled DEF Settled, Measured
  <2>5. exec.p + 1 \in exec.p..exec.end + 1
    BY <1>2, <1>6
  <2> QED
    BY <1>1, <1>2, <1>6, <2>2, <2>4, <2>5, LoopStep
<1>7. IsLocals(x) /\ x.p = exec.p /\ x.end = exec.end /\ x.marks = exec.marks
  <2>1. x = Counted([exec EXCEPT !.start = 0], n) /\ n \in Nat
    BY <1>2
  <2> HIDE DEF n, x
  <2> QED
    BY <1>2, <2>1, LoopLocals
<1> HIDE DEF x
<1>8. CASE Fail(parser, x, "HEADER_OVERFLOW") \/ Fail(parser, x, "INVALID_HEADER_TOKEN")
  BY <1>2, <1>7, <1>8, FailStep DEF Errors
<1>9. CASE /\ exec.p <= exec.end
           /\ CALLBACK_DATA(q, x, "header_field", x.p - 1, x.p + 1, Advance)
  <2>1. /\ "header_field" \in DataKinds /\ x.marks["header_field"] # 0
        /\ \A m \in DataKinds \ {"header_field"} : x.marks[m] = 0
        /\ x.p - 1 \in Nat /\ x.p + 1 \in 1..Len(stream) + 1 /\ x.p <= x.end
    BY <1>1, <1>7, <1>9, LoopData, MarkNames
  <2>2. /\ IsStruct(q) /\ q.errno = "OK" /\ q.state = "s_header_value_discard_ws"
        /\ q.flags = parser.flags /\ q.content_length = parser.content_length
    BY <1>2 DEF IsStruct, To, States
  <2> HIDE DEF q
  <2>3. Settled(q, "header_field") /\ q.state \notin MarkStates
    BY <1>2, <2>2, DiscardSettled DEF DiscardStates, Settled, Measured
  <2> DEFINE y == Unmark(x, "header_field")
  <2>4. /\ log' = Record("header_field", x.marks["header_field"], x.p - 1)
        /\ Advance(q, y) \/ Stopped(q, x, "header_field", x.p + 1)
    BY <1>9, <2>1 DEF CALLBACK_DATA, Stopped, Unmark
  <2> QED
    BY <1>2, <1>7, <2>1, <2>2, <2>3, <2>4, DataStep
<1> QED
  BY <1>3, <1>4, <1>5, <1>6, <1>8, <1>9

\* The header_state with which a value begins, at its first word's start.
ValueStarts == {"h_matching_transfer_encoding_chunked", "h_matching_transfer_encoding_token",
                "h_content_length_num", "h_matching_connection_keep_alive",
                "h_matching_connection_close", "h_matching_connection_upgrade",
                "h_matching_connection_token", "h_matching_transfer_encoding_token_start",
                "h_content_length_ws", "h_matching_connection_token_start", "h_general"}

LEMMA ValueStartNames ==
  ASSUME NEW q, NEW s, s = ValueStartState(q) PROVE s \in ValueStarts
<1>1. CASE q.header_state = "h_transfer_encoding"
  BY <1>1 DEF ValueStartState, ValueStarts
<1>2. CASE q.header_state = "h_connection"
  <2>1. s = CASE LOWER(ch) = "k" -> "h_matching_connection_keep_alive"
              [] LOWER(ch) = "c" -> "h_matching_connection_close"
              [] LOWER(ch) = "u" -> "h_matching_connection_upgrade"
              [] OTHER -> "h_matching_connection_token"
    BY <1>2 DEF ValueStartState
  <2> QED
    BY <2>1 DEF ValueStarts
<1>3. CASE q.header_state \notin {"h_transfer_encoding", "h_connection"}
  BY <1>3 DEF ValueStartState, ValueStarts
<1> QED
  BY <1>1, <1>2, <1>3

\* The words of a value are inside of what the index counts.
LEMMA ValueWords_ ==
  ASSUME NEW q, q.state = "s_header_value", q.index = 0,
         q.header_state \notin {"h_connection", "h_transfer_encoding"}
  PROVE  Words(q)
<1>1. ASSUME q.header_state \in DOMAIN ValueWords
      PROVE  q.index + 1 < Len(ValueWords[q.header_state].word)
  <2>1. PICK n \in 5..31 : n = Len(ValueWords[q.header_state].word)
    BY <1>1, CharsAssumption
  <2>2. 0 + 1 < n
    OBVIOUS
  <2> QED
    BY <2>1, <2>2
<1> QED
  BY <1>1 DEF Words

\* The structs with which it goes on.
Valued == [parser EXCEPT !.state = "s_header_value", !.index = 0]
ValuedAs(s) == [Valued EXCEPT !.header_state = s]
ValuedUpgrade(s) == [ValuedAs(s) EXCEPT !.flags = @ \cup {"F_UPGRADE"}]
ValuedLength(s) == [ValuedAs(s) EXCEPT !.flags = @ \cup {"F_CONTENTLENGTH"},
                                       !.content_length = DigitValue(ch)]

LEMMA StartValueWays ==
  ASSUME StartValue(parser), NEW x, x = MARK(exec, "header_value"),
         NEW s, s = ValueStartState(parser)
  PROVE  \/ Fail(Valued, x, "INVALID_CONTENT_LENGTH")
         \/ Fail(Valued, x, "UNEXPECTED_CONTENT_LENGTH")
         \/ Break(ValuedAs(s), x) \/ Break(ValuedUpgrade(s), x)
         \/ IS_NUM(ch) /\ Break(ValuedLength(s), x)
BY SMTT(60) DEF StartValue, Valued, ValuedAs, ValuedUpgrade, ValuedLength

LEMMA StartValueStep ==
  ASSUME IInv, exec.pc = "switch",
         parser.state \in {"s_header_value_discard_ws", "s_header_value_start"},
         StartValue(parser)
  PROVE  Inv(parser', exec', log')
<1>0. PICK x, s : x = MARK(exec, "header_value") /\ s = ValueStartState(parser)
  OBVIOUS
<1>1. \/ Fail(Valued, x, "INVALID_CONTENT_LENGTH") \/ Fail(Valued, x, "UNEXPECTED_CONTENT_LENGTH")
      \/ Break(ValuedAs(s), x) \/ Break(ValuedUpgrade(s), x)
      \/ IS_NUM(ch) /\ Break(ValuedLength(s), x)
  BY <1>0, StartValueWays
<1> DEFINE start == Valued
           next == ValuedAs(s)
           upgrade == ValuedUpgrade(s)
           length == ValuedLength(s)
<1>2. IsStruct(parser) /\ parser.errno = "OK" /\ exec.p <= Len(stream)
  BY InSwitch, StreamLength
<1>3. s \in ValueStarts
  BY <1>0, ValueStartNames
<1>4. ValueStarts \subseteq HeaderStates \ {"h_connection", "h_transfer_encoding"}
  BY ValueWordNames DEF ValueStarts, HeaderStates, NameStates
<1>5. /\ IsStruct(start) /\ start.errno = "OK" /\ start.state = "s_header_value"
      /\ start.index = 0 /\ start.flags = parser.flags
      /\ start.content_length = parser.content_length
  BY <1>2 DEF IsStruct, States, Valued
<1> HIDE DEF start
<1>6. /\ IsStruct(next) /\ next.errno = "OK" /\ next.state = "s_header_value"
      /\ next.index = 0 /\ next.flags = parser.flags /\ next.header_state = s
      /\ next.content_length = parser.content_length
  BY <1>3, <1>4, <1>5 DEF IsStruct, start, ValuedAs
<1> HIDE DEF next
<1>7. LastOf(log) \in {"header_field", "header_value"} /\ parser.state \notin MarkStates
  <2>1. parser.state \in DiscardStates \/ parser.state \in ValueEndStates
    BY DEF DiscardStates, ValueEndStates
  <2> QED
    BY <2>1, InDiscard, InValueEnd
<1>8. ASSUME NEW q, IsStruct(q), q.errno = "OK", q.state = "s_header_value", q.index = 0,
             q.header_state = s,
             "F_CONTENTLENGTH" \in q.flags => q.content_length # MaxLength, Break(q, x)
      PROVE  Inv(parser', exec', log')
  <2>1. Words(q)
    BY <1>3, <1>4, <1>8, ValueWords_
  <2>2. Settled(q, LastOf(log)) /\ q.state \in TextMarkStates
    BY <1>7, <1>8, <2>1, ValueSettled DEF TextMarkStates
  <2> QED
    BY <1>0, <1>7, <1>8, <2>2, MarkNames, MarkStep DEF DataKinds
<1>9. CASE Fail(start, x, "INVALID_CONTENT_LENGTH") \/ Fail(start, x, "UNEXPECTED_CONTENT_LENGTH")
  <2>1. IsLocals(x)
    BY <1>0, <1>2, InSwitch, MarkSets DEF DataKinds
  <2> QED
    BY <1>5, <1>9, <2>1, InSwitch, FailStep DEF Errors, start
<1>10. CASE Break(next, x)
  BY <1>6, <1>8, <1>10, LengthKept DEF next
<1>11. CASE Break(upgrade, x)
  <2>1. /\ IsStruct(upgrade) /\ upgrade.errno = "OK" /\ upgrade.state = "s_header_value"
        /\ upgrade.index = 0 /\ upgrade.header_state = s
        /\ upgrade.flags = parser.flags \cup {"F_UPGRADE"}
        /\ upgrade.content_length = parser.content_length
    BY <1>6, FlagNames DEF IsStruct, next, ValuedUpgrade
  <2> HIDE DEF upgrade
  <2> QED
    BY <1>8, <1>11, <2>1, LengthKept DEF upgrade
<1>12. CASE IS_NUM(ch) /\ Break(length, x)
  <2>1. DigitValue(ch) \in 0..MaxLength /\ DigitValue(ch) # MaxLength
    BY <1>12, DigitRange, ParserAssumption
  <2>2. /\ IsStruct(length) /\ length.errno = "OK" /\ length.state = "s_header_value"
        /\ length.index = 0 /\ length.header_state = s
        /\ length.content_length = DigitValue(ch)
    BY <1>6, <2>1, FlagNames DEF IsStruct, next, ValuedLength
  <2> HIDE DEF length
  <2> QED
    BY <1>8, <1>12, <2>1, <2>2 DEF length
<1> QED
  BY <1>1, <1>9, <1>10, <1>11, <1>12 DEF start, next

LEMMA HeaderValueDiscardWsStep ==
  ASSUME IInv, HeaderValueDiscardWs PROVE Inv(parser', exec', log')
<1>1. exec.pc = "switch" /\ parser.state = "s_header_value_discard_ws"
      /\ parser.state \in DiscardStates
  BY DEF HeaderValueDiscardWs, At_, DiscardStates
<1>2. IsStruct(parser) /\ parser.errno = "OK"
  BY <1>1, InSwitch
<1> DEFINE a == To("s_header_value_discard_ws_almost_done")
           b == To("s_header_value_discard_lws")
<1>3. Break(parser, exec) \/ Break(a, exec) \/ Break(b, exec) \/ StartValue(parser)
  BY DEF HeaderValueDiscardWs
<1>4. /\ IsStruct(a) /\ a.errno = "OK" /\ a.state = "s_header_value_discard_ws_almost_done"
      /\ a.flags = parser.flags /\ a.content_length = parser.content_length
      /\ IsStruct(b) /\ b.errno = "OK" /\ b.state = "s_header_value_discard_lws"
      /\ b.flags = parser.flags /\ b.content_length = parser.content_length
  BY <1>1, ToStruct, LiteralNames DEF States
<1> HIDE DEF a, b
<1>5. CASE Break(parser, exec) \/ Break(a, exec) \/ Break(b, exec)
  <2>1. PICK q \in {parser, a, b} : Break(q, exec)
    BY <1>5
  <2>2. /\ IsStruct(q) /\ q.errno = "OK" /\ q.state \in DiscardStates
        /\ q.flags = parser.flags /\ q.content_length = parser.content_length
    BY <1>1, <1>2, <1>4 DEF DiscardStates
  <2>3. Settled(q, LastOf(log)) /\ q.state \notin MarkStates /\ q.state # "s_chunk_size_start"
    BY <1>1, <2>2, InDiscard, LengthKept, DiscardSettled DEF DiscardStates
  <2> QED
    BY <1>1, <2>1, <2>2, <2>3, InDiscard, PlainBreak
<1>6. CASE StartValue(parser)
  BY <1>1, <1>6, StartValueStep
<1> QED
  BY <1>3, <1>5, <1>6

LEMMA HeaderValueStartStep ==
  ASSUME IInv, HeaderValueStart PROVE Inv(parser', exec', log')
BY StartValueStep DEF HeaderValueStart, At_

\* What a character of a value leaves alone.
SameMessage(q, r) ==
  /\ IsStruct(r) /\ r.errno = q.errno /\ r.state = q.state
  /\ "F_TRAILING" \in r.flags <=> "F_TRAILING" \in q.flags
  /\ "F_CONTENTLENGTH" \in r.flags => r.content_length # MaxLength

\* A struct whose header_state is not that of a word.
LEMMA NoWord ==
  ASSUME NEW q, q.state = "s_header_value",
         q.header_state \notin DOMAIN ValueWords \cup {"h_connection", "h_transfer_encoding"},
         q.header_state \in {"h_matching_connection_token_start",
                             "h_matching_transfer_encoding_token_start"} => q.index = 0
  PROVE  Words(q)
BY DEF Words

LEMMA HeaderStateStep ==
  ASSUME NEW q, IsStruct(q), NEW s \in HeaderStates, NEW r, r = [q EXCEPT !.header_state = s],
         "F_CONTENTLENGTH" \in q.flags => q.content_length # MaxLength
  PROVE  SameMessage(q, r) /\ r.header_state = s /\ r.index = q.index
<1>1. /\ IsStruct(r) /\ r.errno = q.errno /\ r.state = q.state /\ r.flags = q.flags
      /\ r.content_length = q.content_length /\ r.header_state = s /\ r.index = q.index
  BY DEF IsStruct
<1> QED
  BY <1>1 DEF SameMessage

NextElement(q, s) == [q EXCEPT !.header_state = s, !.index = 0]

LEMMA ElementStep ==
  ASSUME NEW q, IsStruct(q), NEW s \in HeaderStates,
         NEW r, r = NextElement(q, s),
         "F_CONTENTLENGTH" \in q.flags => q.content_length # MaxLength
  PROVE  SameMessage(q, r) /\ r.header_state = s /\ r.index = 0
<1>1. /\ IsStruct(r) /\ r.errno = q.errno /\ r.state = q.state /\ r.flags = q.flags
      /\ r.content_length = q.content_length /\ r.header_state = s /\ r.index = 0
  BY DEF IsStruct, NextElement
<1> QED
  BY <1>1 DEF SameMessage

\* A digit does not make the length wrap, nor into the value that means none.
LEMMA LongerStep ==
  ASSUME NEW length \in 0..MaxLength, NEW digit, NEW base \in {10, 16}, digit \in 0..base - 1,
         ~((MaxLength - base) \div base < length),
         NEW m, m = (length * base + digit) % (MaxLength + 1)
  PROVE  m \in 0..MaxLength - 1 /\ m = length * base + digit
<1>1. MaxLength \in Nat /\ MaxLength >= 16
  BY ParserAssumption
<1>2. CASE base = 10
  <2> DEFINE d == (MaxLength - 10) \div 10
  <2>1. d \in Nat /\ 10 * d <= MaxLength - 10
    BY <1>1
  <2>2. length <= d
    BY <1>2, <2>1
  <2>3. length * 10 + digit \in 0..MaxLength - 1
    BY <1>1, <1>2, <2>1, <2>2
  <2>4. \A k \in 0..MaxLength : k % (MaxLength + 1) = k
    BY <1>1
  <2> QED
    BY <1>1, <1>2, <2>3, <2>4
<1>3. CASE base = 16
  <2> DEFINE d == (MaxLength - 16) \div 16
  <2>1. d \in Nat /\ 16 * d <= MaxLength - 16
    BY <1>1
  <2>2. length <= d
    BY <1>3, <2>1
  <2>3. length * 16 + digit \in 0..MaxLength - 1
    BY <1>1, <1>3, <2>1, <2>2
  <2>4. \A k \in 0..MaxLength : k % (MaxLength + 1) = k
    BY <1>1
  <2> QED
    BY <1>1, <1>3, <2>3, <2>4
<1> QED
  BY <1>2, <1>3

HeaderStateNames == {"h_matching_transfer_encoding_chunked", "h_matching_transfer_encoding_token",
  "h_content_length_num", "h_matching_connection_keep_alive", "h_matching_connection_close",
  "h_matching_connection_upgrade", "h_matching_connection_token",
  "h_matching_transfer_encoding_token_start", "h_content_length_ws", "h_content_length",
  "h_matching_connection_token_start", "h_general", "h_transfer_encoding_chunked",
  "h_connection_keep_alive", "h_connection_close", "h_connection_upgrade"}

LEMMA ValueStatesKnown ==
  /\ HeaderStateNames \subseteq HeaderStates
  /\ DOMAIN CONNECTION_FLAGS = {"h_connection_keep_alive", "h_connection_close",
                                "h_connection_upgrade"}
  /\ \A h \in DOMAIN CONNECTION_FLAGS : CONNECTION_FLAGS[h] \in
       {"F_CONNECTION_KEEP_ALIVE", "F_CONNECTION_CLOSE", "F_CONNECTION_UPGRADE"}
<1>1. HeaderStateNames \subseteq HeaderStates
  BY ValueWordNames, FinalFlagNames DEF HeaderStateNames, HeaderStates, NameStates
<1>2. /\ DOMAIN CONNECTION_FLAGS = {"h_connection_keep_alive", "h_connection_close",
                                    "h_connection_upgrade"}
      /\ \A h \in DOMAIN CONNECTION_FLAGS : CONNECTION_FLAGS[h] \in
           {"F_CONNECTION_KEEP_ALIVE", "F_CONNECTION_CLOSE", "F_CONNECTION_UPGRADE"}
  BY DEF CONNECTION_FLAGS
<1> QED
  BY <1>1, <1>2

ValueStruct(q) ==
  /\ IsStruct(q) /\ q.state = "s_header_value" /\ Words(q)
  /\ "F_CONTENTLENGTH" \in q.flags => q.content_length # MaxLength

\* A word of a value compared.
LEMMA ComparedValue ==
  ASSUME NEW q, ValueStruct(q), q.header_state \in DOMAIN ValueWords, NEW c,
         NEW otherwise \in {"h_matching_transfer_encoding_token", "h_matching_connection_token"},
         NEW r, r = Compared(q, ValueWords[q.header_state], c, otherwise)
  PROVE  SameMessage(q, r) /\ Words(r)
<1>1. PICK w : w = ValueWords[q.header_state]
  OBVIOUS
<1>2. Len(w.word) \in 5..31
  BY <1>1, CharsAssumption
<1>3. w.found \in {"h_transfer_encoding_chunked", "h_connection_keep_alive",
                   "h_connection_close", "h_connection_upgrade"}
  BY <1>1, ValueWordNames
<1>4. w.found \in HeaderStates /\ otherwise \in HeaderStates
  BY <1>3, ValueStatesKnown DEF HeaderStateNames
<1>5. IsStruct(q) /\ q.state = "s_header_value" /\ q.index + 1 < Len(w.word)
  BY <1>1 DEF ValueStruct, Words
<1>6. /\ IsStruct(r) /\ r.errno = q.errno /\ r.state = q.state /\ r.flags = q.flags
      /\ r.content_length = q.content_length
      /\ \/ r.header_state \in {otherwise, w.found}
         \/ r.header_state = q.header_state /\ r.index + 1 < Len(w.word)
  BY <1>1, <1>2, <1>4, <1>5, ComparedStep
<1>7. CASE r.header_state \in {otherwise, w.found}
  BY <1>3, <1>5, <1>6, <1>7, ValueWordNames, NoWord DEF SameMessage, ValueStruct
<1>8. CASE r.header_state = q.header_state /\ r.index + 1 < Len(w.word)
  <2>1. Words(r)
    BY <1>1, <1>5, <1>6, <1>8, ValueWordNames DEF Words
  <2> QED
    BY <1>6, <2>1 DEF SameMessage, ValueStruct
<1> QED
  BY <1>6, <1>7, <1>8

\* The first character of a list's element.
LEMMA ElementStartStep ==
  ASSUME NEW q, ValueStruct(q), NEW c, NEW words,
         NEW token \in {"h_matching_transfer_encoding_token", "h_matching_connection_token"},
         \A k \in DOMAIN words : words[k] \in DOMAIN ValueWords,
         q.header_state \in {"h_matching_connection_token_start",
                             "h_matching_transfer_encoding_token_start"},
         NEW r, r = ElementStart(q, c, words, token)
  PROVE  SameMessage(q, r) /\ Words(r)
<1>1. PICK s : /\ r = [q EXCEPT !.header_state = s]
               /\ \/ s \in DOMAIN ValueWords
                  \/ s \in {token, "h_general"} \/ s = q.header_state
  <2>1. CASE c \in DOMAIN words
    <3>1. r = [q EXCEPT !.header_state = words[c]]
      BY <2>1 DEF ElementStart
    <3> QED
      BY <2>1, <3>1
  <2>2. CASE c \notin DOMAIN words
    <3>1. PICK s \in {token, "h_general", q.header_state} : r = [q EXCEPT !.header_state = s]
      BY <2>2 DEF ElementStart
    <3> QED
      BY <3>1
  <2> QED
    BY <2>1, <2>2
<1>2. IsStruct(q) /\ q.state = "s_header_value" /\ q.index = 0
  BY DEF ValueStruct, Words
<1>3. s \in HeaderStates \ {"h_connection", "h_transfer_encoding"}
  BY <1>1, <1>2, ValueStatesKnown, ValueWordNames DEF HeaderStateNames
<1>4. SameMessage(q, r) /\ r.header_state = s /\ r.index = 0
  BY <1>1, <1>2, <1>3, HeaderStateStep DEF ValueStruct
<1>5. r.state = "s_header_value"
  BY <1>2, <1>4 DEF SameMessage
<1> QED
  BY <1>3, <1>4, <1>5, ValueWords_

\* What the next character does, by the header_state.
WithHeaderState(q, s) == [q EXCEPT !.header_state = s]
WithDigit(q) == [Longer(q, 10, DigitValue(ch)) EXCEPT !.header_state = "h_content_length_num"]

ReadsLength(q) == q.header_state \in {"h_content_length", "h_content_length_num"}

LEMMA ValueCharacterBlank ==
  ASSUME NEW q, ReadsLength(q), ch = " ",
         NEW r, r = ValueCharacter(q)
  PROVE  \E s \in {"h_content_length", "h_content_length_ws"} : r = WithHeaderState(q, s)
<1>1. r = WithHeaderState(q, IF q.header_state = "h_content_length" THEN "h_content_length"
                             ELSE "h_content_length_ws")
  BY ValueWordNames, ValueStatesKnown DEF ValueCharacter, WithHeaderState, ReadsLength
<1> QED
  BY <1>1

LEMMA ValueCharacterDigit ==
  ASSUME NEW q, ReadsLength(q), ch # " ",
         NEW r, r = ValueCharacter(q)
  PROVE  r = WithDigit(q)
BY ValueWordNames, ValueStatesKnown DEF ValueCharacter, WithDigit, ReadsLength

LEMMA ValueCharacterWord ==
  ASSUME NEW q, q.header_state \in DOMAIN ValueWords, NEW r, r = ValueCharacter(q)
  PROVE  \E otherwise \in {"h_matching_transfer_encoding_token", "h_matching_connection_token"} :
           r = Compared(q, ValueWords[q.header_state], LOWER(ch), otherwise)
<1>1. CASE q.header_state = "h_matching_transfer_encoding_chunked"
  BY <1>1, ValueStatesKnown DEF ValueCharacter
<1>2. CASE q.header_state # "h_matching_transfer_encoding_chunked"
  BY <1>2, ValueWordNames, ValueStatesKnown DEF ValueCharacter
<1> QED
  BY <1>1, <1>2

LEMMA ValueCharacterStart ==
  ASSUME NEW q, q.header_state \in {"h_matching_connection_token_start",
                                    "h_matching_transfer_encoding_token_start"},
         NEW r, r = ValueCharacter(q)
  PROVE  \/ r = ElementStart(q, LOWER(ch), [c |-> "h_matching_transfer_encoding_chunked"],
                             "h_matching_transfer_encoding_token")
         \/ r = ElementStart(q, LOWER(ch), [k |-> "h_matching_connection_keep_alive",
                                            c |-> "h_matching_connection_close",
                                            u |-> "h_matching_connection_upgrade"],
                             "h_matching_connection_token")
<1>1. CASE q.header_state = "h_matching_connection_token_start"
  BY <1>1, ValueWordNames, ValueStatesKnown DEF ValueCharacter
<1>2. CASE q.header_state = "h_matching_transfer_encoding_token_start"
  BY <1>2, ValueWordNames, ValueStatesKnown DEF ValueCharacter
<1> QED
  BY <1>1, <1>2

LEMMA ValueCharacterToken ==
  ASSUME NEW q, q.header_state \in {"h_matching_transfer_encoding_token",
                                    "h_matching_connection_token"},
         NEW r, r = ValueCharacter(q)
  PROVE  \/ r = q
         \/ \E s \in {"h_matching_connection_token_start",
                      "h_matching_transfer_encoding_token_start"} :
              r = NextElement(q, s)
<1>1. CASE q.header_state = "h_matching_connection_token"
  BY <1>1, ValueWordNames, ValueStatesKnown DEF ValueCharacter, NextElement
<1>2. CASE q.header_state = "h_matching_transfer_encoding_token"
  BY <1>2, ValueWordNames, ValueStatesKnown DEF ValueCharacter, NextElement
<1> QED
  BY <1>1, <1>2

\* The next character of a value leaves the struct one of a value.
LEMMA ValueCharacterStep ==
  ASSUME NEW q, ValueStruct(q), ~BadLength(q), NEW r, r = ValueCharacter(q)
  PROVE  SameMessage(q, r) /\ Words(r)
<1> DEFINE state == q.header_state
           c == LOWER(ch)
<1>1. /\ IsStruct(q) /\ q.state = "s_header_value" /\ state \in HeaderStates
      /\ state \notin {"h_connection", "h_transfer_encoding"}
      /\ q.content_length \in 0..MaxLength
      /\ "F_CONTENTLENGTH" \in q.flags => q.content_length # MaxLength
  BY DEF ValueStruct, Words, IsStruct
<1>2. CASE r = q
  BY <1>1, <1>2 DEF SameMessage, ValueStruct
<1>3. ASSUME NEW s \in HeaderStateNames, r = [q EXCEPT !.header_state = s],
             s \notin DOMAIN ValueWords \cup {"h_matching_connection_token_start",
                                              "h_matching_transfer_encoding_token_start"}
      PROVE  SameMessage(q, r) /\ Words(r)
  <2>1. SameMessage(q, r) /\ r.header_state = s
    BY <1>1, <1>3, ValueStatesKnown, HeaderStateStep
  <2>2. s \notin {"h_connection", "h_transfer_encoding"}
    BY DEF HeaderStateNames
  <2> QED
    BY <1>1, <1>3, <2>1, <2>2, NoWord DEF SameMessage
<1>4. ASSUME NEW s \in {"h_matching_connection_token_start",
                        "h_matching_transfer_encoding_token_start"},
             r = NextElement(q, s)
      PROVE  SameMessage(q, r) /\ Words(r)
  <2>1. SameMessage(q, r) /\ r.header_state = s /\ r.index = 0
    <3>1. s \in HeaderStates
      BY ValueStatesKnown DEF HeaderStateNames
    <3> QED
      BY <1>1, <1>4, <3>1, ElementStep
  <2> QED
    BY <1>1, <2>1, ValueWords_ DEF SameMessage
<1>5. CASE state \in {"h_content_length", "h_content_length_num"}
  <2>0. ReadsLength(q)
    BY <1>5 DEF ReadsLength
  <2>1. CASE ch = " "
    <3>1. PICK s \in {"h_content_length", "h_content_length_ws"} : r = WithHeaderState(q, s)
      BY <2>0, <2>1, ValueCharacterBlank
    <3> QED
      BY <1>3, <3>1, ValueWordNames DEF HeaderStateNames, WithHeaderState
  <2>2. CASE ch # " "
    <3>1. r = WithDigit(q)
      BY <2>0, <2>2, ValueCharacterDigit
    <3>2. IS_NUM(ch) /\ ~((MaxLength - 10) \div 10 < q.content_length)
      BY <1>5, <2>2 DEF BadLength, TooLong
    <3>3. PICK m : m = (q.content_length * 10 + DigitValue(ch)) % (MaxLength + 1)
      OBVIOUS
    <3>4. DigitValue(ch) \in 0..10 - 1
      BY <3>2, DigitRange
    <3>5. m \in 0..MaxLength - 1
      BY <1>1, <3>2, <3>3, <3>4, LongerStep
    <3>6. r = [q EXCEPT !.content_length = m, !.header_state = "h_content_length_num"]
      BY <1>1, <3>1, <3>3 DEF Longer, WithDigit, IsStruct
    <3>7. m \in 0..MaxLength /\ m # MaxLength
      BY <3>5, ParserAssumption
    <3>8. "h_content_length_num" \in HeaderStates
      BY ValueStatesKnown DEF HeaderStateNames
    <3>9. /\ IsStruct(r) /\ r.errno = q.errno /\ r.state = q.state /\ r.flags = q.flags
          /\ r.content_length = m /\ r.header_state = "h_content_length_num"
      BY <1>1, <3>6, <3>7, <3>8 DEF IsStruct
    <3> QED
      BY <1>1, <3>7, <3>9, ValueWordNames, NoWord DEF SameMessage
  <2> QED
    BY <2>1, <2>2
<1>6. CASE state \in DOMAIN ValueWords
  <2>1. PICK otherwise \in {"h_matching_transfer_encoding_token", "h_matching_connection_token"} :
          r = Compared(q, ValueWords[state], c, otherwise)
    BY <1>6, ValueCharacterWord
  <2> QED
    BY <1>6, <2>1, ComparedValue
<1>7. CASE state \in {"h_matching_connection_token_start",
                      "h_matching_transfer_encoding_token_start"}
  <2> DEFINE encodings == [c |-> "h_matching_transfer_encoding_chunked"]
             connections == [k |-> "h_matching_connection_keep_alive",
                             c |-> "h_matching_connection_close",
                             u |-> "h_matching_connection_upgrade"]
  <2>1. \/ r = ElementStart(q, c, encodings, "h_matching_transfer_encoding_token")
        \/ r = ElementStart(q, c, connections, "h_matching_connection_token")
    BY <1>7, ValueCharacterStart
  <2>2. /\ \A k \in DOMAIN encodings : encodings[k] \in DOMAIN ValueWords
        /\ \A k \in DOMAIN connections : connections[k] \in DOMAIN ValueWords
    BY ValueWordNames
  <2> HIDE DEF encodings, connections
  <2> QED
    BY <1>7, <2>1, <2>2, ElementStartStep
<1>8. CASE state \in {"h_matching_transfer_encoding_token", "h_matching_connection_token"}
  <2>1. \/ r = q
        \/ \E s \in {"h_matching_connection_token_start",
                     "h_matching_transfer_encoding_token_start"} : r = NextElement(q, s)
    BY <1>8, ValueCharacterToken
  <2> QED
    BY <1>2, <1>4, <2>1
<1>9. CASE state \in {"h_transfer_encoding_chunked", "h_content_length_ws"}
  <2>1. r = q \/ r = [q EXCEPT !.header_state = "h_matching_transfer_encoding_token"]
    BY <1>9, ValueStatesKnown DEF ValueCharacter
  <2> QED
    BY <1>2, <1>3, <2>1, ValueWordNames DEF HeaderStateNames
<1>10. CASE state \in DOMAIN CONNECTION_FLAGS
  <2> DEFINE f == CONNECTION_FLAGS[state]
             s == "h_matching_connection_token_start"
  <2>1. \/ r = [[q EXCEPT !.header_state = s, !.index = 0] EXCEPT !.flags = @ \cup {f}]
        \/ r = q \/ r = [q EXCEPT !.header_state = "h_matching_connection_token"]
    BY <1>10, ValueStatesKnown, ValueWordNames DEF ValueCharacter
  <2>2. CASE r = [[q EXCEPT !.header_state = s, !.index = 0] EXCEPT !.flags = @ \cup {f}]
    <3>1. f \in {"F_CONNECTION_KEEP_ALIVE", "F_CONNECTION_CLOSE", "F_CONNECTION_UPGRADE"}
      BY <1>10, ValueStatesKnown
    <3>2. f \in Flags /\ f \notin {"F_TRAILING", "F_CONTENTLENGTH"}
      BY <3>1, FlagNames
    <3>3. s \in HeaderStates
      BY ValueStatesKnown DEF HeaderStateNames
    <3> HIDE DEF f
    <3>4. /\ IsStruct(r) /\ r.errno = q.errno /\ r.state = q.state
          /\ r.flags = q.flags \cup {f}
          /\ r.content_length = q.content_length /\ r.header_state = s /\ r.index = 0
      BY <1>1, <2>2, <3>2, <3>3 DEF IsStruct
    <3> QED
      BY <1>1, <3>2, <3>4, ValueWords_ DEF SameMessage
  <2> QED
    BY <1>2, <1>3, <2>1, <2>2, ValueWordNames DEF HeaderStateNames
<1>11. CASE state \notin {"h_content_length", "h_content_length_num", "h_content_length_ws",
                          "h_matching_connection_token_start",
                          "h_matching_transfer_encoding_token_start",
                          "h_matching_transfer_encoding_token", "h_matching_connection_token",
                          "h_transfer_encoding_chunked"}
                         \cup DOMAIN ValueWords \cup DOMAIN CONNECTION_FLAGS
  <2>1. r = [q EXCEPT !.header_state = "h_general"]
    BY <1>11, ValueStatesKnown, ValueWordNames DEF ValueCharacter
  <2> QED
    BY <1>3, <2>1, ValueWordNames DEF HeaderStateNames
<1> QED
  BY <1>5, <1>6, <1>7, <1>8, <1>9, <1>10, <1>11

LEMMA GeneralRange ==
  ASSUME exec.p \in 1..exec.end, exec.end \in Nat,
         NEW stops, stops \subseteq exec.p..LookAhead - 1,
         NEW next, next = (CASE stops # {} -> Min(stops)
                             [] stops = {} /\ LookAhead = exec.end + 1 -> LookAhead
                             [] OTHER -> LookAhead + 1)
  PROVE  next \in exec.p..exec.end + 1
<1>1. LookAhead \in exec.p..exec.end + 1
  BY LookAheadRange
<1>2. CASE stops # {}
  <2>1. stops \subseteq Nat
    BY <1>1
  <2>2. next \in stops
    BY <1>2, <2>1, LeastNatural
  <2> QED
    BY <1>1, <2>2
<1>3. CASE stops = {} /\ LookAhead = exec.end + 1
  BY <1>1, <1>3
<1>4. CASE stops = {} /\ LookAhead # exec.end + 1
  <2>1. next = LookAhead + 1
    BY <1>4
  <2> QED
    BY <1>1, <1>4, <2>1
<1> QED
  BY <1>2, <1>3, <1>4

LEMMA GeneralValueStep ==
  ASSUME IInv, exec.pc \in {"switch", "loop"}, parser.state = "s_header_value",
         exec.p <= exec.end, GeneralValue
  PROVE  Inv(parser', exec', log')
<1> DEFINE stops == {i \in exec.p .. LookAhead - 1 :
                       stream[i] \in {CR, LF} \/ BadHeaderChar(stream[i])}
           next == CASE stops # {} -> Min(stops)
                     [] stops = {} /\ LookAhead = exec.end + 1 -> LookAhead
                     [] OTHER -> LookAhead + 1
<1>1. Loop(parser, next)
  BY DEF GeneralValue
<1>2. /\ IsStruct(parser) /\ parser.errno = "OK" /\ exec.p \in 1..exec.end
      /\ exec.end \in Nat /\ Settled(parser, LastOf(log))
  BY InRound
<1>3. stops \subseteq exec.p..LookAhead - 1
  OBVIOUS
<1> HIDE DEF stops
<1>4. PICK n : n = next
  OBVIOUS
<1>5. n \in exec.p..exec.end + 1
  BY <1>2, <1>3, <1>4, GeneralRange
<1> QED
  BY <1>1, <1>2, <1>4, <1>5, LoopStep

\* The struct at the end of a value's line.
LEMMA ValueLineEnd ==
  ASSUME IInv, exec.pc \in {"switch", "loop"}, parser.state = "s_header_value",
         NEW q, q = To("s_header_almost_done")
  PROVE  /\ IsStruct(q) /\ q.errno = "OK" /\ q.state = "s_header_almost_done"
         /\ Settled(q, "header_value") /\ q.state \notin MarkStates
<1>1. IsStruct(parser) /\ parser.errno = "OK" /\ Settled(parser, LastOf(log))
  BY InRound
<1>2. /\ IsStruct(q) /\ q.errno = "OK" /\ q.state = "s_header_almost_done"
      /\ q.flags = parser.flags /\ q.content_length = parser.content_length
  BY <1>1, LiteralNames DEF IsStruct, To, States
<1> QED
  BY <1>1, <1>2, ValueEndSettled DEF ValueEndStates, Settled, Measured

LEMMA CrValueStep ==
  ASSUME IInv, exec.pc \in {"switch", "loop"}, parser.state = "s_header_value",
         exec.p <= exec.end, CrValue(exec)
  PROVE  Inv(parser', exec', log')
<1> DEFINE q == To("s_header_almost_done")
           y == Unmark(exec, "header_value")
           n == y.p - LoopStart
           z == Counted([y EXCEPT !.start = 0], n)
           over == [q EXCEPT !.errno = "HEADER_OVERFLOW"]
<1>1. /\ stream \in Streams /\ log \in History /\ Len(stream) \in Nat
      /\ IsStruct(parser) /\ IsLocals(exec) /\ parser.errno = "OK"
      /\ exec.p \in 1..exec.end + 1 /\ LoopStart \in 1..exec.p
  BY InRound
<1>2. /\ "header_value" \in DataKinds /\ exec.marks["header_value"] # 0
      /\ \A m \in DataKinds \ {"header_value"} : exec.marks[m] = 0
      /\ exec.p - 1 \in Nat /\ exec.p \in 1..Len(stream) + 1 /\ exec.p + 1 \in 1..Len(stream) + 1
  BY <1>1, LoopData, MarkNames
<1>3. /\ log' = Record("header_value", exec.marks["header_value"], exec.p - 1)
      /\ \/ Stopped(q, exec, "header_value", exec.p + 1)
         \/ RETURN(over, z, z.p) \/ Advance(q, z)
  BY <1>2 DEF CrValue, CALLBACK_DATA, Stopped, Unmark
<1>4. /\ IsStruct(q) /\ q.errno = "OK" /\ q.state = "s_header_almost_done"
      /\ Settled(q, "header_value") /\ q.state \notin MarkStates
  BY ValueLineEnd
<1> HIDE DEF q
<1>5. /\ IsLocals(y) /\ y.p = exec.p /\ y.end = exec.end
      /\ \A m \in DataKinds : y.marks[m] = 0
  <2>1. y = Unmark(exec, "header_value")
    OBVIOUS
  <2> HIDE DEF y
  <2>2. /\ IsLocals(y) /\ y.p = exec.p /\ y.end = exec.end /\ y.marks["header_value"] = 0
        /\ \A m \in DataKinds \ {"header_value"} : y.marks[m] = exec.marks[m]
    BY <1>1, <1>2, <2>1, Unmarked
  <2> QED
    BY <1>2, <2>2
<1> HIDE DEF y
<1>6. IsLocals(z) /\ z.p = exec.p /\ z.end = exec.end /\ \A m \in DataKinds : z.marks[m] = 0
  <2>1. z = Counted([y EXCEPT !.start = 0], n) /\ n \in Nat
    BY <1>1, <1>5
  <2> HIDE DEF n, z
  <2>2. IsLocals(z) /\ z.p = y.p /\ z.end = y.end /\ z.marks = y.marks
    BY <1>1, <1>5, <2>1, LoopLocals
  <2> QED
    BY <1>5, <2>2
<1> HIDE DEF z
<1>7. log' \in History /\ LastOf(log') = "header_value"
  <2>1. exec.marks["header_value"] \in Nat
    BY <1>1, <1>2 DEF IsLocals
  <2> QED
    BY <1>1, <1>2, <1>3, <2>1, RecordStep DEF CallbackNames, CallbackErrors
<1>8. CASE Stopped(q, exec, "header_value", exec.p + 1)
  <2>1. "s_header_almost_done" \notin {"s_chunk_size_start", "s_chunk_data_almost_done"}
    OBVIOUS
  <2>2. Sound(q, y, "header_value")
    BY <1>4, <1>5, UnmarkedSound
  <2>3. "header_value" \in CallbackNames
    BY DEF CallbackNames, CallbackErrors
  <2> QED
    BY <1>1, <1>2, <1>4, <1>7, <1>8, <2>2, <2>3, StopStep
<1>9. CASE Advance(q, z)
  BY <1>1, <1>4, <1>6, <1>7, <1>9, PlainAdvance
<1>10. CASE RETURN(over, z, z.p)
  <2>1. IsStruct(over) /\ over.errno = "HEADER_OVERFLOW" /\ over.state = q.state
    BY <1>4 DEF IsStruct, Errors
  <2> HIDE DEF over
  <2>2. z.p \in 1..Len(stream) + 1
    BY <1>2, <1>6
  <2> QED
    BY <1>1, <1>4, <1>6, <1>7, <1>10, <2>1, <2>2, ReturnStep
<1> QED
  BY <1>3, <1>8, <1>9, <1>10

LEMMA LfValueStep ==
  ASSUME IInv, exec.pc \in {"switch", "loop"}, parser.state = "s_header_value",
         exec.p <= exec.end, LfValue(exec)
  PROVE  Inv(parser', exec', log')
<1> DEFINE q == To("s_header_almost_done")
           n == exec.p - LoopStart
           x == Counted([exec EXCEPT !.start = 0], n)
<1>1. /\ stream \in Streams /\ log \in History /\ Len(stream) \in Nat
      /\ IsStruct(parser) /\ IsLocals(exec) /\ parser.errno = "OK"
      /\ exec.p \in 1..exec.end + 1 /\ LoopStart \in 1..exec.p
  BY InRound
<1>2. IsLocals(x) /\ x.p = exec.p /\ x.end = exec.end /\ x.marks = exec.marks
  <2>1. x = Counted([exec EXCEPT !.start = 0], n) /\ n \in Nat
    BY <1>1
  <2> HIDE DEF n, x
  <2> QED
    BY <1>1, <2>1, LoopLocals
<1>3. \/ Fail(q, x, "HEADER_OVERFLOW")
      \/ CALLBACK_DATA(q, x, "header_value", exec.p - 1, exec.p, REEXECUTE)
  BY DEF LfValue
<1>4. /\ IsStruct(q) /\ q.errno = "OK" /\ q.state = "s_header_almost_done"
      /\ Settled(q, "header_value") /\ q.state \notin MarkStates
  BY ValueLineEnd
<1> HIDE DEF q, x
<1>5. CASE Fail(q, x, "HEADER_OVERFLOW")
  BY <1>1, <1>2, <1>4, <1>5, FailStep DEF Errors
<1>6. CASE CALLBACK_DATA(q, x, "header_value", exec.p - 1, exec.p, REEXECUTE)
  <2>1. /\ "header_value" \in DataKinds /\ x.marks["header_value"] # 0
        /\ \A m \in DataKinds \ {"header_value"} : x.marks[m] = 0
        /\ exec.p - 1 \in Nat /\ exec.p \in 1..Len(stream) + 1 /\ x.p <= x.end
    BY <1>1, <1>2, LoopData, MarkNames
  <2> DEFINE y == Unmark(x, "header_value")
  <2>2. /\ log' = Record("header_value", x.marks["header_value"], exec.p - 1)
        /\ REEXECUTE(q, y) \/ Stopped(q, x, "header_value", exec.p)
    BY <1>6, <2>1 DEF CALLBACK_DATA, Stopped, Unmark
  <2> QED
    BY <1>1, <1>2, <1>4, <2>1, <2>2, DataStep
<1> QED
  BY <1>3, <1>5, <1>6

LEMMA HeaderValueStep ==
  ASSUME IInv, HeaderValue PROVE Inv(parser', exec', log')
<1>1. exec.pc \in {"switch", "loop"} /\ parser.state = "s_header_value"
  BY DEF HeaderValue, InLoop
<1>2. /\ stream \in Streams /\ log \in History /\ IsStruct(parser) /\ IsLocals(exec)
      /\ parser.errno = "OK" /\ exec.p \in 1..exec.end + 1 /\ exec.end \in 1..Len(stream)
      /\ Len(stream) \in Nat /\ Settled(parser, LastOf(log))
  BY <1>1, InRound
<1> DEFINE r == ValueCharacter(parser)
<1>3. \/ exec.p > exec.end /\ LoopRunsOut
      \/ /\ exec.p <= exec.end
         /\ \/ CrValue(exec) \/ LfValue(exec) \/ Fail(parser, exec, "INVALID_HEADER_TOKEN")
            \/ GeneralValue \/ Fail(parser, exec, "INVALID_CONTENT_LENGTH")
            \/ ~BadLength(parser) /\ Loop(r, exec.p + 1)
  <2>1. CASE exec.p > exec.end
    BY <1>2, <2>1 DEF HeaderValue
  <2>2. CASE exec.p <= exec.end /\ ch = CR
    BY <1>2, <2>2 DEF HeaderValue, CR, LF
  <2>3. CASE exec.p <= exec.end /\ ch = LF
    BY <1>2, <2>3 DEF HeaderValue, CR, LF
  <2>4. CASE exec.p <= exec.end /\ ch \notin {CR, LF}
    BY <1>2, <2>4 DEF HeaderValue
  <2> QED
    BY <1>2, <2>1, <2>2, <2>3, <2>4
<1>4. CASE exec.p > exec.end /\ LoopRunsOut
  BY <1>1, <1>4, LoopRunsOutStep
<1>5. CASE exec.p <= exec.end /\ (CrValue(exec) \/ LfValue(exec) \/ GeneralValue)
  BY <1>1, <1>5, CrValueStep, LfValueStep, GeneralValueStep
<1>6. CASE Fail(parser, exec, "INVALID_HEADER_TOKEN") \/ Fail(parser, exec, "INVALID_CONTENT_LENGTH")
  BY <1>2, <1>6, FailStep DEF Errors
<1>7. CASE exec.p <= exec.end /\ ~BadLength(parser) /\ Loop(r, exec.p + 1)
  <2>1. ValueStruct(parser)
    BY <1>1, <1>2 DEF ValueStruct, Settled, Measured
  <2>2. SameMessage(parser, r) /\ Words(r)
    BY <1>7, <2>1, ValueCharacterStep
  <2> HIDE DEF r
  <2>3. IsStruct(r) /\ r.errno = "OK" /\ r.state = "s_header_value"
    BY <1>1, <1>2, <2>2 DEF SameMessage
  <2>4. LastOf(log) \in {"header_field", "header_value"}
    BY <1>1, <1>2 DEF Settled, Order
  <2>5. Settled(r, LastOf(log))
    BY <2>2, <2>3, <2>4, ValueSettled DEF SameMessage
  <2>6. exec.p + 1 \in exec.p..exec.end + 1
    BY <1>2, <1>7
  <2> QED
    BY <1>1, <1>7, <2>3, <2>5, <2>6, LoopStep
<1> QED
  BY <1>3, <1>4, <1>5, <1>6, <1>7

\* A value's flag does not begin trailers nor state a length.
LEMMA FinalFlagStep ==
  ASSUME IInv, exec.pc = "switch", NEW r, r = WithFinalFlag(parser),
         NEW q, q = [r EXCEPT !.state = "s_header_field_start"]
  PROVE  /\ IsStruct(q) /\ q.errno = "OK" /\ q.state = "s_header_field_start"
         /\ "F_TRAILING" \in q.flags <=> "F_TRAILING" \in parser.flags
         /\ Settled(q, "header_value") /\ q.state \notin MarkStates
         /\ q.state # "s_chunk_size_start"
<1>1. IsStruct(parser) /\ parser.errno = "OK"
  BY InSwitch
<1>2. /\ IsStruct(r) /\ r.errno = "OK" /\ r.content_length = parser.content_length
      /\ "F_TRAILING" \in r.flags <=> "F_TRAILING" \in parser.flags
      /\ "F_CONTENTLENGTH" \in r.flags <=> "F_CONTENTLENGTH" \in parser.flags
  <2>1. CASE parser.header_state \in DOMAIN FinalFlags
    <3> DEFINE f == FinalFlags[parser.header_state]
    <3>1. f \in {"F_CONNECTION_KEEP_ALIVE", "F_CONNECTION_CLOSE", "F_CONNECTION_UPGRADE",
                 "F_CHUNKED"}
      BY <2>1, FinalFlagNames
    <3>2. f \in Flags /\ f \notin {"F_TRAILING", "F_CONTENTLENGTH"}
      BY <3>1, FlagNames
    <3>3. r = [parser EXCEPT !.flags = @ \cup {f}]
      BY <2>1 DEF WithFinalFlag
    <3> HIDE DEF f
    <3>4. /\ IsStruct(r) /\ r.errno = "OK" /\ r.content_length = parser.content_length
          /\ r.flags = parser.flags \cup {f}
      BY <1>1, <3>2, <3>3 DEF IsStruct
    <3> QED
      BY <3>2, <3>4
  <2>2. CASE parser.header_state \notin DOMAIN FinalFlags
    BY <1>1, <2>2 DEF WithFinalFlag
  <2> QED
    BY <2>1, <2>2
<1>3. /\ IsStruct(q) /\ q.errno = "OK" /\ q.state = "s_header_field_start" /\ q.flags = r.flags
      /\ q.content_length = r.content_length
  BY <1>2 DEF IsStruct, States
<1>4. Settled(q, "header_value") /\ q.state \notin MarkStates
  <2>1. "header_value" \in BeforeLine(q)
    BY DEF BeforeLine
  <2>2. "F_CONTENTLENGTH" \in q.flags => q.content_length # MaxLength
    BY <1>2, <1>3, LengthKept
  <2>3. q.state \in LineStartStates
    BY <1>3 DEF LineStartStates
  <2> QED
    BY <2>1, <2>2, <2>3, LineStartSettled
<1> QED
  BY <1>2, <1>3, <1>4

LEMMA HeaderValueLwsStep ==
  ASSUME IInv, HeaderValueLws PROVE Inv(parser', exec', log')
<1>1. exec.pc = "switch" /\ parser.state \in ValueEndStates
  BY DEF HeaderValueLws, At_, ValueEndStates
<1>2. IsStruct(parser) /\ parser.errno = "OK"
  BY <1>1, InSwitch
<1>3. LastOf(log) = "header_value" /\ parser.state \notin MarkStates
  BY <1>1, InValueEnd
<1>4. CASE ch \in {" ", TAB}
  <2> DEFINE t == To("s_header_value_start")
  <2>1. PICK s : /\ s \in {parser.header_state, "h_content_length_ws"}
                 /\ Again([t EXCEPT !.header_state = s], exec)
    <3>1. Again([t EXCEPT !.header_state = IF @ = "h_content_length_num"
                                            THEN "h_content_length_ws" ELSE @], exec)
      BY <1>4 DEF HeaderValueLws
    <3>2. t.header_state = parser.header_state
      BY <1>1, ToStruct DEF States
    <3> HIDE DEF t
    <3> QED
      BY <3>1, <3>2
  <2>2. s \in HeaderStates
    <3>1. parser.header_state \in HeaderStates
      BY <1>2 DEF IsStruct
    <3> QED
      BY <2>1, <3>1, ValueStatesKnown DEF HeaderStateNames
  <2> DEFINE q == [t EXCEPT !.header_state = s]
  <2>3. /\ IsStruct(t) /\ t.errno = "OK" /\ t.state = "s_header_value_start"
        /\ t.flags = parser.flags /\ t.content_length = parser.content_length
    BY <1>1, ToStruct DEF States
  <2> HIDE DEF t
  <2>4. /\ IsStruct(q) /\ q.errno = "OK" /\ q.state = "s_header_value_start"
        /\ q.flags = parser.flags /\ q.content_length = parser.content_length
    BY <2>2, <2>3 DEF IsStruct
  <2> HIDE DEF q
  <2>5. Settled(q, LastOf(log)) /\ q.state \notin MarkStates
    BY <1>1, <1>3, <2>4, LengthKept, ValueEndSettled DEF ValueEndStates
  <2> QED
    BY <1>1, <1>3, <2>1, <2>4, <2>5, PlainAgain DEF q
<1>5. CASE ch \notin {" ", TAB}
  <2> DEFINE q == [WithFinalFlag(parser) EXCEPT !.state = "s_header_field_start"]
  <2>1. Again(q, exec)
    BY <1>5 DEF HeaderValueLws
  <2>2. PICK r : r = WithFinalFlag(parser)
    OBVIOUS
  <2>3. q = [r EXCEPT !.state = "s_header_field_start"]
    BY <2>2
  <2> HIDE DEF q
  <2>4. /\ IsStruct(q) /\ q.errno = "OK" /\ Settled(q, "header_value")
        /\ q.state \notin MarkStates /\ q.state # "s_chunk_size_start"
    BY <1>1, <2>2, <2>3, FinalFlagStep
  <2> QED
    BY <1>1, <1>3, <2>1, <2>4, PlainAgain
<1> QED
  BY <1>4, <1>5

LEMMA HeaderValueDiscardLwsStep ==
  ASSUME IInv, HeaderValueDiscardLws PROVE Inv(parser', exec', log')
<1>1. exec.pc = "switch" /\ parser.state \in DiscardStates
  BY DEF HeaderValueDiscardLws, At_, DiscardStates
<1>2. /\ IsStruct(parser) /\ parser.errno = "OK" /\ stream \in Streams /\ log \in History
      /\ IsLocals(exec) /\ exec.p <= exec.end /\ exec.p \in 1..Len(stream) /\ Len(stream) \in Nat
  BY <1>1, InSwitch, StreamLength
<1>3. LastOf(log) = "header_field" /\ parser.state \notin MarkStates
  BY <1>1, InDiscard
<1> DEFINE t == To("s_header_value_discard_ws")
           q == [WithFinalFlag(parser) EXCEPT !.state = "s_header_field_start"]
           x == MARK(exec, "header_value")
<1>4. \/ Break(t, exec) \/ Fail(parser, exec, "INVALID_CONTENT_LENGTH")
      \/ CALLBACK_DATA(q, x, "header_value", exec.p - 1, exec.p, REEXECUTE)
  BY DEF HeaderValueDiscardLws
<1>5. CASE Break(t, exec)
  <2>1. /\ IsStruct(t) /\ t.errno = "OK" /\ t.state = "s_header_value_discard_ws"
        /\ t.flags = parser.flags /\ t.content_length = parser.content_length
    BY <1>1, ToStruct DEF States
  <2> HIDE DEF t
  <2>2. Settled(t, LastOf(log)) /\ t.state \notin MarkStates
    BY <1>1, <1>3, <2>1, LengthKept, DiscardSettled DEF DiscardStates
  <2> QED
    BY <1>1, <1>3, <1>5, <2>1, <2>2, PlainBreak
<1>6. CASE Fail(parser, exec, "INVALID_CONTENT_LENGTH")
  BY <1>1, <1>2, <1>6, PlainFail DEF Errors
<1>7. CASE CALLBACK_DATA(q, x, "header_value", exec.p - 1, exec.p, REEXECUTE)
  <2>1. /\ IsStruct(q) /\ q.errno = "OK" /\ Settled(q, "header_value")
        /\ q.state \notin MarkStates /\ q.state # "s_chunk_size_start"
    <3>1. PICK r : r = WithFinalFlag(parser)
      OBVIOUS
    <3>2. q = [r EXCEPT !.state = "s_header_field_start"]
      BY <3>1
    <3> HIDE DEF q
    <3> QED
      BY <1>1, <3>1, <3>2, FinalFlagStep
  <2>2. "header_value" \in DataKinds
    BY DEF DataKinds
  <2>3. /\ IsLocals(x) /\ x.p = exec.p /\ x.end = exec.end /\ x.marks["header_value"] # 0
        /\ \A m \in DataKinds \ {"header_value"} : x.marks[m] = 0
    <3>1. x = MARK(exec, "header_value") /\ exec.p <= Len(stream)
      BY <1>2
    <3> HIDE DEF x
    <3> QED
      BY <1>1, <1>2, <1>3, <2>2, <3>1, NothingMarked, MarkSets
  <2> HIDE DEF q, x
  <2> DEFINE y == Unmark(x, "header_value")
  <2>4. /\ log' = Record("header_value", x.marks["header_value"], exec.p - 1)
        /\ REEXECUTE(q, y) \/ Stopped(q, x, "header_value", exec.p)
    BY <1>7, <2>3 DEF CALLBACK_DATA, Stopped, Unmark
  <2>5. exec.p - 1 \in Nat /\ exec.p \in 1..Len(stream) + 1
    BY <1>2
  <2> QED
    BY <1>2, <2>1, <2>2, <2>3, <2>4, <2>5, DataStep
<1> QED
  BY <1>4, <1>5, <1>6, <1>7

-----------------------------------------------------------------------------
(* The end of the headers. *)

LEMMA HeadersCompleteStep ==
  ASSUME IInv, exec.pc = "switch", parser.state \in LineStartStates,
         NEW q, IsStruct(q), q.errno = "OK", q.state = "s_headers_done",
         "F_TRAILING" \notin q.flags, "F_CONTENTLENGTH" \in q.flags => q.content_length # MaxLength,
         HeadersComplete(q)
  PROVE  Inv(parser', exec', log')
<1>1. /\ stream \in Streams /\ log \in History /\ IsLocals(exec) /\ Len(stream) \in Nat
      /\ exec.p <= exec.end /\ exec.p \in 1..Len(stream)
      /\ \A m \in DataKinds : exec.marks[m] = 0
  BY InSwitch, StreamLength, InLineStart, NothingMarked
<1> DEFINE skip == [q EXCEPT !.flags = @ \cup {"F_SKIPBODY"}]
           upgrade == [q EXCEPT !.flags = @ \cup {"F_SKIPBODY"}, !.upgrade = TRUE]
           paused == [q EXCEPT !.errno = "PAUSED"]
           failed == [q EXCEPT !.errno = "CB_headers_complete"]
<1>2. /\ log' = Record("headers_complete", exec.p, exec.p)
      /\ \/ \E r \in {q, skip, upgrade} : REEXECUTE(r, exec)
         \/ \E r \in {paused, failed} : RETURN(r, exec, exec.p)
  BY DEF HeadersComplete
<1>3. log' \in History /\ LastOf(log') = "headers_complete"
  BY <1>1, <1>2, RecordStep DEF CallbackNames, CallbackErrors
<1>4. ASSUME NEW r, IsStruct(r), r.state = "s_headers_done", "F_TRAILING" \notin r.flags,
             "F_CONTENTLENGTH" \in r.flags => r.content_length # MaxLength
      PROVE  Settled(r, "headers_complete") /\ r.state \notin MarkStates
  BY <1>4 DEF Settled, Measured, Words, Order, NoTrailers, StartStates,
     BeginStates, UrlStates, UrlEndStates, LineStartStates, DiscardStates, ValueEndStates,
     SizeStates, MarkStates, BodyMarkStates, TextMarkStates
<1>5. /\ IsStruct(skip) /\ skip.errno = "OK" /\ skip.state = q.state
      /\ skip.flags = q.flags \cup {"F_SKIPBODY"} /\ skip.content_length = q.content_length
      /\ IsStruct(upgrade) /\ upgrade.errno = "OK" /\ upgrade.state = q.state
      /\ upgrade.flags = q.flags \cup {"F_SKIPBODY"}
      /\ upgrade.content_length = q.content_length
  BY FlagNames DEF IsStruct
<1>6. /\ IsStruct(paused) /\ paused.state = q.state /\ paused.flags = q.flags
      /\ paused.content_length = q.content_length
      /\ IsStruct(failed) /\ failed.state = q.state /\ failed.flags = q.flags
      /\ failed.content_length = q.content_length
  BY DEF IsStruct, Errors, Range, CallbackErrors
<1> HIDE DEF skip, upgrade, paused, failed
<1>7. CASE \E r \in {q, skip, upgrade} : REEXECUTE(r, exec)
  <2>1. PICK r \in {q, skip, upgrade} : REEXECUTE(r, exec)
    BY <1>7
  <2>2. /\ IsStruct(r) /\ r.errno = "OK" /\ r.state = "s_headers_done"
        /\ "F_TRAILING" \notin r.flags
        /\ "F_CONTENTLENGTH" \in r.flags => r.content_length # MaxLength
    BY <1>5, <2>1
  <2>3. Settled(r, "headers_complete") /\ r.state \notin MarkStates
    BY <1>4, <2>2
  <2> QED
    BY <1>1, <1>3, <2>1, <2>2, <2>3, PlainReexecute
<1>8. CASE \E r \in {paused, failed} : RETURN(r, exec, exec.p)
  <2>1. PICK r \in {paused, failed} : RETURN(r, exec, exec.p)
    BY <1>8
  <2>2. /\ IsStruct(r) /\ r.state = "s_headers_done" /\ "F_TRAILING" \notin r.flags
        /\ "F_CONTENTLENGTH" \in r.flags => r.content_length # MaxLength
    BY <1>6, <2>1
  <2>3. Sound(r, exec, "headers_complete")
    BY <1>1, <1>4, <2>2, UnmarkedSound
  <2>4. exec.p \in 1..Len(stream) + 1
    BY <1>1
  <2> QED
    BY <1>1, <1>3, <2>1, <2>2, <2>3, <2>4, ReturnStep
<1> QED
  BY <1>2, <1>7, <1>8

LEMMA HeadersAlmostDoneStep ==
  ASSUME IInv, HeadersAlmostDone PROVE Inv(parser', exec', log')
<1>1. exec.pc = "switch" /\ parser.state \in LineStartStates
  BY DEF HeadersAlmostDone, At_, LineStartStates
<1>2. IsStruct(parser) /\ parser.errno = "OK"
  BY <1>1, InSwitch
<1> DEFINE q == To("s_message_done")
           t == To("s_headers_done")
           upgrades == Upgrades(parser)
           r == [t EXCEPT !.upgrade = upgrades]
<1>3. \/ Fail(parser, exec, "STRICT") \/ Fail(parser, exec, "UNEXPECTED_CONTENT_LENGTH")
      \/ /\ "F_TRAILING" \in parser.flags
         /\ CALLBACK_NOTIFY(q, exec, "chunk_complete", exec.p, REEXECUTE)
      \/ "F_TRAILING" \notin parser.flags /\ HeadersComplete(r)
  BY DEF HeadersAlmostDone, Has
<1>4. /\ IsStruct(q) /\ q.errno = "OK" /\ q.state = "s_message_done"
      /\ q.flags = parser.flags /\ q.content_length = parser.content_length
      /\ IsStruct(t) /\ t.errno = "OK" /\ t.state = "s_headers_done"
      /\ t.flags = parser.flags /\ t.content_length = parser.content_length
  BY <1>1, ToStruct DEF States, BodyStates
<1> HIDE DEF q, t
<1>5. CASE Fail(parser, exec, "STRICT") \/ Fail(parser, exec, "UNEXPECTED_CONTENT_LENGTH")
  BY <1>1, <1>2, <1>5, PlainFail DEF Errors
<1>6. CASE /\ "F_TRAILING" \in parser.flags
           /\ CALLBACK_NOTIFY(q, exec, "chunk_complete", exec.p, REEXECUTE)
  <2>1. /\ log' = Record("chunk_complete", exec.p, exec.p)
        /\ REEXECUTE(q, exec) \/ Stopped(q, exec, "chunk_complete", exec.p)
    BY <1>6 DEF CALLBACK_NOTIFY, Stopped
  <2>2. Settled(q, "chunk_complete") /\ q.state \notin MarkStates
    BY <1>1, <1>4, <1>6, LengthKept DEF Settled, Measured, Words, Order, NoTrailers, StartStates,
     BeginStates, UrlStates, UrlEndStates, LineStartStates, DiscardStates, ValueEndStates,
     SizeStates, MarkStates, BodyMarkStates, TextMarkStates
  <2>3. /\ "chunk_complete" \in CallbackNames /\ exec.p \in 1..Len(stream) + 1
        /\ q.state # "s_chunk_size_start"
    BY <1>1, <1>4, InSwitch, StreamLength DEF CallbackNames, CallbackErrors
  <2> QED
    BY <1>1, <1>4, <2>1, <2>2, <2>3, InSwitch, InLineStart, NothingMarked, PlainNotify
<1>7. CASE "F_TRAILING" \notin parser.flags /\ HeadersComplete(r)
  <2>1. upgrades \in BOOLEAN
    BY DEF Upgrades
  <2> HIDE DEF upgrades
  <2>2. /\ IsStruct(r) /\ r.errno = "OK" /\ r.state = "s_headers_done"
        /\ r.flags = parser.flags /\ r.content_length = parser.content_length
    BY <1>4, <2>1 DEF IsStruct
  <2> HIDE DEF r
  <2> QED
    BY <1>1, <1>7, <2>2, LengthKept, HeadersCompleteStep
<1> QED
  BY <1>3, <1>5, <1>6, <1>7

\* The state before a message.
LEMMA NewMessageState ==
  ASSUME NEW q, NEW s, s = NEW_MESSAGE(q) PROVE s \in StartStates
BY DEF NEW_MESSAGE, start_state, StartStates

\* The message is over.
LEMMA MessageOver ==
  ASSUME IInv, exec.pc = "switch", parser.state \notin MarkStates,
         NEW q, IsStruct(q), q.errno = "OK", q.state \in StartStates,
         "F_CONTENTLENGTH" \in q.flags => q.content_length # MaxLength,
         NEW x, IsLocals(x), x.p = exec.p, x.end = exec.end, x.marks = exec.marks,
         \/ CALLBACK_NOTIFY(q, x, "message_complete", x.p + 1, Leave)
         \/ CALLBACK_NOTIFY(q, x, "message_complete", x.p + 1, Advance)
  PROVE  Inv(parser', exec', log')
<1>1. /\ log' = Record("message_complete", x.p, x.p)
      /\ Leave(q, x) \/ Advance(q, x) \/ Stopped(q, x, "message_complete", x.p + 1)
  BY DEF CALLBACK_NOTIFY, Stopped
<1>2. Settled(q, "message_complete") /\ q.state \notin MarkStates
  BY StartSettled
<1>3. /\ "message_complete" \in CallbackNames /\ x.p + 1 \in 1..Len(stream) + 1
      /\ q.state # "s_chunk_size_start"
  BY InSwitch, StreamLength DEF CallbackNames, CallbackErrors, StartStates
<1> QED
  BY <1>1, <1>2, <1>3, NothingMarked, PlainNotify

LEMMA HeadersDoneStep ==
  ASSUME IInv, HeadersDone PROVE Inv(parser', exec', log')
<1>1. exec.pc = "switch" /\ parser.state = "s_headers_done"
  BY DEF HeadersDone, At_
<1>2. /\ IsStruct(parser) /\ parser.errno = "OK" /\ stream \in Streams /\ log \in History
      /\ IsLocals(exec) /\ exec.p <= exec.end
  BY <1>1, InSwitch
<1>3. /\ LastOf(log) = "headers_complete" /\ "F_TRAILING" \notin parser.flags
      /\ parser.state \notin MarkStates
  BY <1>1, InSwitch DEF Settled, Order, NoTrailers, MarkStates, BodyMarkStates, TextMarkStates,
                        UrlStates
<1> DEFINE q == [parser EXCEPT !.nread = 0]
           x == [exec EXCEPT !.nread = 0]
           s == NEW_MESSAGE(q)
           over == [q EXCEPT !.state = s]
           sized == [q EXCEPT !.state = "s_chunk_size_start"]
           toEof == [q EXCEPT !.state = "s_body_identity_eof"]
           counted == [q EXCEPT !.state = "s_body_identity"]
<1>4. \/ Fail(parser, exec, "STRICT") \/ Fail(q, x, "INVALID_TRANSFER_ENCODING")
      \/ CALLBACK_NOTIFY(over, x, "message_complete", x.p + 1, Leave)
      \/ CALLBACK_NOTIFY(over, x, "message_complete", x.p + 1, Advance)
      \/ "F_CHUNKED" \in q.flags /\ Break(sized, x)
      \/ Break(toEof, x)
      \/ q.content_length \notin {0, MaxLength} /\ Break(counted, x)
  BY DEF HeadersDone, Leave, Has
<1>5. /\ IsStruct(q) /\ q.errno = "OK" /\ q.flags = parser.flags
      /\ q.content_length = parser.content_length
  BY <1>2 DEF IsStruct
<1>6. IsLocals(x) /\ x.p = exec.p /\ x.end = exec.end /\ x.marks = exec.marks /\ x.nread = 0
  BY <1>2 DEF IsLocals
<1>7. \A m \in DataKinds : x.marks[m] = 0
  BY <1>1, <1>3, <1>6, NothingMarked
<1>8. s \in StartStates
  BY NewMessageState
<1> HIDE DEF q, x, s
<1>9. /\ IsStruct(over) /\ over.errno = "OK" /\ over.state = s /\ over.flags = q.flags
      /\ over.content_length = q.content_length
      /\ IsStruct(sized) /\ sized.errno = "OK" /\ sized.state = "s_chunk_size_start"
      /\ sized.flags = q.flags /\ sized.content_length = q.content_length
      /\ IsStruct(toEof) /\ toEof.errno = "OK" /\ toEof.state = "s_body_identity_eof"
      /\ toEof.flags = q.flags /\ toEof.content_length = q.content_length
      /\ IsStruct(counted) /\ counted.errno = "OK" /\ counted.state = "s_body_identity"
      /\ counted.flags = q.flags /\ counted.content_length = q.content_length
  <2>1. s \in States
    BY <1>8, GroupsAreStates
  <2> QED
    BY <1>5, <2>1 DEF IsStruct, States, BodyStates
<1> HIDE DEF over, sized, toEof, counted
<1>10. CASE Fail(parser, exec, "STRICT") \/ Fail(q, x, "INVALID_TRANSFER_ENCODING")
  BY <1>2, <1>5, <1>6, <1>10, FailStep DEF Errors
<1>11. CASE \/ CALLBACK_NOTIFY(over, x, "message_complete", x.p + 1, Leave)
            \/ CALLBACK_NOTIFY(over, x, "message_complete", x.p + 1, Advance)
  BY <1>1, <1>3, <1>5, <1>6, <1>8, <1>9, <1>11, LengthKept, MessageOver
<1>12. CASE "F_CHUNKED" \in q.flags /\ Break(sized, x)
  <2>1. Settled(sized, LastOf(log)) /\ sized.state \notin MarkStates
    BY <1>1, <1>3, <1>5, <1>9, <1>12, LengthKept, SizeSettled DEF SizeStates
  <2> QED
    BY <1>2, <1>6, <1>7, <1>9, <1>12, <2>1, PlainAdvance DEF Break
<1>13. ASSUME NEW r, IsStruct(r), r.errno = "OK", r.flags = q.flags,
              r.content_length = q.content_length,
              r.state \in {"s_body_identity", "s_body_identity_eof"},
              r.state = "s_body_identity" => q.content_length \notin {0, MaxLength},
              Break(r, x)
       PROVE  Inv(parser', exec', log')
  <2>1. Settled(r, LastOf(log))
    BY <1>1, <1>3, <1>5, <1>13, LengthKept DEF Settled, Measured, Words, Order, NoTrailers,
       StartStates, BeginStates, UrlStates, UrlEndStates, LineStartStates, DiscardStates,
       ValueEndStates, SizeStates
  <2> DEFINE y == [x EXCEPT !.pc = "fetch", !.p = @ + 1]
  <2>2. y.marks = x.marks
    BY <1>6 DEF IsLocals
  <2> HIDE DEF y
  <2>3. Sound(r, y, LastOf(log))
    BY <1>7, <1>13, <2>1, <2>2 DEF Sound, ChunkCounts, Marking, TextMarkStates, UrlStates
  <2> QED
    BY <1>2, <1>6, <1>13, <2>3, BreakStep DEF y
<1>14. CASE Break(toEof, x)
  BY <1>9, <1>13, <1>14
<1>15. CASE q.content_length \notin {0, MaxLength} /\ Break(counted, x)
  BY <1>9, <1>13, <1>15
<1> QED
  BY <1>4, <1>10, <1>11, <1>12, <1>14, <1>15
=============================================================================
