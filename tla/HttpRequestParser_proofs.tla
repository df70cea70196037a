---------------------- MODULE HttpRequestParser_proofs ----------------------
(***************************************************************************)
(* What HttpRequestParser and HttpRequestBuilder make of the method, of    *)
(* the headers, of the URL and of the arguments in it, for any requests    *)
(* and routes, however reads cut them.  The dispatcher's lookup is a       *)
(* parameter: of what it finds only this counts, that the empty path has   *)
(* no route and that a route that is found matches the path.               *)
(***************************************************************************)
EXTENDS HttpRequestParser, TLAPS, SequenceTheorems, FiniteSetTheorems, WellFoundedInduction

\* The message that began last.
Current == IF fed.item = 0 THEN fed.msg - 1 ELSE fed.msg

\* The values delivered to their end when item i of message m is next.
SeenBefore(m, i) ==
  {p \in Places(Len(requests)) : p[1] < m \/ (p[1] = m /\ 2 * p[2] + 1 < i)}
Seen == SeenBefore(fed.msg, fed.item)

\* Where the callbacks stand.
FedInv ==
  /\ requests \in Seq(Request)
  /\ fed \in [msg : 1..Len(requests) + 1, item : Nat, from : Nat]
  /\ fed.msg = Len(requests) + 1 => fed.item = 0
  /\ fed.item = 0 => fed.from = 0
  /\ fed.from > 0 => fed.item <= Len(Data)
  /\ mParseState = "HEADERS_COMPLETE" <=> fed.item > 0 /\ fed.item > Len(Data) + 1
  /\ mParseState = "COMPLETE" => fed.item = 0 /\ fed.msg > 1
  /\ mParseState = "INITED" => fed.item = 0
  /\ \A c \in cut : c[1] \in 1..Current
  /\ IsFiniteSet(Seen)

BuilderFields == {"path", "http_version", "method", "query", "headers", "body_reader"}

MethodInv ==
  /\ builder.method \in {None, "GET", "POST"}
  /\ Current > 0 /\ Guess(requests[Current].method) \in {"GET", "POST"} =>
       builder.method = Guess(requests[Current].method)

\* The headers that came whole are in the builder, as long as nothing was built.
HeaderInv ==
  /\ \A n \in DOMAIN builder.headers : builder.headers[n] \in Seq(Text)
  /\ built = NotBuilt /\ (\A c \in cut : c[2] = 1) /\ (fed.from = 0 \/ fed.item = 1) =>
       /\ AsSent(builder.headers, Seen)
       /\ fed.item > 1 /\ fed.item <= Len(Data) /\ fed.item % 2 = 1 =>
            mCurrentHeaderField = Asked.headers[fed.item \div 2].name

ReaderInv ==
  /\ outcome = "running" /\ mParseState \in {"HEADERS_COMPLETE", "COMPLETE"} /\ built = NotBuilt
     /\ hasContentLength(builder.headers) =>
       builder.body_reader = Reader(getContentLength(builder.headers))
  /\ built # NotBuilt => builder.body_reader # NoReader

IInv ==
  /\ FedInv /\ DOMAIN builder = BuilderFields /\ MethodInv /\ HeaderInv /\ ReaderInv
  /\ MethodAsAsked /\ HeadersAsSent

-----------------------------------------------------------------------------
(* The data of a request. *)

LEMMA RequestShape ==
  ASSUME NEW r \in Request
  PROVE  /\ r.headers \in Seq([name : Text, value : Text]) /\ Len(r.headers) \in Nat
         /\ DOMAIN r.headers = 1..Len(r.headers)
         /\ \A h \in DOMAIN r.headers : r.headers[h].name \in Text /\ r.headers[h].value \in Text
<1> DEFINE H == [name : Text, value : Text]
<1>1. r.headers \in Seq(H)
  BY DEF Request
<1>2. \A e \in H : e.name \in Text /\ e.value \in Text
  OBVIOUS
<1> HIDE DEF H
<1>3. Len(r.headers) \in Nat /\ DOMAIN r.headers = 1..Len(r.headers)
      /\ \A h \in DOMAIN r.headers : r.headers[h] \in H
  BY <1>1
<1> QED
  BY <1>1, <1>2, <1>3 DEF H

LEMMA Halves ==
  ASSUME NEW h \in Nat
  PROVE  /\ (2 * h) % 2 = 0 /\ (2 * h) \div 2 = h
         /\ (2 * h + 1) % 2 = 1 /\ (2 * h + 1) \div 2 = h
<1>1. (2 * h) % 2 = 0
  OBVIOUS
<1>2. (2 * h) \div 2 = h
  OBVIOUS
<1>3. (2 * h + 1) % 2 = 1
  OBVIOUS
<1>4. (2 * h + 1) \div 2 = h
  OBVIOUS
<1> QED
  BY <1>1, <1>2, <1>3, <1>4

LEMMA ItemsShape ==
  ASSUME NEW r \in Request
  PROVE  /\ DOMAIN Items(r) = 1..2 * Len(r.headers) + 1
         /\ Len(Items(r)) = 2 * Len(r.headers) + 1
         /\ \A h \in DOMAIN r.headers : /\ Items(r)[2 * h] = r.headers[h].name
                                       /\ Items(r)[2 * h + 1] = r.headers[h].value
<1> DEFINE n == 2 * Len(r.headers) + 1
           I == Items(r)
           S == {I[i] : i \in 1..n}
<1>1. n \in Nat /\ Len(r.headers) \in Nat /\ DOMAIN r.headers = 1..Len(r.headers)
  BY RequestShape
<1>2. I = [item \in 1..n |-> I[item]] /\ DOMAIN I = 1..n
  BY DEF Items
<1>3. I \in [1..n -> S]
  BY <1>2
<1>4. Len(I) = n
  BY <1>1, <1>3
<1>5. ASSUME NEW h \in DOMAIN r.headers
      PROVE  I[2 * h] = r.headers[h].name /\ I[2 * h + 1] = r.headers[h].value
  <2>1. h \in Nat /\ h >= 1 /\ 2 * h \in 1..n /\ 2 * h + 1 \in 1..n
    BY <1>1
  <2>2. I[2 * h] = r.headers[h].name
    <3> DEFINE k == 2 * h
    <3>1. k \in 1..n /\ k # 1 /\ k > 1 /\ k % 2 = 0 /\ k \div 2 = h
      BY <2>1, Halves
    <3> HIDE DEF k
    <3> QED
      BY <3>1 DEF Items, k
  <2>3. I[2 * h + 1] = r.headers[h].value
    <3> DEFINE k == 2 * h + 1
    <3>1. k \in 1..n /\ k # 1 /\ k % 2 = 1 /\ k \div 2 = h
      BY <2>1, Halves
    <3> HIDE DEF k
    <3> QED
      BY <3>1 DEF Items, k
  <2> QED
    BY <2>2, <2>3
<1> QED
  BY <1>2, <1>4, <1>5

\* Every item behind the URL is a name or a value.
LEMMA ItemKinds ==
  ASSUME NEW r \in Request, NEW item \in DOMAIN Items(r), item > 1
  PROVE  \E h \in DOMAIN r.headers : /\ item \in {2 * h, 2 * h + 1} /\ item \div 2 = h
                                     /\ item % 2 = 0 <=> item = 2 * h
<1>1. item \in 1..2 * Len(r.headers) + 1 /\ Len(r.headers) \in Nat
      /\ DOMAIN r.headers = 1..Len(r.headers)
  BY ItemsShape, RequestShape
<1> DEFINE h == item \div 2
<1>2. h \in 1..Len(r.headers) /\ item \in {2 * h, 2 * h + 1}
      /\ item % 2 = 0 <=> item = 2 * h
  BY <1>1
<1> QED
  BY <1>1, <1>2

LEMMA PlaceShape ==
  ASSUME requests \in Seq(Request), NEW m \in 0..Len(requests), NEW p
  PROVE  p \in Places(m) <=> /\ p = <<p[1], p[2]>> /\ p[1] \in 1..m
                             /\ p[2] \in DOMAIN requests[p[1]].headers
BY DEF Places

LEMMA InAsked ==
  ASSUME FedInv, fed.msg \in DOMAIN requests
  PROVE  /\ fed.msg \in 1..Len(requests) /\ Len(requests) \in Nat /\ Asked \in Request
         /\ Len(Asked.headers) \in Nat /\ DOMAIN Asked.headers = 1..Len(Asked.headers)
         /\ DOMAIN Data = 1..2 * Len(Asked.headers) + 1
         /\ Len(Data) = 2 * Len(Asked.headers) + 1
<1>1. fed.msg \in 1..Len(requests) /\ Len(requests) \in Nat /\ Asked \in Request
  BY DEF FedInv, Asked
<1> QED
  BY <1>1, RequestShape, ItemsShape DEF Data

LEMMA FedFields ==
  ASSUME FedInv
  PROVE  /\ fed.msg \in 1..Len(requests) + 1 /\ fed.item \in Nat /\ fed.from \in Nat
         /\ DOMAIN fed = {"msg", "item", "from"} /\ Len(requests) \in Nat
         /\ DOMAIN requests = 1..Len(requests)
BY DEF FedInv

-----------------------------------------------------------------------------
(* The places of headers. *)

LEMMA SeenShape ==
  ASSUME FedInv, NEW m, NEW i, NEW p
  PROVE  p \in SeenBefore(m, i) <=>
           /\ p = <<p[1], p[2]>> /\ p[1] \in DOMAIN requests
           /\ p[2] \in DOMAIN requests[p[1]].headers
           /\ p[1] < m \/ (p[1] = m /\ 2 * p[2] + 1 < i)
<1>1. Len(requests) \in 0..Len(requests) /\ requests \in Seq(Request)
      /\ DOMAIN requests = 1..Len(requests)
  BY FedFields DEF FedInv
<1> QED
  BY <1>1, PlaceShape DEF SeenBefore

LEMMA HeaderNumbers ==
  ASSUME FedInv, NEW m \in DOMAIN requests
  PROVE  requests[m] \in Request /\ DOMAIN requests[m].headers = 1..Len(requests[m].headers)
         /\ Len(requests[m].headers) \in Nat
BY RequestShape DEF FedInv

\* With a place come those before it.
LEMMA SeenClosed ==
  ASSUME FedInv, NEW p \in Seen
  PROVE  p \in UpTo(p) /\ UpTo(p) \subseteq Seen
<1>1. /\ p = <<p[1], p[2]>> /\ p[1] \in DOMAIN requests /\ p[2] \in DOMAIN requests[p[1]].headers
      /\ p[1] < fed.msg \/ (p[1] = fed.msg /\ 2 * p[2] + 1 < fed.item)
  BY SeenShape DEF Seen
<1>2. /\ p[1] \in 0..Len(requests) /\ p[1] \in 1..p[1] /\ p[2] \in Nat /\ requests \in Seq(Request)
      /\ fed.msg \in Nat /\ fed.item \in Nat
  BY <1>1, HeaderNumbers, FedFields DEF FedInv
<1>3. p \in UpTo(p)
  BY <1>1, <1>2, PlaceShape DEF UpTo
<1>4. ASSUME NEW q \in UpTo(p) PROVE q \in Seen
  <2>1. /\ q = <<q[1], q[2]>> /\ q[1] \in 1..p[1] /\ q[2] \in DOMAIN requests[q[1]].headers
        /\ q[1] < p[1] \/ q[2] <= p[2]
    BY <1>2, PlaceShape DEF UpTo
  <2>2. q[1] \in DOMAIN requests /\ q[2] \in Nat
    BY <1>1, <2>1, FedFields, HeaderNumbers
  <2>3. q[1] < fed.msg \/ (q[1] = fed.msg /\ 2 * q[2] + 1 < fed.item)
    BY <1>1, <1>2, <2>1, <2>2
  <2> QED
    BY <2>1, <2>2, <2>3, SeenShape DEF Seen
<1> QED
  BY <1>3, <1>4

\* A value that is delivered to its end is one more place.
LEMMA SeenNext ==
  ASSUME FedInv, fed.msg \in DOMAIN requests, NEW h \in DOMAIN Asked.headers,
         fed.item = 2 * h + 1
  PROVE  /\ <<fed.msg, h>> \notin Seen
         /\ UpTo(<<fed.msg, h>>) = Seen \cup {<<fed.msg, h>>}
         /\ SeenBefore(fed.msg, fed.item + 1) = Seen \cup {<<fed.msg, h>>}
<1> DEFINE p == <<fed.msg, h>>
<1>1. /\ fed.msg \in 1..Len(requests) /\ Len(requests) \in Nat /\ h \in Nat
      /\ fed.msg \in 0..Len(requests) /\ requests \in Seq(Request) /\ Asked = requests[fed.msg]
  BY InAsked DEF FedInv, Asked
<1>2. p \notin Seen
  BY <1>1, SeenShape DEF Seen
<1>3. ASSUME NEW q PROVE q \in UpTo(p) <=> q \in Seen \cup {p}
  <2>1. q \in UpTo(p) <=> /\ q = <<q[1], q[2]>> /\ q[1] \in 1..fed.msg
                          /\ q[2] \in DOMAIN requests[q[1]].headers
                          /\ q[1] < fed.msg \/ q[2] <= h
    BY <1>1, PlaceShape DEF UpTo
  <2>2. q \in Seen <=> /\ q = <<q[1], q[2]>> /\ q[1] \in DOMAIN requests
                       /\ q[2] \in DOMAIN requests[q[1]].headers
                       /\ q[1] < fed.msg \/ (q[1] = fed.msg /\ 2 * q[2] + 1 < fed.item)
    BY SeenShape DEF Seen
  <2>3. q[1] \in DOMAIN requests /\ q[2] \in DOMAIN requests[q[1]].headers
        => q[2] \in Nat /\ q[1] \in 1..Len(requests)
    <3>1. q[1] \in DOMAIN requests =>
            DOMAIN requests[q[1]].headers = 1..Len(requests[q[1]].headers)
      BY HeaderNumbers
    <3>2. DOMAIN requests = 1..Len(requests)
      BY FedFields
    <3> QED
      BY <3>1, <3>2
  <2>4. q = p => q = <<q[1], q[2]>> /\ q[1] = fed.msg /\ q[2] = h
    OBVIOUS
  <2>5. q[1] \in 1..fed.msg => q[1] \in DOMAIN requests
    BY <1>1, FedFields
  <2>6. CASE q[1] = fed.msg
    BY <1>1, <2>1, <2>2, <2>3, <2>4, <2>5, <2>6
  <2>7. CASE q[1] # fed.msg
    BY <1>1, <2>1, <2>2, <2>3, <2>4, <2>5, <2>7
  <2> QED
    BY <2>6, <2>7
<1>4. ASSUME NEW q PROVE q \in SeenBefore(fed.msg, fed.item + 1) <=> q \in Seen \cup {p}
  <2>1. \A i : q \in SeenBefore(fed.msg, i) <=>
          /\ q = <<q[1], q[2]>> /\ q[1] \in DOMAIN requests
          /\ q[2] \in DOMAIN requests[q[1]].headers
          /\ q[1] < fed.msg \/ (q[1] = fed.msg /\ 2 * q[2] + 1 < i)
    BY SeenShape
  <2>2. q[1] \in DOMAIN requests /\ q[2] \in DOMAIN requests[q[1]].headers => q[2] \in Nat
    BY HeaderNumbers
  <2>3. q = p => q = <<q[1], q[2]>> /\ q[1] = fed.msg /\ q[2] = h
    OBVIOUS
  <2>4. p[1] = fed.msg /\ p[2] = h /\ fed.msg \in DOMAIN requests
        /\ h \in DOMAIN requests[fed.msg].headers
    BY <1>1
  <2> QED
    BY <1>1, <2>1, <2>2, <2>3, <2>4 DEF Seen
<1> QED
  BY <1>2, <1>3, <1>4

\* Nothing else that is delivered is.
LEMMA SeenStays ==
  ASSUME FedInv, fed.msg \in DOMAIN requests,
         ~(\E h \in DOMAIN Asked.headers : fed.item = 2 * h + 1)
  PROVE  SeenBefore(fed.msg, fed.item + 1) = Seen
<1>1. ASSUME NEW q PROVE q \in SeenBefore(fed.msg, fed.item + 1) <=> q \in Seen
  <2>1. \A i : q \in SeenBefore(fed.msg, i) <=>
          /\ q = <<q[1], q[2]>> /\ q[1] \in DOMAIN requests
          /\ q[2] \in DOMAIN requests[q[1]].headers
          /\ q[1] < fed.msg \/ (q[1] = fed.msg /\ 2 * q[2] + 1 < i)
    BY SeenShape
  <2>2. q[1] \in DOMAIN requests /\ q[2] \in DOMAIN requests[q[1]].headers => q[2] \in Nat
    BY HeaderNumbers
  <2>3. fed.item \in Nat /\ Asked = requests[fed.msg]
    BY FedFields DEF Asked
  <2> QED
    BY <2>1, <2>2, <2>3 DEF Seen
<1> QED
  BY <1>1

\* Behind the values of a message all its headers are there.
LEMMA SeenAll ==
  ASSUME FedInv, NEW m \in 0..Len(requests), NEW i \in Nat, NEW k \in 1..Len(requests) + 1,
         \/ k = m + 1 /\ i = 0
         \/ k = m /\ i > 2 * Len(requests[m].headers) + 1
  PROVE  SeenBefore(k, i) = Places(m)
<1>1. ASSUME NEW q PROVE q \in SeenBefore(k, i) <=> q \in Places(m)
  <2>1. q \in SeenBefore(k, i) <=>
          /\ q = <<q[1], q[2]>> /\ q[1] \in DOMAIN requests
          /\ q[2] \in DOMAIN requests[q[1]].headers
          /\ q[1] < k \/ (q[1] = k /\ 2 * q[2] + 1 < i)
    BY SeenShape
  <2>2. q \in Places(m) <=> /\ q = <<q[1], q[2]>> /\ q[1] \in 1..m
                            /\ q[2] \in DOMAIN requests[q[1]].headers
    BY PlaceShape DEF FedInv
  <2>3. q[1] \in DOMAIN requests /\ q[2] \in DOMAIN requests[q[1]].headers =>
          /\ q[1] \in 1..Len(requests) /\ q[2] \in 1..Len(requests[q[1]].headers)
          /\ Len(requests[q[1]].headers) \in Nat
    BY HeaderNumbers, FedFields
  <2>4. q[1] \in 1..m => q[1] \in DOMAIN requests
    BY FedFields
  <2>5. m \in Nat /\ Len(requests) \in Nat
    BY FedFields
  <2>6. CASE k = m + 1 /\ i = 0
    <3>1. q[1] \in DOMAIN requests /\ q[2] \in DOMAIN requests[q[1]].headers =>
            (q[1] < k \/ (q[1] = k /\ 2 * q[2] + 1 < i) <=> q[1] <= m)
      BY <2>3, <2>5, <2>6
    <3> QED
      BY <2>1, <2>2, <2>3, <2>4, <2>5, <3>1
  <2>7. CASE k = m /\ i > 2 * Len(requests[m].headers) + 1
    <3>1. q[1] \in DOMAIN requests /\ q[2] \in DOMAIN requests[q[1]].headers =>
            (q[1] < k \/ (q[1] = k /\ 2 * q[2] + 1 < i) <=> q[1] <= m)
      BY <2>3, <2>5, <2>7
    <3> QED
      BY <2>1, <2>2, <2>3, <2>4, <2>5, <3>1
  <2> QED
    BY <2>6, <2>7
<1> QED
  BY <1>1

-----------------------------------------------------------------------------
(* The headers that were added. *)

\* One more value is the last of its name, and the others stay.
LEMMA AddSent ==
  ASSUME NEW headers, \A n \in DOMAIN headers : headers[n] \in Seq(Text),
         NEW P, IsFiniteSet(P), NEW new, new \notin P, UpTo(new) = P \cup {new},
         \A p \in P : p \in UpTo(p) /\ UpTo(p) \subseteq P,
         Value(new) \in Text, AsSent(headers, P)
  PROVE  AsSent(add(headers, Name(new), Value(new)), P \cup {new})
<1> DEFINE Q == P \cup {new}
           Named(S, n) == {p \in S : Name(p) = n}
           after == add(headers, Name(new), Value(new))
<1>1. \A n : IsFiniteSet(Named(P, n)) /\ Cardinality(Named(P, n)) \in Nat
  <2>1. \A n : Named(P, n) \subseteq P
    OBVIOUS
  <2> QED
    BY <2>1, FS_Subset, FS_CardinalityType
<1>2. /\ Cardinality(Named(Q, Name(new))) = Cardinality(Named(P, Name(new))) + 1
      /\ Rank(new) = Cardinality(Named(P, Name(new))) + 1
  <2>1. Named(Q, Name(new)) = Named(P, Name(new)) \cup {new} /\ new \notin Named(P, Name(new))
    OBVIOUS
  <2>2. Cardinality(Named(Q, Name(new))) = Cardinality(Named(P, Name(new))) + 1
    <3> DEFINE S == Named(P, Name(new))
               T == Named(Q, Name(new))
    <3>1. IsFiniteSet(S) /\ T = S \cup {new} /\ new \notin S
      BY <1>1, <2>1
    <3> HIDE DEF S, T
    <3>2. Cardinality(T) = Cardinality(S) + 1
      BY <3>1, FS_AddElement
    <3> QED
      BY <3>2 DEF S, T
  <2>3. {q \in UpTo(new) : Name(q) = Name(new)} = Named(Q, Name(new))
    OBVIOUS
  <2> QED
    BY <2>2, <2>3 DEF Rank
<1>3. \A n : n # Name(new) => Named(Q, n) = Named(P, n)
  OBVIOUS
<1>4. ASSUME NEW p \in P PROVE Rank(p) \in 1..Cardinality(Named(P, Name(p)))
  <2> DEFINE R == {q \in UpTo(p) : Name(q) = Name(p)}
  <2>1. R \subseteq Named(P, Name(p)) /\ p \in R
    OBVIOUS
  <2>2. IsFiniteSet(R) /\ Cardinality(R) <= Cardinality(Named(P, Name(p)))
    BY <1>1, <2>1, FS_Subset
  <2>3. Cardinality(R) \in Nat /\ Cardinality(R) # 0
    BY <2>1, <2>2, FS_CardinalityType, FS_EmptySet
  <2> QED
    BY <1>1, <2>2, <2>3 DEF Rank
<1>5. /\ DOMAIN headers = {Name(p) : p \in P}
      /\ \A n \in DOMAIN headers : Len(headers[n]) = Cardinality(Named(P, n))
      /\ \A p \in P : headers[Name(p)][Rank(p)] = Value(p)
  BY DEF AsSent
<1> HIDE DEF Named
<1>6. CASE Name(new) \in DOMAIN headers
  <2>1. after = [headers EXCEPT ![Name(new)] = Append(@, Value(new))]
    BY <1>6 DEF add
  <2>2. DOMAIN after = DOMAIN headers
    BY <2>1
  <2>3. \A n \in DOMAIN headers : n # Name(new) => after[n] = headers[n]
    BY <2>1
  <2> DEFINE old == headers[Name(new)]
  <2>4. after[Name(new)] = Append(old, Value(new)) /\ old \in Seq(Text)
        /\ Len(old) = Cardinality(Named(P, Name(new)))
    BY <1>5, <1>6, <2>1
  <2>5. Len(after[Name(new)]) = Len(old) + 1 /\ after[Name(new)][Len(old) + 1] = Value(new)
        /\ \A i \in 1..Len(old) : after[Name(new)][i] = old[i]
    <3> HIDE DEF after, old
    <3> QED
      BY <2>4
  <2> HIDE DEF after
  <2>6. DOMAIN after = {Name(p) : p \in Q}
    BY <1>5, <1>6, <2>2
  <2>7. \A n \in DOMAIN after : Len(after[n]) = Cardinality(Named(Q, n))
    BY <1>2, <1>3, <1>5, <2>2, <2>3, <2>4, <2>5
  <2>8. ASSUME NEW p \in Q PROVE after[Name(p)][Rank(p)] = Value(p)
    <3>1. CASE p = new
      BY <1>2, <2>4, <2>5, <3>1
    <3>2. CASE p \in P /\ Name(p) = Name(new)
      BY <1>4, <1>5, <2>4, <2>5, <3>2
    <3>3. CASE p \in P /\ Name(p) # Name(new)
      BY <1>5, <2>3, <3>3
    <3> QED
      BY <3>1, <3>2, <3>3
  <2> QED
    BY <2>6, <2>7, <2>8 DEF AsSent, after, Named
<1>7. CASE Name(new) \notin DOMAIN headers
  <2>1. after = [n \in DOMAIN headers \cup {Name(new)} |->
                   IF n = Name(new) THEN <<Value(new)>> ELSE headers[n]]
    BY <1>7 DEF add, set
  <2>2. DOMAIN after = DOMAIN headers \cup {Name(new)}
    BY <2>1
  <2>3. \A n \in DOMAIN headers : n # Name(new) => after[n] = headers[n]
    BY <2>1
  <2>4. after[Name(new)] = <<Value(new)>>
    BY <2>1
  <2>5. Named(P, Name(new)) = {}
    BY <1>5, <1>7 DEF Named
  <2>6. Cardinality(Named(P, Name(new))) = 0
    BY <2>5, FS_EmptySet
  <2> HIDE DEF after
  <2>7. Len(after[Name(new)]) = 1 /\ after[Name(new)][1] = Value(new)
    BY <2>4
  <2>8. DOMAIN after = {Name(p) : p \in Q}
    BY <1>5, <2>2
  <2>9. ASSUME NEW n \in DOMAIN after PROVE Len(after[n]) = Cardinality(Named(Q, n))
    <3>1. CASE n = Name(new)
      <4>1. Cardinality(Named(Q, Name(new))) = 1
        BY <1>2, <2>6
      <4> QED
        BY <2>7, <3>1, <4>1
    <3>2. CASE n # Name(new)
      <4>1. Named(Q, n) = Named(P, n) /\ n \in DOMAIN headers
        BY <1>3, <2>2, <3>2
      <4> QED
        BY <1>5, <2>3, <3>2, <4>1
    <3> QED
      BY <3>1, <3>2
  <2>10. ASSUME NEW p \in Q PROVE after[Name(p)][Rank(p)] = Value(p)
    <3>1. CASE p = new
      BY <1>2, <2>6, <2>7, <3>1
    <3>2. CASE p \in P
      <4>1. Name(p) \in DOMAIN headers
        BY <1>5, <3>2
      <4> QED
        BY <1>5, <1>7, <2>3, <3>2, <4>1
    <3> QED
      BY <3>1, <3>2
  <2> QED
    BY <2>8, <2>9, <2>10 DEF AsSent, after, Named
<1> QED
  BY <1>6, <1>7

LEMMA AddKeepsTexts ==
  ASSUME NEW headers, \A n \in DOMAIN headers : headers[n] \in Seq(Text),
         NEW key, NEW value \in Text
  PROVE  LET after == add(headers, key, value)
         IN \A n \in DOMAIN after : after[n] \in Seq(Text)
<1>1. CASE key \in DOMAIN headers
  BY <1>1 DEF add
<1>2. CASE key \notin DOMAIN headers
  <2>1. <<value>> \in Seq(Text)
    OBVIOUS
  <2> QED
    BY <1>2, <2>1 DEF add, set
<1> QED
  BY <1>1, <1>2

\* The value that counts is the one of the last length sent.
LEMMA LastLength ==
  ASSUME FedInv, NEW m \in 0..Len(requests), NEW headers, AsSent(headers, Places(m)),
         \A n \in DOMAIN headers : headers[n] \in Seq(Text),
         NEW p \in LengthPlaces(Places(m))
  PROVE  hasContentLength(headers) /\ getContentLength(headers) = stoi(Value(p))
<1>1. p \in Places(m) /\ Name(p) = ContentLength
      /\ \A q \in Places(m) : Name(q) = ContentLength => q \in UpTo(p)
  BY DEF LengthPlaces
<1>2. ContentLength \in DOMAIN headers /\ headers[ContentLength] \in Seq(Text)
      /\ Len(headers[ContentLength]) = Cardinality({q \in Places(m) : Name(q) = ContentLength})
      /\ headers[ContentLength][Rank(p)] = Value(p)
  BY <1>1 DEF AsSent
<1>3. UpTo(p) \subseteq Places(m)
  <2> SUFFICES ASSUME NEW q \in UpTo(p) PROVE q \in Places(m)
    OBVIOUS
  <2>1. p[1] \in 1..m /\ requests \in Seq(Request) /\ Len(requests) \in Nat
    BY <1>1, PlaceShape DEF FedInv
  <2>2. p[1] \in 0..Len(requests) /\ q \in Places(p[1])
    BY <2>1 DEF UpTo
  <2>3. q = <<q[1], q[2]>> /\ q[1] \in 1..p[1] /\ q[2] \in DOMAIN requests[q[1]].headers
    BY <2>1, <2>2, PlaceShape
  <2>4. q[1] \in 1..m
    BY <2>1, <2>3
  <2> QED
    BY <2>1, <2>3, <2>4, PlaceShape
<1>4. {q \in UpTo(p) : Name(q) = Name(p)} = {q \in Places(m) : Name(q) = ContentLength}
  BY <1>1, <1>3
<1>5. Rank(p) = Len(headers[ContentLength])
  BY <1>2, <1>4 DEF Rank
<1>6. Last(headers[ContentLength]) = Value(p)
  BY <1>2, <1>5 DEF Last
<1> QED
  BY <1>2, <1>6 DEF hasContentLength, getContentLength

-----------------------------------------------------------------------------
(* Steps. *)

LEMMA Restated ==
  ASSUME requests' = requests
  PROVE  /\ Seen' = SeenBefore(fed'.msg, fed'.item)
         /\ AsSent(builder.headers, Seen)' <=> AsSent(builder'.headers, Seen')
         /\ AsSent(built.headers, Places(built.msg))'
              <=> AsSent(built'.headers, Places(built'.msg))
         /\ \A p : Value(p)' = Value(p)
         /\ \A m : LengthPlaces(Places(m))' = LengthPlaces(Places(m))
<1>1. \A m : Places(m)' = Places(m)
  BY DEF Places
<1>2. \A p : Name(p)' = Name(p) /\ Value(p)' = Value(p)
  BY DEF Name, Value
<1>3. \A p : UpTo(p)' = UpTo(p)
  BY <1>1 DEF UpTo
<1>4. \A p : Rank(p)' = Rank(p)
  BY <1>2, <1>3 DEF Rank
<1>5. Seen' = SeenBefore(fed'.msg, fed'.item)
  BY <1>1 DEF Seen, SeenBefore
<1>6. \A h, P : AsSent(h, P)' <=> AsSent(h, P)
  BY <1>2, <1>4 DEF AsSent
<1>7. \A P : LengthPlaces(P)' = LengthPlaces(P)
  BY <1>2, <1>3 DEF LengthPlaces
<1>8. AsSent(builder.headers, Seen)' <=> AsSent(builder'.headers, Seen')
  BY <1>6
<1>9. AsSent(built.headers, Places(built.msg))' <=> AsSent(built'.headers, Places(built'.msg))
  BY <1>1, <1>6
<1>10. \A m : LengthPlaces(Places(m))' = LengthPlaces(Places(m))
  BY <1>1, <1>7
<1> QED
  BY <1>2, <1>5, <1>8, <1>9, <1>10

\* What a data callback does to the rest.
LEMMA DeliverEffect ==
  ASSUME FedInv, NEW n \in Nat, NEW more \in BOOLEAN, Deliver(n, more)
  PROVE  /\ outcome = "running" /\ fed.msg \in DOMAIN requests /\ fed.item \in DOMAIN Data
         /\ fed.item \in 1..Len(Data) /\ n <= Remaining
         /\ mParseState \notin {"INITED", "HEADERS_COMPLETE", "COMPLETE"}
         /\ requests' = requests /\ built' = built /\ mParseState' = mParseState
         /\ fed' \in [msg : 1..Len(requests) + 1, item : Nat, from : Nat] /\ fed'.msg = fed.msg
         /\ \/ fed'.item = fed.item /\ fed'.from = fed.from + n /\ n > 0
            \/ fed'.item = fed.item + 1 /\ fed'.from = 0 /\ n = Remaining
         /\ cut \subseteq cut' /\ \A c \in cut' : c \in cut \/ c[1] = fed.msg
         /\ fed.from > 0 /\ fed.item # 1 => ~(\A c \in cut' : c[2] = 1)
<1>1. /\ outcome = "running" /\ fed.msg \in DOMAIN requests /\ fed.item \in DOMAIN Data
      /\ n <= Remaining
      /\ requests' = requests /\ built' = built
  BY DEF Deliver, Due, sent
<1>2. fed.item \in 1..Len(Data)
  BY <1>1, InAsked
<1>3. fed \in [msg : 1..Len(requests) + 1, item : Nat, from : Nat]
  BY DEF FedInv
<1>4. mParseState \notin {"INITED", "HEADERS_COMPLETE", "COMPLETE"}
  BY <1>1, <1>2, InAsked DEF FedInv
<1>5. mParseState' = mParseState
  BY DEF Deliver, onUrl, onHeaderField, onHeaderValue, parserVars
<1>6. /\ fed' \in [msg : 1..Len(requests) + 1, item : Nat, from : Nat] /\ fed'.msg = fed.msg
      /\ \/ fed'.item = fed.item /\ fed'.from = fed.from + n /\ n > 0
         \/ fed'.item = fed.item + 1 /\ fed'.from = 0 /\ n = Remaining
  <2>1. CASE more
    <3>1. fed' = [fed EXCEPT !.from = @ + n] /\ n > 0
      BY <2>1 DEF Deliver
    <3> QED
      BY <1>3, <3>1
  <2>2. CASE ~more
    <3>1. fed' = [fed EXCEPT !.item = @ + 1, !.from = 0] /\ n = Remaining
      BY <2>2 DEF Deliver, NextItem
    <3>2. fed' = [msg |-> fed.msg, item |-> fed.item + 1, from |-> 0]
      BY <1>3, <3>1
    <3>3. fed.item + 1 \in Nat /\ fed.msg \in 1..Len(requests) + 1
      BY <1>3
    <3> QED
      BY <3>1, <3>2, <3>3
  <2> QED
    BY <2>1, <2>2
<1>7. cut' = IF fed.from > 0 THEN cut \cup {<<fed.msg, fed.item, fed.from>>} ELSE cut
  BY DEF Deliver
<1>8. cut \subseteq cut' /\ \A c \in cut' : c \in cut \/ c[1] = fed.msg
  BY <1>7
<1>9. fed.from > 0 /\ fed.item # 1 => ~(\A c \in cut' : c[2] = 1)
  <2> SUFFICES ASSUME fed.from > 0, fed.item # 1 PROVE \E c \in cut' : c[2] # 1
    OBVIOUS
  <2> DEFINE c == <<fed.msg, fed.item, fed.from>>
  <2>1. c \in cut' /\ c[2] = fed.item
    BY <1>7
  <2> QED
    BY <2>1
<1> QED
  BY <1>1, <1>2, <1>4, <1>5, <1>6, <1>8, <1>9

\* The callback of an item that is no datum, behind the data or before them.
LEMMA NextItemEffect ==
  ASSUME FedInv, NEW item, Due(item), NextItem
  PROVE  /\ fed.msg \in DOMAIN requests /\ fed.item = item
         /\ fed' \in [msg : 1..Len(requests) + 1, item : Nat, from : Nat]
         /\ fed'.msg = fed.msg /\ fed'.item = item + 1 /\ fed'.from = 0
<1>1. /\ fed.msg \in DOMAIN requests /\ fed.item = item
      /\ fed' = [fed EXCEPT !.item = @ + 1, !.from = 0]
  BY DEF Due, NextItem
<1>2. fed \in [msg : 1..Len(requests) + 1, item : Nat, from : Nat]
  BY DEF FedInv
<1>3. fed' = [msg |-> fed.msg, item |-> fed.item + 1, from |-> 0]
  BY <1>1, <1>2
<1>4. fed.item + 1 \in Nat /\ fed.msg \in 1..Len(requests) + 1
  BY <1>2
<1> QED
  BY <1>1, <1>3, <1>4

\* The next message finds the headers of those before it.
LEMMA CompleteSeen ==
  ASSUME FedInv, fed.msg \in DOMAIN requests, fed.item > Len(Data)
  PROVE  SeenBefore(fed.msg + 1, 0) = Seen /\ Seen = Places(fed.msg)
<1>1. /\ fed.msg \in 0..Len(requests) /\ fed.msg \in 1..Len(requests) + 1
      /\ fed.msg + 1 \in 1..Len(requests) + 1 /\ fed.item \in Nat /\ 0 \in Nat
      /\ fed.item > 2 * Len(requests[fed.msg].headers) + 1
  BY FedFields, InAsked DEF Asked
<1>2. SeenBefore(fed.msg + 1, 0) = Places(fed.msg)
  BY <1>1, SeenAll
<1>3. SeenBefore(fed.msg, fed.item) = Places(fed.msg)
  BY <1>1, SeenAll
<1> QED
  BY <1>2, <1>3 DEF Seen

\* The other steps: before the data of a message or behind them.
OtherStep ==
  onMessageBegin \/ onHeadersComplete \/ onMessageBody \/ onMessageComplete \/ BuildRequest

LEMMA Steps ==
  ASSUME Next
  PROVE  OtherStep \/ \E n \in Nat, more \in BOOLEAN : Deliver(n, more)
BY DEF Next, Callback, OtherStep

LEMMA OtherEffect ==
  ASSUME FedInv, OtherStep
  PROVE  /\ requests' = requests /\ cut' = cut /\ Seen' = Seen /\ outcome = "running"
         /\ fed.from = 0 /\ ~(fed'.item > 1 /\ fed'.item <= Len(Data)')
<1>1. fed.item \in Nat
  BY FedFields
<1>2. fed.item = 0 => fed.from = 0
  BY DEF FedInv
<1>3. CASE onMessageBegin
  <2>1. /\ Due(0) /\ NextItem /\ requests' = requests /\ cut' = cut /\ outcome = "running"
    BY <1>3 DEF onMessageBegin, sent, Due
  <2>2. fed.msg \in DOMAIN requests /\ fed.item = 0 /\ fed'.msg = fed.msg /\ fed'.item = 1
    BY <2>1, NextItemEffect
  <2>3. ~(\E h \in DOMAIN Asked.headers : fed.item = 2 * h + 1)
    BY <2>2, InAsked
  <2> QED
    BY <1>2, <2>1, <2>2, <2>3, SeenStays, Restated
<1>4. ASSUME onHeadersComplete \/ onMessageBody
      PROVE  /\ requests' = requests /\ cut' = cut /\ Seen' = Seen /\ outcome = "running"
             /\ fed.from = 0 /\ ~(fed'.item > 1 /\ fed'.item <= Len(Data)')
  <2>1. PICK k \in {1, 2} : Due(Len(Data) + k)
    BY <1>4 DEF onHeadersComplete, onMessageBody
  <2>2. NextItem /\ requests' = requests /\ cut' = cut /\ fed.msg \in DOMAIN requests
        /\ outcome = "running"
    BY <1>4, <2>1 DEF onHeadersComplete, onMessageBody, sent, Due
  <2>3. Len(Data) = 2 * Len(Asked.headers) + 1 /\ Len(Asked.headers) \in Nat
        /\ DOMAIN Asked.headers = 1..Len(Asked.headers)
    BY <2>2, InAsked
  <2>4. fed.item = Len(Data) + k /\ fed'.msg = fed.msg /\ fed'.item = Len(Data) + k + 1
    BY <2>1, <2>2, NextItemEffect
  <2>5. Data' = Data
    BY <2>2, <2>4 DEF Data, Asked
  <2>6. Seen' = Seen
    <3>1. ~(\E h \in DOMAIN Asked.headers : fed.item = 2 * h + 1)
      BY <2>3, <2>4
    <3>2. SeenBefore(fed.msg, fed.item + 1) = Seen
      BY <2>2, <3>1, SeenStays
    <3> QED
      BY <2>2, <2>4, <3>2, Restated
  <2>7. fed.from = 0
    BY <2>3, <2>4, FedFields DEF FedInv
  <2> QED
    BY <2>2, <2>3, <2>4, <2>5, <2>6, <2>7
<1>5. CASE onMessageComplete
  <2>1. /\ Due(Len(Data) + 3) /\ fed' = [msg |-> fed.msg + 1, item |-> 0, from |-> 0]
        /\ requests' = requests /\ cut' = cut /\ outcome = "running"
    BY <1>5 DEF onMessageComplete, sent, Due
  <2>2. /\ fed.msg \in DOMAIN requests /\ fed.item = Len(Data) + 3
        /\ Len(Data) = 2 * Len(Asked.headers) + 1 /\ Len(Asked.headers) \in Nat
    BY <2>1, InAsked DEF Due
  <2>3. fed'.msg = fed.msg + 1 /\ fed'.item = 0
    BY <2>1
  <2>4. Seen' = Seen
    BY <2>1, <2>2, <2>3, CompleteSeen, Restated
  <2>5. fed.from = 0
    BY <2>2, FedFields DEF FedInv
  <2> QED
    BY <2>1, <2>3, <2>4, <2>5
<1>6. CASE BuildRequest
  <2>1. fed' = fed /\ requests' = requests /\ cut' = cut /\ outcome = "running"
        /\ mParseState \in {"HEADERS_COMPLETE", "COMPLETE"}
    BY <1>6 DEF BuildRequest, sent
  <2>2. Seen' = Seen /\ Data' = Data
    BY <2>1 DEF Seen, SeenBefore, Places, Data, Asked
  <2>3. CASE fed.item = 0
    BY <1>2, <2>1, <2>2, <2>3
  <2>4. CASE fed.item # 0
    <3>1. fed.item > Len(Data) + 1 /\ fed.msg \in DOMAIN requests
      BY <1>1, <2>1, <2>4, FedFields DEF FedInv
    <3>2. Len(Data) \in Nat
      BY <3>1, InAsked
    <3>3. fed.from = 0
      BY <3>1, <3>2, FedFields DEF FedInv
    <3> QED
      BY <1>1, <2>1, <2>2, <3>1, <3>2, <3>3
  <2> QED
    BY <2>3, <2>4
<1> QED
  BY <1>3, <1>4, <1>5, <1>6 DEF OtherStep

LEMMA FedStep ==
  ASSUME FedInv, Next
  PROVE  FedInv'
<1>1. /\ requests \in Seq(Request) /\ DOMAIN requests = 1..Len(requests) /\ Len(requests) \in Nat
      /\ fed \in [msg : 1..Len(requests) + 1, item : Nat, from : Nat]
      /\ fed.msg = Len(requests) + 1 => fed.item = 0
      /\ \A c \in cut : c[1] \in 1..Current
      /\ IsFiniteSet(Seen)
  BY FedFields DEF FedInv
<1>2. CASE onMessageBegin
  <2>1. Due(0) /\ NextItem /\ mParseState' = "IN_PROGRESS" /\ requests' = requests /\ cut' = cut
    BY <1>2 DEF onMessageBegin, sent
  <2>2. /\ fed.msg \in DOMAIN requests /\ fed.item = 0 /\ fed'.msg = fed.msg
        /\ fed'.item = 1 /\ fed'.from = 0
        /\ fed' \in [msg : 1..Len(requests) + 1, item : Nat, from : Nat]
    BY <2>1, NextItemEffect
  <2>3. Data' = Data /\ Len(Data) \in Nat /\ Len(Data) >= 1
    BY <2>1, <2>2, InAsked DEF Data, Asked
  <2>4. Seen' = Seen
    BY <1>2, OtherEffect DEF OtherStep
  <2>5. \A c \in cut' : c[1] \in 1..Current'
    <3>1. Current = fed.msg - 1 /\ Current' = fed.msg
      BY <2>2 DEF Current
    <3> QED
      BY <1>1, <2>1, <3>1
  <2>6. fed.msg # Len(requests) + 1 /\ fed'.item > 0 /\ ~(fed'.item > Len(Data) + 1)
    BY <1>1, <2>2, <2>3
  <2> QED
    BY <1>1, <2>1, <2>2, <2>3, <2>4, <2>5, <2>6 DEF FedInv
<1>3. ASSUME NEW n \in Nat, NEW more \in BOOLEAN, Deliver(n, more)
      PROVE  FedInv'
  <2> DEFINE seen == SeenBefore(fed'.msg, fed'.item)
  <2>1. /\ fed.msg \in DOMAIN requests /\ fed.item \in 1..Len(Data)
        /\ requests' = requests /\ mParseState' = mParseState
        /\ mParseState \notin {"INITED", "HEADERS_COMPLETE", "COMPLETE"}
        /\ fed' \in [msg : 1..Len(requests) + 1, item : Nat, from : Nat] /\ fed'.msg = fed.msg
        /\ \/ fed'.item = fed.item
           \/ fed'.item = fed.item + 1 /\ fed'.from = 0
        /\ \A c \in cut' : c \in cut \/ c[1] = fed.msg
    BY <1>3, DeliverEffect
  <2>2. Data' = Data /\ Len(Data) \in Nat
    BY <2>1, InAsked DEF Data, Asked
  <2>3. Seen' = seen
    BY <2>1, Restated
  <2>4. IsFiniteSet(seen)
    <3>1. CASE fed'.item = fed.item
      BY <1>1, <2>1, <3>1 DEF Seen
    <3>2. CASE fed'.item = fed.item + 1
      <4>1. CASE \E h \in DOMAIN Asked.headers : fed.item = 2 * h + 1
        <5>1. PICK h \in DOMAIN Asked.headers : fed.item = 2 * h + 1
          BY <4>1
        <5>2. seen = Seen \cup {<<fed.msg, h>>}
          BY <2>1, <3>2, <5>1, SeenNext
        <5> QED
          <6> DEFINE S == Seen
                     x == <<fed.msg, h>>
          <6>1. IsFiniteSet(S) /\ seen = S \cup {x}
            BY <1>1, <5>2
          <6> HIDE DEF S, x
          <6>2. IsFiniteSet(S \cup {x})
            BY <6>1, FS_AddElement
          <6> QED
            BY <6>1, <6>2
      <4>2. CASE ~(\E h \in DOMAIN Asked.headers : fed.item = 2 * h + 1)
        BY <1>1, <2>1, <3>2, <4>2, SeenStays
      <4> QED
        BY <4>1, <4>2
    <3> QED
      BY <2>1, <3>1, <3>2
  <2>5. \A c \in cut' : c[1] \in 1..Current'
    <3>1. Current = fed.msg /\ Current' = fed.msg
      BY <1>1, <2>1 DEF Current
    <3> QED
      BY <1>1, <2>1, <3>1
  <2>6. fed.msg # Len(requests) + 1 /\ fed'.item > 0 /\ fed'.item <= Len(Data) + 1
    BY <1>1, <2>1, <2>2
  <2>7. fed'.from > 0 => fed'.item <= Len(Data)
    BY <2>1, <2>2
  <2> HIDE DEF seen
  <2> QED
    BY <1>1, <2>1, <2>2, <2>3, <2>4, <2>5, <2>6, <2>7 DEF FedInv
<1>4. ASSUME onHeadersComplete \/ onMessageBody
      PROVE  FedInv'
  <2>1. PICK k \in {1, 2} : Due(Len(Data) + k)
    BY <1>4 DEF onHeadersComplete, onMessageBody
  <2>2. NextItem /\ requests' = requests /\ cut' = cut /\ fed.msg \in DOMAIN requests
    BY <1>4, <2>1 DEF onHeadersComplete, onMessageBody, sent, Due
  <2>3. Len(Data) = 2 * Len(Asked.headers) + 1 /\ Len(Asked.headers) \in Nat
        /\ DOMAIN Asked.headers = 1..Len(Asked.headers)
    BY <2>2, InAsked
  <2>4. /\ fed.item = Len(Data) + k /\ fed'.msg = fed.msg
        /\ fed'.item = Len(Data) + k + 1 /\ fed'.from = 0
        /\ fed' \in [msg : 1..Len(requests) + 1, item : Nat, from : Nat]
    BY <2>1, <2>2, NextItemEffect
  <2>5. mParseState' = "HEADERS_COMPLETE"
    <3>1. CASE onHeadersComplete
      BY <3>1 DEF onHeadersComplete
    <3>2. CASE onMessageBody
      <4>1. Due(Len(Data) + 2) /\ mParseState' = mParseState
        BY <3>2 DEF onMessageBody, parserVars
      <4>2. fed.item = Len(Data) + 2
        BY <4>1 DEF Due
      <4>3. mParseState = "HEADERS_COMPLETE"
        BY <2>3, <4>2 DEF FedInv
      <4> QED
        BY <4>1, <4>3
    <3> QED
      BY <1>4, <3>1, <3>2
  <2>6. Data' = Data
    BY <2>2, <2>4 DEF Data, Asked
  <2>7. Seen' = Seen
    BY <1>4, OtherEffect DEF OtherStep
  <2>8. \A c \in cut' : c[1] \in 1..Current'
    <3>1. Current = fed.msg /\ Current' = fed.msg
      BY <2>3, <2>4 DEF Current
    <3> QED
      BY <1>1, <2>2, <3>1
  <2>9. fed'.item > 0 /\ fed'.item > Len(Data) + 1 /\ fed.msg # Len(requests) + 1
    BY <1>1, <2>2, <2>3, <2>4
  <2> QED
    BY <1>1, <2>2, <2>4, <2>5, <2>6, <2>7, <2>8, <2>9 DEF FedInv
<1>5. CASE onMessageComplete
  <2>1. /\ Due(Len(Data) + 3) /\ fed' = [msg |-> fed.msg + 1, item |-> 0, from |-> 0]
        /\ requests' = requests /\ cut' = cut /\ mParseState' = "COMPLETE"
    BY <1>5 DEF onMessageComplete, sent
  <2>2. /\ fed.msg \in DOMAIN requests /\ fed.item = Len(Data) + 3
        /\ Len(Data) = 2 * Len(Asked.headers) + 1 /\ Len(Asked.headers) \in Nat
    BY <2>1, InAsked DEF Due
  <2>3. fed'.msg = fed.msg + 1 /\ fed'.item = 0 /\ fed'.from = 0 /\ fed.msg \in 1..Len(requests)
    BY <1>1, <2>1, <2>2
  <2>4. Seen' = Seen
    BY <1>5, OtherEffect DEF OtherStep
  <2>5. \A c \in cut' : c[1] \in 1..Current'
    <3>1. Current = fed.msg /\ Current' = fed.msg
      BY <2>2, <2>3 DEF Current
    <3> QED
      BY <1>1, <2>1, <3>1
  <2>6. fed' \in [msg : 1..Len(requests) + 1, item : Nat, from : Nat] /\ fed'.msg > 1
    BY <1>1, <2>1, <2>3
  <2> QED
    BY <1>1, <2>1, <2>3, <2>4, <2>5, <2>6 DEF FedInv
<1>6. CASE BuildRequest
  BY <1>6 DEF FedInv, BuildRequest, Seen, SeenBefore, Places, Current, sent, parserVars, Data,
              Asked
<1> QED
  BY <1>2, <1>3, <1>4, <1>5, <1>6 DEF Next, Callback

LEMMA PieceOfText ==
  ASSUME NEW text \in Text, NEW from \in Nat, NEW n \in 0..Len(text) - from
  PROVE  SubSeq(text, from + 1, from + n) \in Text
<1>1. text \in Seq(STRING) /\ Len(text) \in Nat
  BY DEF Text
<1>2. n \in Nat /\ from + n <= Len(text)
  BY <1>1
<1>3. from + 1 \in 1..Len(text) + 1 /\ from + n \in (from + 1) - 1..Len(text)
  BY <1>1, <1>2
<1> QED
  BY <1>1, <1>3, SubSeqProperties DEF Text

\* What a data callback does to the builder.
LEMMA DeliverBuilder ==
  ASSUME FedInv, DOMAIN builder = BuilderFields, NEW n \in Nat, NEW more \in BOOLEAN,
         Deliver(n, more)
  PROVE  /\ DOMAIN builder' = BuilderFields
         /\ builder'.method = builder.method /\ builder'.body_reader = builder.body_reader
         /\ fed.item = 1 \/ fed.item % 2 = 0 => builder'.headers = builder.headers
         /\ fed.item > 1 /\ fed.item % 2 = 0 =>
              mCurrentHeaderField' = SubSeq(Data[fed.item], fed.from + 1, fed.from + n)
         /\ fed.item > 1 /\ fed.item % 2 # 0 =>
              builder'.headers = add(builder.headers, mCurrentHeaderField,
                                     SubSeq(Data[fed.item], fed.from + 1, fed.from + n))
<1> DEFINE piece == SubSeq(Data[fed.item], fed.from + 1, fed.from + n)
<1>1. fed.item \in Nat
  BY FedFields
<1>2. CASE fed.item = 1
  <2>1. onUrl(piece)
    BY <1>2 DEF Deliver
  <2> HIDE DEF piece
  <2>2. \/ builder' = builder
        \/ \E path, query : builder' = [builder EXCEPT !.path = path, !.query = query]
    BY <2>1 DEF onUrl, Stop, TakeUrl
  <2>3. builder'.headers = builder.headers /\ builder'.method = builder.method
        /\ builder'.body_reader = builder.body_reader /\ DOMAIN builder' = BuilderFields
    BY <2>2 DEF BuilderFields
  <2> QED
    BY <1>1, <1>2, <2>3
<1>3. CASE fed.item > 1 /\ fed.item % 2 = 0
  <2>1. onHeaderField(piece)
    BY <1>1, <1>3 DEF Deliver
  <2> HIDE DEF piece
  <2>2. builder' = builder /\ mCurrentHeaderField' = piece
    BY <2>1 DEF onHeaderField
  <2> QED
    BY <1>1, <1>3, <2>2 DEF piece
<1>4. CASE fed.item # 1 /\ ~(fed.item > 1 /\ fed.item % 2 = 0)
  <2>1. onHeaderValue(piece)
    BY <1>4 DEF Deliver
  <2>2. fed.item \in DOMAIN Data /\ fed.item \in 1..Len(Data)
    BY DeliverEffect
  <2> HIDE DEF piece
  <2>3. builder' = [builder EXCEPT !.headers = add(@, mCurrentHeaderField, piece)]
    BY <2>1 DEF onHeaderValue
  <2>4. /\ builder'.headers = add(builder.headers, mCurrentHeaderField, piece)
        /\ builder'.method = builder.method
        /\ builder'.body_reader = builder.body_reader /\ DOMAIN builder' = BuilderFields
    BY <2>3 DEF BuilderFields
  <2>5. fed.item > 1 /\ fed.item % 2 # 0
    BY <1>4, <2>2
  <2> QED
    BY <1>4, <2>4, <2>5 DEF piece
<1> QED
  BY <1>2, <1>3, <1>4

\* Nothing is added to the headers, and a name that came whole is remembered.
LEMMA HeadersStay ==
  ASSUME FedInv, HeaderInv, requests' = requests, builder'.headers = builder.headers,
         built' = built, cut \subseteq cut', Seen' = Seen,
         (\A c \in cut' : c[2] = 1) /\ (fed'.from = 0 \/ fed'.item = 1) =>
           /\ fed.from = 0 \/ fed.item = 1
           /\ fed'.item > 1 /\ fed'.item <= Len(Data)' /\ fed'.item % 2 = 1 =>
                mCurrentHeaderField' = Asked'.headers[fed'.item \div 2].name
  PROVE  HeaderInv'
<1>1. \A n \in DOMAIN builder'.headers : builder'.headers[n] \in Seq(Text)
  BY DEF HeaderInv
<1>2. ASSUME built' = NotBuilt, \A c \in cut' : c[2] = 1, fed'.from = 0 \/ fed'.item = 1
      PROVE  /\ AsSent(builder.headers, Seen)'
             /\ fed'.item > 1 /\ fed'.item <= Len(Data)' /\ fed'.item % 2 = 1 =>
                  mCurrentHeaderField' = Asked'.headers[fed'.item \div 2].name
  <2>1. built = NotBuilt /\ (\A c \in cut : c[2] = 1) /\ (fed.from = 0 \/ fed.item = 1)
    BY <1>2
  <2>2. AsSent(builder.headers, Seen)
    BY <2>1 DEF HeaderInv
  <2>3. AsSent(builder'.headers, Seen')
    BY <2>2
  <2>4. AsSent(builder.headers, Seen)'
    BY <2>3, Restated
  <2> QED
    BY <1>2, <2>4
<1> QED
  BY <1>1, <1>2 DEF HeaderInv

LEMMA OtherBuilder ==
  ASSUME DOMAIN builder = BuilderFields, OtherStep
  PROVE  /\ DOMAIN builder' = BuilderFields
         /\ \/ builder'.headers = builder.headers /\ built' = built
            \/ builder'.headers = NoHeaders /\ built' # NotBuilt
<1>1. CASE onMessageBegin
  BY <1>1 DEF onMessageBegin, BuilderFields
<1>2. CASE onHeadersComplete
  BY <1>2 DEF onHeadersComplete, OnHeadersComplete, Stop, BuilderFields
<1>3. CASE onMessageBody \/ onMessageComplete
  BY <1>3 DEF onMessageBody, onMessageComplete
<1>4. CASE BuildRequest
  <2>1. CASE builder' = builder /\ built' = built
    BY <2>1
  <2>2. CASE builder' = MovedFrom(builder) /\ built' # NotBuilt
    <3>1. builder' = [builder EXCEPT !.path = <<>>, !.query = <<>>, !.headers = NoHeaders]
      BY <2>2 DEF MovedFrom
    <3> QED
      BY <2>2, <3>1 DEF BuilderFields
  <2>3. \/ builder' = builder /\ built' = built
        \/ builder' = MovedFrom(builder) /\ DOMAIN built' # {}
    BY <1>4 DEF BuildRequest
  <2> QED
    BY <2>1, <2>2, <2>3 DEF NotBuilt
<1> QED
  BY <1>1, <1>2, <1>3, <1>4 DEF OtherStep

LEMMA HeaderStep ==
  ASSUME FedInv, DOMAIN builder = BuilderFields, HeaderInv, Next
  PROVE  HeaderInv' /\ DOMAIN builder' = BuilderFields
<1>1. CASE OtherStep
  <2>1. /\ requests' = requests /\ cut' = cut /\ Seen' = Seen
        /\ fed.from = 0 /\ ~(fed'.item > 1 /\ fed'.item <= Len(Data)')
    BY <1>1, OtherEffect
  <2>2. DOMAIN builder' = BuilderFields
    BY <1>1, OtherBuilder
  <2>3. CASE builder'.headers = builder.headers /\ built' = built
    BY <2>1, <2>2, <2>3, HeadersStay
  <2>4. CASE builder'.headers = NoHeaders /\ built' # NotBuilt
    BY <2>2, <2>4 DEF HeaderInv, NoHeaders
  <2> QED
    BY <1>1, <2>3, <2>4, OtherBuilder
<1>2. ASSUME NEW n \in Nat, NEW more \in BOOLEAN, Deliver(n, more)
      PROVE  HeaderInv' /\ DOMAIN builder' = BuilderFields
  <2> DEFINE piece == SubSeq(Data[fed.item], fed.from + 1, fed.from + n)
             goesOn == fed'.item = fed.item /\ fed'.from = fed.from + n /\ n > 0
             ends == fed'.item = fed.item + 1 /\ fed'.from = 0 /\ n = Remaining
             whole == (\A c \in cut' : c[2] = 1) /\ (fed'.from = 0 \/ fed'.item = 1)
  <2>1. /\ fed.msg \in DOMAIN requests /\ fed.item \in DOMAIN Data /\ fed.item \in 1..Len(Data)
        /\ requests' = requests /\ built' = built /\ fed'.msg = fed.msg
        /\ goesOn \/ ends
        /\ cut \subseteq cut' /\ n <= Remaining
        /\ fed.from > 0 /\ fed.item # 1 => ~(\A c \in cut' : c[2] = 1)
    BY <1>2, DeliverEffect
  <2>2. /\ DOMAIN builder' = BuilderFields
        /\ fed.item = 1 \/ fed.item % 2 = 0 => builder'.headers = builder.headers
        /\ fed.item > 1 /\ fed.item % 2 = 0 => mCurrentHeaderField' = piece
        /\ fed.item > 1 /\ fed.item % 2 # 0 =>
             builder'.headers = add(builder.headers, mCurrentHeaderField, piece)
    BY <1>2, DeliverBuilder
  <2>3. /\ Data' = Data /\ Asked' = Asked /\ Len(Data) \in Nat /\ Asked \in Request
        /\ fed.item \in Nat /\ fed.from \in Nat /\ Data = Items(Asked)
        /\ DOMAIN Asked.headers = 1..Len(Asked.headers) /\ Len(Asked.headers) \in Nat
    BY <2>1, InAsked, FedFields DEF Data, Asked
  <2>4. Seen' = SeenBefore(fed.msg, fed'.item)
    BY <2>1, Restated
  <2>5. goesOn => Seen' = Seen
    BY <2>1, <2>4 DEF Seen
  <2>6. fed.item # 1 /\ whole => fed.from = 0 /\ ends
    BY <2>1, <2>3
  <2> HIDE DEF piece, whole
  <2>7. CASE fed.item = 1
    <3>1. Seen' = Seen
      <4>1. ~(\E h \in DOMAIN Asked.headers : fed.item = 2 * h + 1)
        BY <2>3, <2>7
      <4>2. SeenBefore(fed.msg, fed.item + 1) = Seen
        BY <2>1, <4>1, SeenStays
      <4> QED
        BY <2>1, <2>4, <2>5, <4>2
    <3>2. fed'.item \in {1, 2}
      BY <2>1, <2>7
    <3> QED
      BY <2>1, <2>2, <2>7, <3>1, <3>2, HeadersStay
  <2>8. CASE fed.item > 1
    <3>1. PICK h \in DOMAIN Asked.headers :
            fed.item \in {2 * h, 2 * h + 1} /\ (fed.item % 2 = 0 <=> fed.item = 2 * h)
      BY <2>1, <2>3, <2>8, ItemKinds
    <3>2. h \in Nat /\ h >= 1
      BY <2>3
    <3>3. Asked.headers[h].name \in Text /\ Asked.headers[h].value \in Text
      BY <2>3, RequestShape
    <3>4. Data[2 * h] = Asked.headers[h].name /\ Data[2 * h + 1] = Asked.headers[h].value
      BY <2>3, ItemsShape
    <3>5. Data[fed.item] \in Text /\ n \in 0..Len(Data[fed.item]) - fed.from
      BY <1>2, <2>1, <3>1, <3>3, <3>4 DEF Remaining
    <3>6. piece \in Text
      BY <2>3, <3>5, PieceOfText DEF piece
    <3>7. whole => piece = Data[fed.item]
      <4> DEFINE d == Data[fed.item]
      <4>1. d \in Seq(STRING)
        BY <3>5 DEF Text
      <4>2. ASSUME whole PROVE fed.from = 0 /\ n = Len(d)
        BY <2>3, <2>6, <2>8, <4>1, <4>2 DEF Remaining
      <4> HIDE DEF d
      <4>3. SubSeq(d, 1, Len(d)) = d
        BY <4>1
      <4> QED
        BY <4>2, <4>3 DEF piece, d
    <3>8. CASE fed.item = 2 * h
      <4>1. fed.item % 2 = 0
        BY <3>1, <3>8
      <4>2. builder'.headers = builder.headers /\ mCurrentHeaderField' = piece
        BY <2>2, <2>8, <4>1
      <4>3. Seen' = Seen
        <5>1. ~(\E g \in DOMAIN Asked.headers : fed.item = 2 * g + 1)
          BY <2>3, <3>2, <3>8
        <5>2. SeenBefore(fed.msg, fed.item + 1) = Seen
          BY <2>1, <5>1, SeenStays
        <5> QED
          BY <2>1, <2>4, <2>5, <5>2
      <4>4. whole => /\ fed.from = 0
                     /\ mCurrentHeaderField' = Asked'.headers[fed'.item \div 2].name
        <5>1. ASSUME whole PROVE fed'.item \div 2 = h
          <6>1. fed'.item = 2 * h + 1
            BY <2>6, <2>8, <3>2, <3>8, <5>1
          <6> QED
            BY <3>2, <6>1, Halves
        <5>2. whole => mCurrentHeaderField' = Asked.headers[h].name
          BY <3>4, <3>7, <3>8, <4>2
        <5> QED
          BY <2>3, <2>6, <2>8, <5>1, <5>2
      <4> QED
        BY <2>1, <2>2, <4>2, <4>3, <4>4, HeadersStay DEF whole
    <3>9. CASE fed.item = 2 * h + 1
      <4> DEFINE new == <<fed.msg, h>>
      <4>1. fed.item % 2 = 1 /\ fed.item \div 2 = h
        BY <3>2, <3>9, Halves
      <4>2. builder'.headers = add(builder.headers, mCurrentHeaderField, piece)
        BY <2>2, <2>8, <4>1
      <4>3. \A k \in DOMAIN builder.headers : builder.headers[k] \in Seq(Text)
        BY DEF HeaderInv
      <4>4. \A k \in DOMAIN builder'.headers : builder'.headers[k] \in Seq(Text)
        BY <3>6, <4>2, <4>3, AddKeepsTexts
      <4>5. ASSUME whole, built = NotBuilt PROVE AsSent(builder.headers, Seen)'
        <5>1. /\ AsSent(builder.headers, Seen)
              /\ mCurrentHeaderField = Asked.headers[h].name
          BY <2>1, <2>6, <2>8, <4>1, <4>5 DEF HeaderInv, whole
        <5>2. mCurrentHeaderField = Name(new) /\ piece = Value(new) /\ Value(new) \in Text
          BY <3>3, <3>4, <3>7, <3>9, <4>5, <5>1 DEF Name, Value, Asked
        <5>3. new \notin Seen /\ UpTo(new) = Seen \cup {new}
              /\ SeenBefore(fed.msg, fed.item + 1) = Seen \cup {new}
          BY <2>1, <3>9, SeenNext
        <5>4. IsFiniteSet(Seen)
          BY DEF FedInv
        <5>5. \A p \in Seen : p \in UpTo(p) /\ UpTo(p) \subseteq Seen
          BY SeenClosed
        <5>6. AsSent(add(builder.headers, Name(new), Value(new)), Seen \cup {new})
          <6> DEFINE P == Seen
          <6> HIDE DEF P, new
          <6>1. /\ IsFiniteSet(P) /\ new \notin P /\ UpTo(new) = P \cup {new}
                /\ \A p \in P : p \in UpTo(p) /\ UpTo(p) \subseteq P
                /\ AsSent(builder.headers, P)
            BY <5>1, <5>3, <5>4, <5>5 DEF P
          <6>2. AsSent(add(builder.headers, Name(new), Value(new)), P \cup {new})
            BY <4>3, <5>2, <6>1, AddSent
          <6> QED
            BY <6>2 DEF P
        <5>7. Seen' = Seen \cup {new}
          BY <2>4, <2>6, <2>8, <4>5, <5>3
        <5> QED
          BY <2>1, <4>2, <5>2, <5>6, <5>7, Restated
      <4>6. whole => fed'.item % 2 # 1
        <5>1. whole => fed'.item = 2 * (h + 1)
          BY <2>6, <2>8, <3>2, <3>9
        <5>2. (2 * (h + 1)) % 2 = 0
          BY <3>2, Halves
        <5> QED
          BY <5>1, <5>2
      <4> QED
        BY <2>1, <2>2, <4>4, <4>5, <4>6 DEF HeaderInv, whole
    <3> QED
      BY <3>1, <3>8, <3>9
  <2> QED
    BY <2>1, <2>7, <2>8
<1> QED
  BY <1>1, <1>2, Steps

\* Before a message and behind its data, the headers of the last one that began
\* are all there, and the last length is the one that counts.
LEMMA AtEnd ==
  ASSUME FedInv, HeaderInv, built = NotBuilt, fed.from = 0,
         fed.item = 0 \/ (fed.msg \in DOMAIN requests /\ fed.item > Len(Data)),
         \A c \in cut : c[1] <= Current => c[2] = 1
  PROVE  /\ AsSent(builder.headers, Places(Current))
         /\ \A p \in LengthPlaces(Places(Current)) :
              hasContentLength(builder.headers)
              /\ getContentLength(builder.headers) = stoi(Value(p))
<1>1. /\ fed.msg \in 1..Len(requests) + 1 /\ fed.item \in Nat /\ Len(requests) \in Nat
      /\ DOMAIN requests = 1..Len(requests)
  BY FedFields
<1>2. Current \in 0..Len(requests) /\ Seen = Places(Current)
  <2>1. CASE fed.item = 0
    <3>1. Current = fed.msg - 1
      BY <2>1 DEF Current
    <3>2. Current \in 0..Len(requests) /\ fed.msg = Current + 1
      BY <1>1, <3>1
    <3>3. SeenBefore(fed.msg, fed.item) = Places(Current)
      BY <1>1, <2>1, <3>2, SeenAll
    <3> QED
      BY <3>2, <3>3 DEF Seen
  <2>2. CASE fed.item # 0
    <3>1. Current = fed.msg /\ fed.msg \in DOMAIN requests /\ fed.item > Len(Data)
      BY <2>2 DEF Current
    <3> QED
      BY <1>1, <3>1, CompleteSeen
  <2> QED
    BY <2>1, <2>2
<1>3. \A c \in cut : c[2] = 1
  BY <1>1, <1>2 DEF FedInv
<1>4. AsSent(builder.headers, Places(Current))
  BY <1>2, <1>3 DEF HeaderInv
<1>5. \A n \in DOMAIN builder.headers : builder.headers[n] \in Seq(Text)
  BY DEF HeaderInv
<1> QED
  BY <1>2, <1>4, <1>5, LastLength

\* What BuildRequest takes, and when it may be called.
LEMMA BuildEffect ==
  ASSUME FedInv, DOMAIN builder = BuilderFields, BuildRequest
  PROVE  /\ outcome = "running" /\ built = NotBuilt
         /\ mParseState \in {"HEADERS_COMPLETE", "COMPLETE"}
         /\ requests' = requests /\ fed' = fed /\ cut' = cut /\ mParseState' = mParseState
         /\ Current \in 1..Len(requests)
         /\ fed.item = 0 \/ (fed.msg \in DOMAIN requests /\ fed.item > Len(Data))
         /\ \/ /\ builder' = builder /\ built' = built /\ outcome' = "thrown"
            \/ /\ built' # NotBuilt /\ outcome' = outcome
               /\ built'.msg = Current /\ built'.method = builder.method
               /\ built'.headers = builder.headers /\ built'.body = builder.body_reader
               /\ builder.method # None /\ getContentLength(builder.headers) # Thrown
               /\ builder'.method = builder.method /\ builder'.body_reader = builder.body_reader
<1>1. /\ outcome = "running" /\ built = NotBuilt
      /\ mParseState \in {"HEADERS_COMPLETE", "COMPLETE"}
      /\ requests' = requests /\ fed' = fed /\ cut' = cut /\ mParseState' = mParseState
  BY DEF BuildRequest, sent, parserVars
<1>2. /\ fed.msg \in 1..Len(requests) + 1 /\ fed.item \in Nat /\ Len(requests) \in Nat
      /\ DOMAIN requests = 1..Len(requests)
  BY FedFields
<1>3. /\ Current \in 1..Len(requests)
      /\ fed.item = 0 \/ (fed.msg \in DOMAIN requests /\ fed.item > Len(Data))
      /\ Current = IF mParseState = "COMPLETE" THEN fed.msg - 1 ELSE fed.msg
  <2>1. CASE mParseState = "HEADERS_COMPLETE"
    <3>1. fed.item > 0 /\ fed.item > Len(Data) + 1 /\ fed.msg \in DOMAIN requests
      BY <1>2, <2>1 DEF FedInv
    <3>2. fed.item > Len(Data) /\ Current = fed.msg
      BY <1>2, <3>1, InAsked DEF Current
    <3> QED
      BY <1>2, <2>1, <3>1, <3>2
  <2>2. CASE mParseState = "COMPLETE"
    <3>1. fed.item = 0 /\ fed.msg > 1
      BY <2>2 DEF FedInv
    <3> QED
      BY <1>2, <2>2, <3>1 DEF Current
  <2> QED
    BY <1>1, <2>1, <2>2
<1> DEFINE found == getResource(routes_, builder.path)
<1>4. CASE Buildable(found)
  <2>1. /\ built' = [msg |-> IF mParseState = "COMPLETE" THEN fed.msg - 1 ELSE fed.msg,
                     method |-> builder.method, path |-> builder.path,
                     query |-> builder.query, headers |-> builder.headers,
                     body |-> builder.body_reader,
                     args |-> ArgsOf(found.args, builder.path),
                     handler |-> builder.method \in found.handlers]
        /\ builder' = MovedFrom(builder) /\ outcome' = outcome
    BY <1>4 DEF BuildRequest
  <2>2. builder.method # None /\ getContentLength(builder.headers) # Thrown
    BY <1>4 DEF Buildable
  <2>3. builder'.method = builder.method /\ builder'.body_reader = builder.body_reader
    BY <2>1 DEF MovedFrom, BuilderFields
  <2>4. /\ built'.msg = Current /\ built'.method = builder.method
        /\ built'.headers = builder.headers /\ built'.body = builder.body_reader
        /\ DOMAIN built' # {}
    BY <1>3, <2>1
  <2> QED
    BY <1>1, <1>3, <2>1, <2>2, <2>3, <2>4 DEF NotBuilt
<1>5. CASE ~Buildable(found)
  <2>1. outcome' = "thrown" /\ builder' = builder /\ built' = built
    BY <1>5 DEF BuildRequest
  <2> QED
    BY <1>1, <1>3, <2>1
<1> QED
  BY <1>4, <1>5

LEMMA MethodStep ==
  ASSUME FedInv, DOMAIN builder = BuilderFields, MethodInv, Next
  PROVE  MethodInv'
<1>1. fed.msg \in 1..Len(requests) + 1 /\ fed.item \in Nat
  BY FedFields
<1>2. CASE onMessageBegin
  <2>1. /\ Due(0) /\ NextItem /\ requests' = requests
        /\ builder' = [builder EXCEPT
             !.method = IF Guess(Asked.method) \in {"GET", "POST"} THEN Guess(Asked.method) ELSE @,
             !.http_version = IF fed.msg = 1 THEN 0 ELSE 1]
    BY <1>2 DEF onMessageBegin, sent
  <2>2. fed'.msg = fed.msg /\ fed'.item = 1
    BY <2>1, NextItemEffect
  <2>3. Current' = fed.msg /\ Asked = requests[fed.msg]
    BY <2>2 DEF Current, Asked
  <2>4. builder'.method = IF Guess(Asked.method) \in {"GET", "POST"} THEN Guess(Asked.method)
                          ELSE builder.method
    BY <2>1 DEF BuilderFields
  <2> QED
    BY <2>1, <2>3, <2>4 DEF MethodInv, Guess
<1>3. ASSUME builder'.method = builder.method, requests' = requests, Current' = Current
      PROVE  MethodInv'
  BY <1>3 DEF MethodInv, Guess
<1>4. ASSUME NEW n \in Nat, NEW more \in BOOLEAN, Deliver(n, more)
      PROVE  MethodInv'
  <2>1. builder'.method = builder.method
    BY <1>4, DeliverBuilder
  <2>2. requests' = requests /\ fed'.msg = fed.msg /\ fed.item \in 1..Len(Data)
        /\ fed'.item \in {fed.item, fed.item + 1} /\ fed.msg \in DOMAIN requests
    BY <1>4, DeliverEffect
  <2>3. Current' = Current
    BY <1>1, <2>2, InAsked DEF Current
  <2> QED
    BY <1>3, <2>1, <2>2, <2>3
<1>5. ASSUME onHeadersComplete \/ onMessageBody
      PROVE  MethodInv'
  <2>1. PICK k \in {1, 2} : Due(Len(Data) + k)
    BY <1>5 DEF onHeadersComplete, onMessageBody
  <2>2. NextItem /\ requests' = requests /\ fed.msg \in DOMAIN requests
    BY <1>5, <2>1 DEF onHeadersComplete, onMessageBody, sent, Due
  <2>3. fed.item = Len(Data) + k /\ fed'.msg = fed.msg /\ fed'.item = Len(Data) + k + 1
    BY <2>1, <2>2, NextItemEffect
  <2>4. Current' = Current
    BY <2>2, <2>3, InAsked DEF Current
  <2>5. builder'.method = builder.method
    BY <1>5 DEF onHeadersComplete, onMessageBody, OnHeadersComplete, Stop, BuilderFields
  <2> QED
    BY <1>3, <2>2, <2>4, <2>5
<1>6. CASE onMessageComplete
  <2>1. /\ Due(Len(Data) + 3) /\ fed' = [msg |-> fed.msg + 1, item |-> 0, from |-> 0]
        /\ requests' = requests /\ builder' = builder
    BY <1>6 DEF onMessageComplete, sent
  <2>2. fed.item = Len(Data) + 3 /\ fed.msg \in DOMAIN requests
    BY <2>1 DEF Due
  <2>3. fed'.msg = fed.msg + 1 /\ fed'.item = 0 /\ fed.item # 0
    BY <2>1, <2>2, InAsked
  <2>4. Current' = Current
    BY <1>1, <2>3 DEF Current
  <2> QED
    BY <1>3, <2>1, <2>4
<1>7. CASE BuildRequest
  <2>1. requests' = requests /\ fed' = fed /\ builder'.method = builder.method
    BY <1>7, BuildEffect
  <2> QED
    BY <1>3, <2>1 DEF Current
<1> QED
  BY <1>2, <1>4, <1>5, <1>6, <1>7, Steps DEF OtherStep

LEMMA ReaderStep ==
  ASSUME FedInv, DOMAIN builder = BuilderFields, ReaderInv, Next
  PROVE  ReaderInv'
<1> DEFINE Promised(b) == hasContentLength(b.headers) =>
                            b.body_reader = Reader(getContentLength(b.headers))
<1>1. ASSUME built' = built, builder'.body_reader = builder.body_reader,
             mParseState' \notin {"HEADERS_COMPLETE", "COMPLETE"}
      PROVE  ReaderInv'
  BY <1>1 DEF ReaderInv
<1>2. CASE onMessageBegin
  <2>1. built' = built /\ mParseState' = "IN_PROGRESS"
        /\ builder'.body_reader = builder.body_reader
    BY <1>2 DEF onMessageBegin, BuilderFields
  <2> QED
    BY <1>1, <2>1
<1>3. ASSUME NEW n \in Nat, NEW more \in BOOLEAN, Deliver(n, more)
      PROVE  ReaderInv'
  <2>1. built' = built /\ mParseState' \notin {"HEADERS_COMPLETE", "COMPLETE"}
    BY <1>3, DeliverEffect
  <2>2. builder'.body_reader = builder.body_reader
    BY <1>3, DeliverBuilder
  <2> QED
    BY <1>1, <2>1, <2>2
<1>4. CASE onHeadersComplete
  <2>1. built' = built
    BY <1>4 DEF onHeadersComplete
  <2>2. CASE OnHeadersComplete(builder).body_reader = Reader(Thrown)
    <3>1. outcome' = "thrown" /\ builder' = builder
      BY <1>4, <2>2 DEF onHeadersComplete, Stop
    <3> QED
      BY <2>1, <3>1 DEF ReaderInv
  <2>3. CASE OnHeadersComplete(builder).body_reader # Reader(Thrown)
    <3>1. builder' = OnHeadersComplete(builder)
      BY <1>4, <2>3 DEF onHeadersComplete
    <3>2. CASE hasContentLength(builder.headers)
      <4>1. builder' = [builder EXCEPT !.body_reader = Reader(getContentLength(builder.headers))]
        BY <3>1, <3>2 DEF OnHeadersComplete
      <4>2. builder'.headers = builder.headers
            /\ builder'.body_reader = Reader(getContentLength(builder.headers))
        BY <4>1 DEF BuilderFields
      <4>3. builder'.body_reader # NoReader
        BY <4>2 DEF Reader, NoReader
      <4> QED
        BY <4>2, <4>3 DEF ReaderInv
    <3>3. CASE ~hasContentLength(builder.headers)
      <4>1. builder' = builder
        BY <3>1, <3>3 DEF OnHeadersComplete
      <4> QED
        BY <2>1, <3>3, <4>1 DEF ReaderInv
    <3> QED
      BY <3>2, <3>3
  <2> QED
    BY <2>2, <2>3
<1>5. CASE onMessageBody
  <2>1. Due(Len(Data) + 2) /\ built' = built /\ builder' = builder /\ mParseState' = mParseState
    BY <1>5 DEF onMessageBody, parserVars
  <2>2. outcome = "running"
    BY <2>1 DEF Due
  <2> QED
    BY <2>1, <2>2 DEF ReaderInv
<1>6. CASE onMessageComplete
  <2>1. Due(Len(Data) + 3) /\ built' = built /\ builder' = builder
    BY <1>6 DEF onMessageComplete
  <2>2. outcome = "running" /\ fed.item = Len(Data) + 3 /\ fed.msg \in DOMAIN requests
    BY <2>1 DEF Due
  <2>3. mParseState = "HEADERS_COMPLETE"
    BY <2>2, InAsked DEF FedInv
  <2> QED
    BY <2>1, <2>2, <2>3 DEF ReaderInv
<1>7. CASE BuildRequest
  <2>1. outcome = "running" /\ built = NotBuilt
        /\ mParseState \in {"HEADERS_COMPLETE", "COMPLETE"}
    BY <1>7, BuildEffect
  <2>2. CASE builder' = builder /\ built' = built /\ outcome' = "thrown"
    BY <2>2 DEF ReaderInv
  <2>3. CASE built' # NotBuilt /\ getContentLength(builder.headers) # Thrown
             /\ builder'.body_reader = builder.body_reader
    <3>1. hasContentLength(builder.headers)
      BY <2>3 DEF getContentLength
    <3>2. builder.body_reader # NoReader
      BY <2>1, <3>1 DEF ReaderInv, Reader, NoReader
    <3> QED
      BY <2>3, <3>2 DEF ReaderInv
  <2> QED
    BY <1>7, <2>2, <2>3, BuildEffect
<1> QED
  BY <1>2, <1>3, <1>4, <1>5, <1>6, <1>7, Steps DEF OtherStep

\* A step that is no BuildRequest leaves what was built.
LEMMA OnlyBuildRequestBuilds ==
  ASSUME FedInv, Next, ~BuildRequest
  PROVE  built' = built /\ requests' = requests
<1>1. CASE OtherStep
  BY <1>1 DEF OtherStep, onMessageBegin, onHeadersComplete, onMessageBody, onMessageComplete,
              sent
<1>2. ASSUME NEW n \in Nat, NEW more \in BOOLEAN, Deliver(n, more)
      PROVE  built' = built /\ requests' = requests
  BY <1>2, DeliverEffect
<1> QED
  BY <1>1, <1>2, Steps

LEMMA GuessedMethod ==
  /\ \A asked \in {"GET", "POST"} : Guess(asked) = asked
  /\ \A asked : Head(asked) = "P" => Guess(asked) = "POST"
<1>1. MethodOfLetter["G"] = "GET" /\ MethodOfLetter["P"] = "POST"
  BY DEF MethodOfLetter
<1> QED
  BY <1>1, LettersAssumption DEF Guess

LEMMA MethodAsAskedStep ==
  ASSUME FedInv, DOMAIN builder = BuilderFields, MethodInv, MethodAsAsked, Next
  PROVE  MethodAsAsked'
<1>1. CASE ~BuildRequest
  BY <1>1, OnlyBuildRequestBuilds DEF MethodAsAsked
<1>2. CASE BuildRequest
  <2>1. requests' = requests /\ Current \in 1..Len(requests)
    BY <1>2, BuildEffect
  <2>2. CASE built' = built
    BY <2>1, <2>2 DEF MethodAsAsked
  <2>3. CASE built'.msg = Current /\ built'.method = builder.method /\ builder.method # None
    <3> DEFINE asked == requests[Current].method
    <3>1. builder.method \in {"GET", "POST"}
      BY <2>3 DEF MethodInv
    <3>2. Guess(asked) \in {"GET", "POST"} => builder.method = Guess(asked)
      BY <2>1 DEF MethodInv
    <3>3. asked \in {"GET", "POST"} => builder.method = asked
      BY <3>2, GuessedMethod
    <3>4. Head(asked) = "P" => builder.method = "POST"
      BY <3>2, GuessedMethod
    <3>5. requests'[built'.msg].method = asked
      BY <2>1, <2>3
    <3> HIDE DEF asked
    <3> QED
      BY <2>3, <3>1, <3>3, <3>4, <3>5 DEF MethodAsAsked
  <2> QED
    BY <1>2, <2>2, <2>3, BuildEffect
<1> QED
  BY <1>1, <1>2

\* What HeadersAsSent says of a request that is built, and of one thrown out.
Uncut(msg) == \A c \in cut : c[1] <= msg => c[2] = 1
BuiltAsSent ==
  built # NotBuilt /\ Uncut(built.msg) =>
    /\ AsSent(built.headers, Places(built.msg))
    /\ \A p \in LengthPlaces(Places(built.msg)) : built.body = Reader(stoi(Value(p)))
ThrownForLength ==
  outcome = "thrown" /\ mParseState = "HEADERS_COMPLETE"
    /\ builder.body_reader = NoReader /\ Uncut(fed.msg) =>
      \A p \in LengthPlaces(Places(fed.msg)) : stoi(Value(p)) = Thrown

LEMMA HeadersAsSentParts == HeadersAsSent <=> BuiltAsSent /\ ThrownForLength
BY DEF HeadersAsSent, BuiltAsSent, ThrownForLength, Uncut

LEMMA BuiltAsSentStep ==
  ASSUME FedInv, DOMAIN builder = BuilderFields, HeaderInv, ReaderInv, BuiltAsSent, Next
  PROVE  BuiltAsSent'
<1>1. requests' = requests /\ cut \subseteq cut'
  <2>1. CASE OtherStep
    BY <2>1, OtherEffect
  <2> QED
    BY <2>1, DeliverEffect, Steps
<1>2. ASSUME built' = built PROVE BuiltAsSent'
  <2> SUFFICES ASSUME built' # NotBuilt, \A c \in cut' : c[1] <= built'.msg => c[2] = 1
               PROVE  /\ AsSent(built.headers, Places(built.msg))'
                      /\ \A p \in LengthPlaces(Places(built.msg))' :
                           built'.body = Reader(stoi(Value(p)'))
    BY DEF BuiltAsSent, Uncut
  <2>1. built # NotBuilt /\ Uncut(built.msg)
    BY <1>1, <1>2 DEF Uncut
  <2>2. /\ AsSent(built.headers, Places(built.msg))
        /\ \A p \in LengthPlaces(Places(built.msg)) : built.body = Reader(stoi(Value(p)))
    BY <2>1 DEF BuiltAsSent
  <2> QED
    BY <1>1, <1>2, <2>2, Restated
<1>3. ASSUME BuildRequest, built' # NotBuilt PROVE BuiltAsSent'
  <2> SUFFICES ASSUME \A c \in cut' : c[1] <= built'.msg => c[2] = 1
               PROVE  /\ AsSent(built.headers, Places(built.msg))'
                      /\ \A p \in LengthPlaces(Places(built.msg))' :
                           built'.body = Reader(stoi(Value(p)'))
    BY DEF BuiltAsSent, Uncut
  <2>1. /\ outcome = "running" /\ built = NotBuilt /\ cut' = cut /\ fed.from = 0
        /\ mParseState \in {"HEADERS_COMPLETE", "COMPLETE"}
        /\ fed.item = 0 \/ (fed.msg \in DOMAIN requests /\ fed.item > Len(Data))
        /\ built'.msg = Current /\ built'.headers = builder.headers
        /\ built'.body = builder.body_reader
    BY <1>3, BuildEffect, OtherEffect DEF OtherStep
  <2>2. /\ AsSent(builder.headers, Places(Current))
        /\ \A p \in LengthPlaces(Places(Current)) :
             hasContentLength(builder.headers)
             /\ getContentLength(builder.headers) = stoi(Value(p))
    BY <2>1, AtEnd
  <2>3. \A p \in LengthPlaces(Places(Current)) : builder.body_reader = Reader(stoi(Value(p)))
    BY <2>1, <2>2 DEF ReaderInv
  <2> QED
    BY <1>1, <2>1, <2>2, <2>3, Restated
<1>4. ASSUME built' = NotBuilt PROVE BuiltAsSent'
  BY <1>4 DEF BuiltAsSent
<1> QED
  BY <1>2, <1>3, <1>4, OnlyBuildRequestBuilds

LEMMA ThrownForLengthStep ==
  ASSUME FedInv, DOMAIN builder = BuilderFields, HeaderInv, ReaderInv, Next
  PROVE  ThrownForLength'
<1> SUFFICES ASSUME outcome' = "thrown", mParseState' = "HEADERS_COMPLETE",
                    builder'.body_reader = NoReader,
                    \A c \in cut' : c[1] <= fed'.msg => c[2] = 1
             PROVE  \A p \in LengthPlaces(Places(fed.msg))' : stoi(Value(p)') = Thrown
  BY DEF ThrownForLength, Uncut
<1>1. OtherStep
  BY DeliverEffect, Steps
<1>2. requests' = requests /\ cut' = cut /\ fed.from = 0 /\ outcome = "running"
  BY <1>1, OtherEffect
<1>3. SUFFICES \A p \in LengthPlaces(Places(fed'.msg)) : stoi(Value(p)) = Thrown
  BY <1>2, Restated
<1>4. ASSUME fed'.msg = fed.msg, fed.msg \in DOMAIN requests, fed.item > Len(Data),
             builder.body_reader = NoReader,
             NEW p \in LengthPlaces(Places(fed'.msg))
      PROVE  hasContentLength(builder.headers)
             /\ getContentLength(builder.headers) = stoi(Value(p)) /\ built = NotBuilt
  <2>1. built = NotBuilt
    BY <1>4 DEF ReaderInv
  <2>2. Current = fed.msg
    BY <1>4, InAsked DEF Current
  <2> QED
    BY <1>2, <1>4, <2>1, <2>2, AtEnd
<1>5. CASE onHeadersComplete
  <2>1. Due(Len(Data) + 1) /\ NextItem
    BY <1>5 DEF onHeadersComplete
  <2>2. fed.msg \in DOMAIN requests /\ fed.item > Len(Data) /\ fed'.msg = fed.msg
    BY <2>1, NextItemEffect, InAsked
  <2>3. OnHeadersComplete(builder).body_reader = Reader(Thrown) /\ builder' = builder
    BY <1>2, <1>5 DEF onHeadersComplete, Stop
  <2>4. ASSUME hasContentLength(builder.headers)
        PROVE  getContentLength(builder.headers) = Thrown
    <3>1. OnHeadersComplete(builder)
            = [builder EXCEPT !.body_reader = Reader(getContentLength(builder.headers))]
      BY <2>4 DEF OnHeadersComplete
    <3>2. Reader(getContentLength(builder.headers)) = Reader(Thrown)
      BY <2>3, <3>1 DEF BuilderFields
    <3> QED
      BY <3>2 DEF Reader
  <2> QED
    BY <1>4, <2>2, <2>3, <2>4
<1>6. CASE onMessageBody
  <2>1. Due(Len(Data) + 2) /\ NextItem /\ builder' = builder /\ mParseState' = mParseState
    BY <1>6 DEF onMessageBody, parserVars
  <2>2. fed.msg \in DOMAIN requests /\ fed.item > Len(Data) /\ fed'.msg = fed.msg
    BY <2>1, NextItemEffect, InAsked
  <2> QED
    BY <1>2, <1>4, <2>1, <2>2 DEF ReaderInv, Reader, NoReader
<1>7. CASE BuildRequest
  <2>1. /\ mParseState = "HEADERS_COMPLETE" /\ fed' = fed /\ builder' = builder
        /\ fed.item = 0 \/ (fed.msg \in DOMAIN requests /\ fed.item > Len(Data))
    BY <1>2, <1>7, BuildEffect
  <2>2. fed.msg \in DOMAIN requests /\ fed.item > Len(Data)
    BY <2>1 DEF FedInv
  <2> QED
    BY <1>2, <1>4, <2>1, <2>2 DEF ReaderInv, Reader, NoReader
<1>8. ~onMessageBegin /\ ~onMessageComplete
  BY DEF onMessageBegin, onMessageComplete
<1> QED
  BY <1>1, <1>5, <1>6, <1>7, <1>8 DEF OtherStep

-----------------------------------------------------------------------------

LEMMA InitIInv == Init => IInv
<1> SUFFICES ASSUME Init PROVE IInv
  OBVIOUS
<1>1. requests \in Seq(Request) /\ Len(requests) \in Nat
  BY ExchangesAssumption DEF Init
<1>2. fed.msg = 1 /\ fed.item = 0 /\ fed.from = 0 /\ Current = 0
      /\ fed \in [msg : 1..Len(requests) + 1, item : Nat, from : Nat]
  BY <1>1 DEF Init, Current
<1>3. Seen = {}
  <2>1. ASSUME NEW p \in Seen PROVE FALSE
    <3>1. p \in Places(Len(requests)) /\ (p[1] < 1 \/ (p[1] = 1 /\ 2 * p[2] + 1 < 0))
      BY <1>2, <2>1 DEF Seen, SeenBefore
    <3>2. p[1] \in 1..Len(requests) /\ p[2] \in DOMAIN requests[p[1]].headers
      BY <1>1, <3>1, PlaceShape
    <3>3. requests[p[1]] \in Request
      BY <1>1, <3>2
    <3>4. p[2] \in Nat
      BY <3>2, <3>3, RequestShape
    <3> QED
      BY <1>1, <3>1, <3>2, <3>4
  <2> QED
    BY <2>1
<1>4. FedInv
  BY <1>1, <1>2, <1>3, FS_EmptySet DEF FedInv, Init
<1>5. builder = NewBuilder /\ built = NotBuilt /\ cut = {} /\ mParseState = "INITED"
      /\ outcome = "running"
  BY DEF Init
<1>6. DOMAIN builder = BuilderFields /\ builder.method = None /\ builder.headers = NoHeaders
  BY <1>5 DEF NewBuilder, BuilderFields
<1>7. MethodInv
  BY <1>2, <1>6 DEF MethodInv
<1>8. AsSent(NoHeaders, {})
  BY FS_EmptySet DEF AsSent, NoHeaders
<1>9. HeaderInv
  BY <1>2, <1>3, <1>6, <1>8 DEF HeaderInv, NoHeaders
<1>10. ReaderInv /\ MethodAsAsked /\ HeadersAsSent
  BY <1>5 DEF ReaderInv, MethodAsAsked, HeadersAsSent
<1> QED
  BY <1>4, <1>6, <1>7, <1>9, <1>10 DEF IInv

LEMMA StepIInv == IInv /\ [Next]_vars => IInv'
<1> SUFFICES ASSUME IInv, [Next]_vars PROVE IInv'
  OBVIOUS
<1>1. CASE Next
  <2>1. FedInv'
    BY <1>1, FedStep DEF IInv
  <2>2. HeaderInv' /\ DOMAIN builder' = BuilderFields
    BY <1>1, HeaderStep DEF IInv
  <2>3. MethodInv' /\ ReaderInv'
    BY <1>1, MethodStep, ReaderStep DEF IInv
  <2>4. MethodAsAsked'
    BY <1>1, MethodAsAskedStep DEF IInv
  <2>5. HeadersAsSent'
    <3>1. BuiltAsSent' /\ ThrownForLength'
      BY <1>1, HeadersAsSentParts, BuiltAsSentStep, ThrownForLengthStep DEF IInv
    <3>2. BuiltAsSent' /\ ThrownForLength' => HeadersAsSent'
      BY DEF HeadersAsSent, BuiltAsSent, ThrownForLength, Uncut
    <3> QED
      BY <3>1, <3>2
  <2> QED
    BY <2>1, <2>2, <2>3, <2>4, <2>5 DEF IInv, BuilderFields
<1>2. CASE UNCHANGED vars
  <2>1. /\ requests' = requests /\ fed' = fed /\ mParseState' = mParseState
        /\ mCurrentHeaderField' = mCurrentHeaderField /\ builder' = builder
        /\ outcome' = outcome /\ built' = built /\ cut' = cut
    BY <1>2 DEF vars, sent, parserVars
  <2>2. Current' = Current /\ Data' = Data /\ Asked' = Asked /\ Seen' = Seen
    BY <2>1, Restated DEF Current, Data, Asked, Seen
  <2>3. FedInv'
    BY <2>1, <2>2 DEF IInv, FedInv
  <2>4. MethodInv' /\ MethodAsAsked' /\ ReaderInv' /\ (DOMAIN builder = BuilderFields)'
    BY <2>1, <2>2 DEF IInv, MethodInv, MethodAsAsked, ReaderInv, BuilderFields
  <2>5. HeaderInv'
    BY <2>1, <2>2, HeadersStay DEF IInv, HeaderInv
  <2>6. BuiltAsSent /\ ThrownForLength
    BY HeadersAsSentParts DEF IInv
  <2>7. BuiltAsSent'
    BY <2>1, <2>6, Restated DEF BuiltAsSent, Uncut
  <2>8. ThrownForLength'
    BY <2>1, <2>6, Restated DEF ThrownForLength, Uncut
  <2>9. BuiltAsSent' /\ ThrownForLength' => HeadersAsSent'
    BY DEF HeadersAsSent, BuiltAsSent, ThrownForLength, Uncut
  <2> QED
    BY <2>3, <2>4, <2>5, <2>7, <2>8, <2>9 DEF IInv, BuilderFields
<1> QED
  BY <1>1, <1>2

\* The inductive invariant, for any requests, routes and lookup: where the
\* callbacks stand, what the builder has been told so far, and what a request
\* built of it says.
THEOREM Invariance == Spec => []IInv
BY InitIInv, StepIInv, PTL DEF Spec

\* A request has the method asked for exactly if that is GET or POST, and one
\* that starts with P is POST: on_message_begin takes the method over when one
\* letter was read (http_request_parser.cpp:88).
THEOREM MethodIsAsked == Spec => []MethodAsAsked
<1>1. IInv => MethodAsAsked
  BY DEF IInv
<1> QED
  BY <1>1, Invariance, PTL

\* Where names and values came whole, AppendHeader has put every value sent so
\* far on the connection behind those of its name, and the body promises the
\* last length; a request is thrown out for its length only if no int holds it.
THEOREM HeadersAreSent == Spec => []HeadersAsSent
<1>1. IInv => HeadersAsSent
  BY DEF IInv
<1> QED
  BY <1>1, Invariance, PTL
-----------------------------------------------------------------------------
(* Folds.  A fold over a sequence is a chosen function on the sets of its   *)
(* places; it exists by induction on the length of the sequence.            *)

NatLess == {ss \in Nat \X Nat : ss[1] < ss[2]}

LEMMA LeastNatural ==
  ASSUME NEW S, S \subseteq Nat, S # {}
  PROVE  \E x \in S : \A y \in S : x <= y
<1>1. IsWellFoundedOn(NatLess, Nat)
  BY NatLessThanWellFounded DEF OpToRel, NatLess
<1>2. PICK x \in S : \A y \in S : <<y, x>> \notin NatLess
  BY <1>1, WFMin
<1>3. ASSUME NEW y \in S PROVE x <= y
  <2>1. ~(<<y, x>>[1] < <<y, x>>[2])
    BY <1>2 DEF NatLess
  <2> QED
    BY <2>1
<1> QED
  BY <1>3

LEMMA Induction ==
  ASSUME NEW S, 0 \in S, \A n \in Nat : n \in S => n + 1 \in S
  PROVE  Nat \subseteq S
<1>1. SUFFICES ASSUME Nat \ S # {} PROVE FALSE
  OBVIOUS
<1>2. PICK m \in Nat \ S : \A y \in Nat \ S : m <= y
  BY <1>1, LeastNatural
<1>3. m # 0
  OBVIOUS
<1>4. m - 1 \in Nat \ S
  BY <1>3
<1> QED
  BY <1>2, <1>4

LEMMA Greatest ==
  ASSUME NEW S, S \subseteq Int, NEW m \in S, \A x \in S : x <= m
  PROVE  Max(S) = m
<1>1. \E x \in S : \A y \in S : x >= y
  OBVIOUS
<1>2. PICK x : x = Max(S)
  OBVIOUS
<1>3. x \in S /\ \A y \in S : x >= y
  BY <1>1, <1>2 DEF Max
<1> QED
  BY <1>2, <1>3

LEMMA LastPlace ==
  ASSUME NEW n \in Nat, NEW k \in 1..n
  PROVE  /\ 1..k # {} /\ 1..k \in SUBSET (1..n)
         /\ Max(1..k) = k /\ (1..k) \ {k} = 1..k - 1
<1>1. Max(1..k) = k
  <2>1. 1..k \subseteq Int /\ k \in 1..k /\ \A x \in 1..k : x <= k
    OBVIOUS
  <2> QED
    BY <2>1, Greatest
<1> QED
  BY <1>1

\* The greatest of some places is one of them.
LEMMA GreatestOfSome ==
  ASSUME NEW n \in Nat, NEW t \in SUBSET (1..n), t # {}
  PROVE  Max(t) \in 1..n
<1> DEFINE S == {m \in Nat : \A u \in SUBSET (1..m) : u # {} => Max(u) \in u}
<1>1. 0 \in S
  <2>1. \A u \in SUBSET (1..0) : u = {}
    OBVIOUS
  <2> QED
    BY <2>1
<1>2. ASSUME NEW m \in Nat, m \in S PROVE m + 1 \in S
  <2>1. SUFFICES ASSUME NEW u \in SUBSET (1..m + 1), u # {} PROVE Max(u) \in u
    OBVIOUS
  <2>2. CASE m + 1 \in u
    <3>1. u \subseteq Int /\ \A x \in u : x <= m + 1
      OBVIOUS
    <3> QED
      BY <2>2, <3>1, Greatest
  <2>3. CASE m + 1 \notin u
    <3>1. u \in SUBSET (1..m)
      BY <2>3
    <3> QED
      BY <1>2, <2>1, <3>1
  <2> QED
    BY <2>2, <2>3
<1> HIDE DEF S
<1>3. n \in S
  BY <1>1, <1>2, Induction
<1>4. Max(t) \in t
  BY <1>3 DEF S
<1> QED
  BY <1>4

\* A fold from c on, whose step at place k makes F[<<v, k>>] of the value v.
FoldSteps(c, F, n, h) ==
  \A t \in SUBSET (1..n) : h[t] = IF t = {} THEN c ELSE F[<<h[t \ {Max(t)}], Max(t)>>]
FoldExists(A, c, F, n) == \E h \in [SUBSET (1..n) -> A] : FoldSteps(c, F, n, h)

LEMMA StepsExist ==
  ASSUME NEW A, NEW c \in A, NEW n \in Nat, NEW F \in [A \X (1..n) -> A]
  PROVE  FoldExists(A, c, F, n)
<1> DEFINE S == {m \in Nat : m <= n => FoldExists(A, c, F, m)}
<1>1. 0 \in S
  <2> DEFINE h == [t \in SUBSET (1..0) |-> c]
  <2>1. \A t \in SUBSET (1..0) : t = {}
    OBVIOUS
  <2>2. h \in [SUBSET (1..0) -> A] /\ FoldSteps(c, F, 0, h)
    BY <2>1 DEF FoldSteps
  <2> HIDE DEF h
  <2>3. FoldExists(A, c, F, 0)
    BY <2>2 DEF FoldExists
  <2> QED
    BY <2>3
<1>2. ASSUME NEW m \in Nat, m \in S PROVE m + 1 \in S
  <2>1. SUFFICES ASSUME m + 1 <= n PROVE FoldExists(A, c, F, m + 1)
    OBVIOUS
  <2>2. PICK g \in [SUBSET (1..m) -> A] : FoldSteps(c, F, m, g)
    <3>1. FoldExists(A, c, F, m)
      BY <1>2, <2>1
    <3> QED
      BY <3>1 DEF FoldExists
  <2> DEFINE h == [t \in SUBSET (1..m + 1) |->
                     IF m + 1 \in t THEN F[<<g[t \ {m + 1}], m + 1>>] ELSE g[t]]
  <2>3. \A t \in SUBSET (1..m + 1) : t \ {m + 1} \in SUBSET (1..m)
    OBVIOUS
  <2>4. \A t \in SUBSET (1..m + 1) : m + 1 \notin t => t \in SUBSET (1..m)
    OBVIOUS
  <2>5. \A u \in SUBSET (1..m) : F[<<g[u], m + 1>>] \in A
    <3>1. m + 1 \in 1..n
      BY <2>1
    <3>2. \A u \in SUBSET (1..m) : <<g[u], m + 1>> \in A \X (1..n)
      BY <3>1
    <3> QED
      BY <3>2
  <2>6. h \in [SUBSET (1..m + 1) -> A]
    BY <2>3, <2>4, <2>5
  <2>7. ASSUME NEW t \in SUBSET (1..m + 1)
        PROVE  h[t] = IF t = {} THEN c ELSE F[<<h[t \ {Max(t)}], Max(t)>>]
    <3>1. CASE m + 1 \in t
      <4>1. t \subseteq Int /\ \A x \in t : x <= m + 1
        OBVIOUS
      <4>2. Max(t) = m + 1
        BY <3>1, <4>1, Greatest
      <4>3. h[t \ {m + 1}] = g[t \ {m + 1}]
        BY <2>3
      <4>4. h[t] = F[<<g[t \ {m + 1}], m + 1>>]
        BY <3>1
      <4> QED
        BY <3>1, <4>2, <4>3, <4>4
    <3>2. CASE m + 1 \notin t
      <4>1. h[t] = g[t] /\ t \in SUBSET (1..m)
        BY <3>2, <2>4
      <4>2. g[t] = IF t = {} THEN c ELSE F[<<g[t \ {Max(t)}], Max(t)>>]
        BY <2>2, <4>1 DEF FoldSteps
      <4>3. h[t \ {Max(t)}] = g[t \ {Max(t)}]
        <5>1. m + 1 \notin t \ {Max(t)} /\ t \ {Max(t)} \in SUBSET (1..m + 1)
          BY <3>2
        <5> QED
          BY <5>1
      <4> QED
        BY <4>1, <4>2, <4>3
    <3> QED
      BY <3>1, <3>2
  <2>8. FoldSteps(c, F, m + 1, h)
    <3> HIDE DEF h
    <3> QED
      BY <2>7 DEF FoldSteps
  <2> HIDE DEF h
  <2> QED
    BY <2>6, <2>8 DEF FoldExists
<1> HIDE DEF S
<1>3. Nat \subseteq S
  BY <1>1, <1>2, Induction
<1> QED
  BY <1>3 DEF S

\* The values of a fold from place to place.
Run(c, F, n, H) == H[0] = c /\ \A k \in 1..n : H[k] = F[<<H[k - 1], k>>]

RunBy(A, c, F, n, g) ==
  g[{}] = c /\ \A k \in 1..n : g[1..k - 1] \in A => g[1..k] = F[<<g[1..k - 1], k>>]

RunsTo(A, c, F, n, r) == \E H \in [0..n -> A] : Run(c, F, n, H) /\ H[n] = r

LEMMA RunOfSteps ==
  ASSUME NEW A, NEW c \in A, NEW n \in Nat, NEW F \in [A \X (1..n) -> A],
         NEW g, RunBy(A, c, F, n, g)
  PROVE  RunsTo(A, c, F, n, g[1..n])
<1> DEFINE H == [k \in 0..n |-> g[1..k]]
           S == {k \in Nat : k <= n => g[1..k] \in A}
<1>1. 0 \in S /\ H[0] = c
  <2>1. 1..0 = {}
    OBVIOUS
  <2> QED
    BY <2>1 DEF RunBy
<1>2. ASSUME NEW k \in Nat, k \in S PROVE k + 1 \in S
  <2>1. SUFFICES ASSUME k + 1 <= n PROVE g[1..k + 1] \in A
    OBVIOUS
  <2>2. k + 1 \in 1..n /\ (k + 1) - 1 = k /\ g[1..k] \in A
    BY <1>2, <2>1
  <2>3. g[1..k + 1] = F[<<g[1..k], k + 1>>]
    BY <2>2 DEF RunBy
  <2>4. <<g[1..k], k + 1>> \in A \X (1..n)
    BY <2>2
  <2> QED
    BY <2>3, <2>4
<1>3. Nat \subseteq S
  <2> HIDE DEF S
  <2> QED
    BY <1>1, <1>2, Induction
<1>4. \A k \in 0..n : g[1..k] \in A
  BY <1>3
<1>5. H \in [0..n -> A]
  BY <1>4
<1>6. ASSUME NEW k \in 1..n PROVE H[k] = F[<<H[k - 1], k>>]
  <2>1. k - 1 \in 0..n /\ k \in 0..n
    OBVIOUS
  <2>2. g[1..k] = F[<<g[1..k - 1], k>>]
    BY <1>4, <2>1 DEF RunBy
  <2> QED
    BY <2>1, <2>2
<1>7. H[n] = g[1..n]
  OBVIOUS
<1> HIDE DEF H
<1> QED
  BY <1>1, <1>5, <1>6, <1>7 DEF Run, RunsTo

-----------------------------------------------------------------------------
(* Characters of a URL. *)

LEMMA DigitNames ==
  ASSUME NEW c, IS_NUM(c)
  PROVE  c \in {"0", "1", "2", "3", "4", "5", "6", "7", "8", "9"}
<1>1. PICK i \in 1..10 : Digits[i] = c
  BY DEF IS_NUM, DigitSet, Range, Digits
<1>2. i \in {1, 2, 3, 4, 5, 6, 7, 8, 9, 10}
  OBVIOUS
<1> QED
  BY <1>1, <1>2 DEF Digits

Alphabet == {"a", "b", "c", "d", "e", "f", "g", "h", "i", "j", "k", "l", "m",
             "n", "o", "p", "q", "r", "s", "t", "u", "v", "w", "x", "y", "z",
             "A", "B", "C", "D", "E", "F", "G", "H", "I", "J", "K", "L", "M",
             "N", "O", "P", "Q", "R", "S", "T", "U", "V", "W", "X", "Y", "Z"}

LEMMA LetterNames ==
  ASSUME NEW c, IS_ALPHA(c)
  PROVE  c \in Alphabet
<1>1. PICK i \in 1..26 : Lowercase[i] = c \/ Uppercase[i] = c
  BY DEF IS_ALPHA, LetterSet, Range, Lowercase, Uppercase
<1>2. i \in {1, 2, 3, 4, 5, 6, 7, 8, 9, 10, 11, 12, 13, 14, 15, 16, 17, 18, 19, 20, 21, 22,
             23, 24, 25, 26}
  OBVIOUS
<1>3. CASE Lowercase[i] = c
  BY <1>2, <1>3 DEF Lowercase, Alphabet
<1>4. CASE Uppercase[i] = c
  BY <1>2, <1>4 DEF Uppercase, Alphabet
<1> QED
  BY <1>1, <1>3, <1>4

LEMMA NoStops ==
  /\ \A c : Visible(c) => c \notin UrlStops
  /\ \A c : IS_URL_CHAR(c) => c \notin UrlStops \cup {"?", "#"}
  /\ \A c \in {"/", "*", "?", "#", ":", "@"} : c \notin UrlStops
<1>1. ASSUME NEW c, Visible(c) PROVE c \notin UrlStops
  <2>1. CASE IS_NUM(c)
    <3>1. c \in {"0", "1", "2", "3", "4", "5", "6", "7", "8", "9"}
      BY <2>1, DigitNames
    <3> QED
      BY <3>1, Zenon DEF UrlStops, CR, LF, TAB, FF
  <2>2. CASE IS_ALPHA(c)
    <3>1. c \in Alphabet
      BY <2>2, LetterNames
    <3> QED
      BY <3>1, Zenon DEF UrlStops, CR, LF, TAB, FF, Alphabet
  <2>3. CASE c \in Punctuation
    BY <2>3, Zenon DEF UrlStops, CR, LF, TAB, FF, Punctuation
  <2> QED
    BY <1>1, <2>1, <2>2, <2>3 DEF Visible, IS_ALPHANUM
<1>2. \A c \in {"/", "*", "?", "#", ":", "@"} : c \notin UrlStops
  BY Zenon DEF UrlStops, CR, LF, TAB, FF
<1> QED
  BY <1>1, <1>2 DEF IS_URL_CHAR

LEMMA NoLetters ==
  \A c \in {"/", "*", "?", "#", ":", "@"} : ~IS_ALPHA(c)
BY LetterNames DEF Alphabet

LEMMA NoUserInfo ==
  \A c \in {"/", "?", "#"} : ~IS_USERINFO_CHAR(c) /\ ~IS_ALPHANUM(c)
<1>1. ASSUME NEW c \in {"/", "?", "#"} PROVE ~IS_ALPHANUM(c)
  <2>1. ~IS_NUM(c)
    BY DigitNames
  <2> QED
    BY <2>1, NoLetters DEF IS_ALPHANUM
<1> QED
  BY <1>1 DEF IS_USERINFO_CHAR, IS_MARK

\* The states of the scan.
ScanStates == UrlStates \cup {"s_dead", "s_req_spaces_before_url"}
Servers == {"s_req_server_start", "s_req_server", "s_req_server_with_at"}
Queries == {"s_req_query_string_start", "s_req_query_string"}
Fragments == {"s_req_fragment_start", "s_req_fragment"}

LEMMA StateStays ==
  ASSUME NEW s \in ScanStates, NEW c
  PROVE  parse_url_char(s, c) \in ScanStates
BY DEF parse_url_char, UrlStates, ScanStates

LEMMA DeadStays == \A c : parse_url_char("s_dead", c) = "s_dead"
BY DEF parse_url_char

\* What comes before the path.
LEMMA SchemaStates ==
  /\ \A s \in {"s_req_spaces_before_url", "s_req_schema"} : \A c :
       c \notin {"/", "*", ":"} => parse_url_char(s, c) \in {"s_req_schema", "s_dead"}
  /\ parse_url_char("s_req_schema", ":") = "s_req_schema_slash"
  /\ parse_url_char("s_req_schema_slash", "/") = "s_req_schema_slash_slash"
  /\ parse_url_char("s_req_schema_slash_slash", "/") = "s_req_server_start"
<1>1. ASSUME NEW s \in {"s_req_spaces_before_url", "s_req_schema"}, NEW c, c \notin {"/", "*", ":"}
      PROVE  parse_url_char(s, c) \in {"s_req_schema", "s_dead"}
  BY <1>1 DEF parse_url_char
<1>2. parse_url_char("s_req_schema", ":") = "s_req_schema_slash"
  BY NoStops, NoLetters DEF parse_url_char
<1>3. parse_url_char("s_req_schema_slash", "/") = "s_req_schema_slash_slash"
  BY NoStops DEF parse_url_char
<1>4. parse_url_char("s_req_schema_slash_slash", "/") = "s_req_server_start"
  BY NoStops DEF parse_url_char
<1> QED
  BY <1>1, <1>2, <1>3, <1>4

LEMMA ServerStates ==
  ASSUME NEW s \in Servers, NEW c, c \notin {"/", "?"}
  PROVE  parse_url_char(s, c) \in Servers \cup {"s_dead"}
BY DEF parse_url_char, Servers

\* The path and what follows it.
LEMMA PathStates ==
  /\ \A c \in {"/", "*"} : parse_url_char("s_req_spaces_before_url", c) = "s_req_path"
  /\ \A s \in Servers : parse_url_char(s, "/") = "s_req_path"
  /\ \A c : IS_URL_CHAR(c) => parse_url_char("s_req_path", c) = "s_req_path"
<1>1. ASSUME NEW c \in {"/", "*"} PROVE parse_url_char("s_req_spaces_before_url", c) = "s_req_path"
  BY NoStops, NoLetters DEF parse_url_char
<1>2. ASSUME NEW s \in Servers PROVE parse_url_char(s, "/") = "s_req_path"
  BY NoStops, NoUserInfo DEF parse_url_char, Servers
<1>3. ASSUME NEW c, IS_URL_CHAR(c) PROVE parse_url_char("s_req_path", c) = "s_req_path"
  BY <1>3, NoStops DEF parse_url_char
<1> QED
  BY <1>1, <1>2, <1>3

LEMMA QueryStates ==
  /\ \A s \in Servers \cup {"s_req_path"} : parse_url_char(s, "?") = "s_req_query_string_start"
  /\ \A s \in Queries : \A c :
       IS_URL_CHAR(c) \/ c = "?" => parse_url_char(s, c) = "s_req_query_string"
<1>1. ASSUME NEW s \in Servers PROVE parse_url_char(s, "?") = "s_req_query_string_start"
  BY NoStops, NoUserInfo DEF parse_url_char, Servers
<1>2. parse_url_char("s_req_path", "?") = "s_req_query_string_start"
  BY NoStops DEF parse_url_char, IS_URL_CHAR
<1>3. ASSUME NEW s \in Queries, NEW c, IS_URL_CHAR(c) \/ c = "?"
      PROVE  parse_url_char(s, c) = "s_req_query_string"
  BY <1>3, NoStops DEF parse_url_char, Queries
<1> QED
  BY <1>1, <1>2, <1>3

LEMMA FragmentStates ==
  /\ \A s \in Queries \cup {"s_req_path"} : parse_url_char(s, "#") = "s_req_fragment_start"
  /\ \A s \in Servers : parse_url_char(s, "#") = "s_dead"
  /\ \A s \in Fragments : \A c :
       IS_URL_CHAR(c) \/ c \in {"?", "#"} => parse_url_char(s, c) \in Fragments
<1>1. ~IS_URL_CHAR("#") /\ ~IS_USERINFO_CHAR("#")
  BY NoUserInfo DEF IS_URL_CHAR
<1>2. ASSUME NEW s \in Queries \cup {"s_req_path"}
      PROVE  parse_url_char(s, "#") = "s_req_fragment_start"
  BY <1>1, NoStops DEF parse_url_char, Queries
<1>3. ASSUME NEW s \in Servers PROVE parse_url_char(s, "#") = "s_dead"
  BY <1>1, NoStops DEF parse_url_char, Servers
<1>4. ASSUME NEW s \in Fragments, NEW c, IS_URL_CHAR(c) \/ c \in {"?", "#"}
      PROVE  parse_url_char(s, c) \in Fragments
  BY <1>4, NoStops DEF parse_url_char, Fragments
<1> QED
  BY <1>2, <1>3, <1>4

-----------------------------------------------------------------------------
(* A turn of the scan. *)

\* The structs of the loops: the port is set behind them.
UrlStruct == [port : {0}, field_set : SUBSET UrlFields,
              off : [UrlFields -> Nat], len : [UrlFields -> Nat]]
CutStates == [s : ScanStates, field : UrlFields \cup {"none"}, found_at : BOOLEAN, u : UrlStruct]

LEMMA NarrowRange ==
  /\ \A n \in Nat : Narrow(n) \in Nat /\ Narrow(n) <= UINT16_MAX /\ Narrow(n) <= n
  /\ \A n \in Nat : n <= UINT16_MAX => Narrow(n) = n
<1> DEFINE w == UINT16_MAX + 1
<1>1. w \in Nat /\ w > 1
  BY WidthAssumption
<1> HIDE DEF w
<1>2. \A n \in Nat : n % w \in Nat /\ n % w < w /\ n % w <= n
  BY <1>1
<1>3. \A n \in Nat : n < w => n % w = n
  BY <1>1
<1> QED
  BY <1>1, <1>2, <1>3, WidthAssumption DEF Narrow, w

\* What one character changes of a struct.
ExtendedTo(v, u, f, at, first) ==
  /\ v.off[f] = IF first THEN Narrow(at) ELSE u.off[f]
  /\ v.len[f] = IF first THEN 1 ELSE Narrow(u.len[f] + 1)
  /\ \A g \in UrlFields : g # f => v.off[g] = u.off[g] /\ v.len[g] = u.len[g]
  /\ v.field_set = IF first THEN u.field_set \cup {f} ELSE u.field_set

LEMMA ExtendedEffect ==
  ASSUME NEW u \in UrlStruct, NEW f \in UrlFields, NEW at \in Nat, NEW first \in BOOLEAN
  PROVE  Extended(u, f, at, first) \in UrlStruct
         /\ ExtendedTo(Extended(u, f, at, first), u, f, at, first)
<1> DEFINE off == IF first THEN [u.off EXCEPT ![f] = Narrow(at)] ELSE u.off
           len == [u.len EXCEPT ![f] = IF first THEN 1 ELSE Narrow(u.len[f] + 1)]
           fields == IF first THEN u.field_set \cup {f} ELSE u.field_set
           v == [port |-> 0, field_set |-> fields, off |-> off, len |-> len]
<1>1. u.port = 0 /\ u.field_set \in SUBSET UrlFields /\ u.off \in [UrlFields -> Nat]
      /\ u.len \in [UrlFields -> Nat]
  BY DEF UrlStruct
<1>2. Extended(u, f, at, first) = v
  BY <1>1 DEF Extended, UrlStruct
<1>3. off \in [UrlFields -> Nat]
  BY <1>1, NarrowRange
<1>4. len \in [UrlFields -> Nat]
  <2>1. u.len[f] + 1 \in Nat
    BY <1>1
  <2> QED
    BY <1>1, <2>1, NarrowRange
<1>5. v \in UrlStruct
  <2> HIDE DEF off, len
  <2> QED
    BY <1>1, <1>3, <1>4 DEF UrlStruct
<1>6. ExtendedTo(v, u, f, at, first)
  BY <1>1 DEF ExtendedTo
<1> QED
  BY <1>2, <1>5, <1>6

\* What a turn does, by the state it goes to.
Turned(next, acc, s, k) ==
  /\ next.s = s
  /\ s \notin DOMAIN FieldOfState => next.field = acc.field /\ next.u = acc.u
  /\ s \in DOMAIN FieldOfState =>
       /\ next.field = FieldOfState[s]
       /\ ExtendedTo(next.u, acc.u, FieldOfState[s], k - 1, FieldOfState[s] # acc.field)

LEMMA TurnEffect ==
  ASSUME NEW text, NEW acc \in CutStates, NEW k \in Nat, k > 0
  PROVE  /\ UrlCharacter(text, acc, k) \in CutStates
         /\ Turned(UrlCharacter(text, acc, k), acc, parse_url_char(acc.s, text[k]), k)
<1> DEFINE s == parse_url_char(acc.s, text[k])
           next == UrlCharacter(text, acc, k)
<1>1. /\ acc.s \in ScanStates /\ acc.field \in UrlFields \cup {"none"}
      /\ acc.found_at \in BOOLEAN /\ acc.u \in UrlStruct
  BY DEF CutStates
<1>2. s \in ScanStates
  BY <1>1, StateStays
<1>3. CASE s \notin DOMAIN FieldOfState
  <2>1. next = [acc EXCEPT !.s = s]
    BY <1>3 DEF UrlCharacter
  <2> HIDE DEF s, next
  <2> QED
    BY <1>1, <1>2, <1>3, <2>1 DEF CutStates, Turned, s, next
<1>4. CASE s \in DOMAIN FieldOfState
  <2> DEFINE field == FieldOfState[s]
             v == Extended(acc.u, field, k - 1, field # acc.field)
  <2>1. next = [s |-> s, field |-> field,
                found_at |-> acc.found_at \/ s = "s_req_server_with_at", u |-> v]
    BY <1>4 DEF UrlCharacter
  <2>2. field \in UrlFields
    BY <1>4 DEF FieldOfState, UrlFields
  <2>3. v \in UrlStruct /\ ExtendedTo(v, acc.u, field, k - 1, field # acc.field)
    <3>1. k - 1 \in Nat /\ (field # acc.field) \in BOOLEAN
      OBVIOUS
    <3> HIDE DEF field
    <3> QED
      BY <1>1, <2>2, <3>1, ExtendedEffect
  <2> HIDE DEF s, next, v
  <2>4. next \in CutStates
    BY <1>1, <1>2, <2>1, <2>2, <2>3 DEF CutStates
  <2> QED
    BY <1>4, <2>1, <2>3, <2>4 DEF Turned, s, next
<1> QED
  BY <1>3, <1>4

\* The loop of http_parser_parse_url, from character to character.
CutFrom(start, u) == [s |-> start, field |-> "none", found_at |-> FALSE, u |-> u]

LEMMA CutRuns ==
  ASSUME NEW n \in Nat, NEW text, DOMAIN text = 1..n, NEW start \in ScanStates, NEW u \in UrlStruct
  PROVE  \E H \in [0..n -> CutStates] :
           /\ H[0] = CutFrom(start, u) /\ H[n] = CutIntoFields(text, start, u)
           /\ \A k \in 1..n : H[k] = UrlCharacter(text, H[k - 1], k)
<1> DEFINE c == CutFrom(start, u)
           q == [i \in DOMAIN text |-> i]
           Table(g) == g = [t \in SUBSET (DOMAIN q) |->
                              IF t = {} THEN c
                              ELSE UrlCharacter(text, g[t \ {Max(t)}], q[Max(t)])]
           F == [x \in CutStates \X (1..n) |-> UrlCharacter(text, x[1], x[2])]
<1>1. CutIntoFields(text, start, u) = (CHOOSE g : Table(g))[DOMAIN q]
  BY Zenon DEF CutIntoFields, FoldLeftDomain, FoldLeft, MapThenFoldSet, CutFrom
<1>2. DOMAIN q = 1..n /\ \A i \in 1..n : q[i] = i
  OBVIOUS
<1> HIDE DEF q
<1>3. c \in CutStates
  BY DEF CutFrom, CutStates
<1>4. F \in [CutStates \X (1..n) -> CutStates]
  <2>1. ASSUME NEW x \in CutStates \X (1..n)
        PROVE  UrlCharacter(text, x[1], x[2]) \in CutStates
    <3>1. x[1] \in CutStates /\ x[2] \in Nat /\ x[2] > 0
      OBVIOUS
    <3> QED
      BY <3>1, TurnEffect
  <2> QED
    BY <2>1
<1>5. \A a \in CutStates, k \in 1..n : F[<<a, k>>] = UrlCharacter(text, a, k)
  OBVIOUS
<1> HIDE DEF c, F
<1>6. PICK h \in [SUBSET (1..n) -> CutStates] : FoldSteps(c, F, n, h)
  BY <1>3, <1>4, StepsExist DEF FoldExists
<1>7. Table(h)
  <2>1. ASSUME NEW t \in SUBSET (1..n)
        PROVE  h[t] = IF t = {} THEN c ELSE UrlCharacter(text, h[t \ {Max(t)}], q[Max(t)])
    <3>1. h[t] = IF t = {} THEN c ELSE F[<<h[t \ {Max(t)}], Max(t)>>]
      BY <1>6 DEF FoldSteps
    <3>2. ASSUME t # {}
          PROVE  F[<<h[t \ {Max(t)}], Max(t)>>] = UrlCharacter(text, h[t \ {Max(t)}], q[Max(t)])
      <4>1. Max(t) \in 1..n /\ h[t \ {Max(t)}] \in CutStates
        BY <3>2, GreatestOfSome
      <4> QED
        BY <1>2, <1>5, <4>1
    <3> QED
      BY <3>1, <3>2
  <2>2. h = [t \in SUBSET (1..n) |-> h[t]]
    OBVIOUS
  <2> QED
    BY <1>2, <2>1, <2>2, Zenon
<1>8. PICK g : g = (CHOOSE f : Table(f))
  OBVIOUS
<1>9. Table(g)
  BY <1>7, <1>8, Zenon
<1>10. \A t \in SUBSET (1..n) :
         g[t] = IF t = {} THEN c ELSE UrlCharacter(text, g[t \ {Max(t)}], q[Max(t)])
  BY <1>2, <1>9, Zenon
<1> HIDE DEF Table
<1>11. g[{}] = c
  BY <1>10
<1>12. ASSUME NEW k \in 1..n, g[1..k - 1] \in CutStates
       PROVE  g[1..k] = F[<<g[1..k - 1], k>>]
  <2>1. 1..k # {} /\ 1..k \in SUBSET (1..n) /\ Max(1..k) = k /\ (1..k) \ {k} = 1..k - 1
    BY LastPlace
  <2>2. g[1..k] = UrlCharacter(text, g[(1..k) \ {Max(1..k)}], q[Max(1..k)])
    BY <1>10, <2>1
  <2>3. g[1..k] = UrlCharacter(text, g[1..k - 1], k)
    BY <1>2, <2>1, <2>2
  <2> QED
    BY <1>5, <1>12, <2>3
<1>13. RunBy(CutStates, c, F, n, g)
  BY <1>11, <1>12 DEF RunBy
<1>14. PICK H \in [0..n -> CutStates] : Run(c, F, n, H) /\ H[n] = g[1..n]
  <2>1. RunsTo(CutStates, c, F, n, g[1..n])
    BY <1>3, <1>4, <1>13, RunOfSteps
  <2> QED
    BY <2>1 DEF RunsTo
<1>15. ASSUME NEW k \in 1..n PROVE H[k] = UrlCharacter(text, H[k - 1], k)
  <2>1. H[k] = F[<<H[k - 1], k>>] /\ H[k - 1] \in CutStates
    BY <1>14 DEF Run
  <2> QED
    BY <1>5, <2>1
<1>16. H[n] = CutIntoFields(text, start, u)
  BY <1>1, <1>2, <1>8, <1>14
<1> QED
  BY <1>14, <1>15, <1>16 DEF Run, c

-----------------------------------------------------------------------------
(* Where the parts of a URL are in its text. *)

UrlParts == [schema : Text, userinfo : Text, host : Text, port : Text, path : Text,
             query : Text, fragment : Text]

\* Texts with the delimiters in them.
Chars == STRING \cup {":", "/", "@", "?", "#"}
Word == Seq(Chars)

LEMMA Words ==
  /\ \A s \in Text : s \in Word
  /\ <<>> \in Word /\ <<":", "/", "/">> \in Word /\ <<"@">> \in Word /\ <<":">> \in Word
  /\ <<"?">> \in Word /\ <<"#">> \in Word
<1>1. ASSUME NEW s \in Text PROVE s \in Word
  <2>1. s \in Seq(STRING) /\ STRING \subseteq Chars
    BY DEF Text, Chars
  <2>2. PICK n \in Nat : s \in [1..n -> STRING]
    BY <2>1
  <2>3. s \in [1..n -> Chars]
    BY <2>1, <2>2
  <2>4. s \in Seq(Chars)
    BY <2>3
  <2> QED
    BY <2>4 DEF Word
<1>2. <<>> \in Word /\ <<":", "/", "/">> \in Word /\ <<"@">> \in Word /\ <<":">> \in Word
      /\ <<"?">> \in Word /\ <<"#">> \in Word
  BY DEF Word, Chars
<1> QED
  BY <1>1, <1>2

LEMMA Concatenated ==
  ASSUME NEW a \in Word, NEW b \in Word
  PROVE  /\ a \o b \in Word /\ Len(a) \in Nat /\ Len(b) \in Nat
         /\ Len(a \o b) = Len(a) + Len(b) /\ DOMAIN (a \o b) = 1..Len(a \o b)
         /\ \A i \in 1..Len(a) : (a \o b)[i] = a[i]
         /\ \A i \in 1..Len(b) : (a \o b)[Len(a) + i] = b[i]
<1>1. a \in Seq(Chars) /\ b \in Seq(Chars)
  BY DEF Word
<1>2. a \o b \in Seq(Chars)
  BY <1>1
<1>3. Len(a) \in Nat /\ Len(b) \in Nat
      /\ Len(a \o b) = Len(a) + Len(b) /\ DOMAIN (a \o b) = 1..Len(a \o b)
  BY <1>1
<1>4. \A i \in 1..Len(a) : (a \o b)[i] = a[i]
  BY <1>1
<1>5. \A i \in 1..Len(b) : (a \o b)[Len(a) + i] = b[i]
  BY <1>1
<1> QED
  BY <1>2, <1>3, <1>4, <1>5 DEF Word

\* The text begins with a schema; from place m on it has none of some characters.
BeginsWith(text, schema) ==
  LET n == Len(schema)
  IN /\ n + 3 <= Len(text) /\ \A i \in 1..n : text[i] = schema[i]
     /\ text[n + 1] = ":" /\ text[n + 2] = "/" /\ text[n + 3] = "/"
Avoids(text, m, chars) == \A i \in 1..Len(text) : i >= m => text[i] \notin chars

LEMMA JoinedBegins ==
  ASSUME NEW a \in Word, NEW b \in Word, NEW schema \in Word, BeginsWith(a, schema)
  PROVE  BeginsWith(a \o b, schema)
<1>1. Len(schema) \in Nat /\ Len(a) \in Nat /\ Len(b) \in Nat
      /\ Len(a \o b) = Len(a) + Len(b)
  BY Concatenated
<1>2. \A i \in 1..Len(a) : (a \o b)[i] = a[i]
  BY Concatenated
<1> QED
  BY <1>1, <1>2 DEF BeginsWith

LEMMA JoinedAvoids ==
  ASSUME NEW a \in Word, NEW b \in Word, NEW m \in Nat, NEW chars,
         Avoids(a, m, chars), Avoids(b, 1, chars)
  PROVE  Avoids(a \o b, m, chars)
<1>1. SUFFICES ASSUME NEW i \in 1..Len(a \o b), i >= m PROVE (a \o b)[i] \notin chars
  BY DEF Avoids
<1>2. Len(a) \in Nat /\ Len(b) \in Nat /\ Len(a \o b) = Len(a) + Len(b)
  BY Concatenated
<1>3. CASE i <= Len(a)
  <2>1. i \in 1..Len(a) /\ (a \o b)[i] = a[i]
    BY <1>2, <1>3, Concatenated
  <2> QED
    BY <1>1, <2>1 DEF Avoids
<1>4. CASE i > Len(a)
  <2>1. PICK j \in 1..Len(b) : i = Len(a) + j
    <3>1. i - Len(a) \in 1..Len(b) /\ i = Len(a) + (i - Len(a))
      BY <1>2, <1>4
    <3> QED
      BY <3>1
  <2>2. (a \o b)[i] = b[j] /\ j >= 1
    BY <2>1, Concatenated
  <2> QED
    BY <2>2 DEF Avoids
<1> QED
  BY <1>2, <1>3, <1>4

LEMMA DelimitedText ==
  ASSUME NEW before \in Word, NEW part \in Word, NEW after \in Word
  PROVE  /\ Delimited(before, part, after) \in Word
         /\ part = <<>> => Delimited(before, part, after) = <<>>
         /\ part # <<>> => Delimited(before, part, after) = (before \o part) \o after
<1>1. before \o part \in Word /\ (before \o part) \o after \in Word /\ <<>> \in Word
  BY DEF Word
<1> QED
  BY <1>1 DEF Delimited

\* What precedes the path.
Prefix(u) ==
  Delimited(<<>>, u.schema, <<":", "/", "/">>) \o Delimited(<<>>, u.userinfo, <<"@">>)
  \o u.host \o Delimited(<<":">>, u.port, <<>>)

PrefixLayout(text, u) ==
  IF u.schema = <<>> THEN text = <<>>
  ELSE BeginsWith(text, u.schema) /\ Avoids(text, Len(u.schema) + 4, {"/", "?"})

LEMMA PrefixIsLaidOut ==
  ASSUME NEW u \in UrlParts, Written(u)
  PROVE  Prefix(u) \in Word /\ PrefixLayout(Prefix(u), u)
<1> DEFINE a1 == Delimited(<<>>, u.schema, <<":", "/", "/">>)
           a2 == Delimited(<<>>, u.userinfo, <<"@">>)
           a3 == u.host
           a4 == Delimited(<<":">>, u.port, <<>>)
           X == {"/", "?"}
<1>1. u.schema \in Word /\ u.userinfo \in Word /\ u.host \in Word /\ u.port \in Word
  BY Words DEF UrlParts
<1>2. a1 \in Word /\ a2 \in Word /\ a3 \in Word /\ a4 \in Word
  BY <1>1, Words, DelimitedText
<1>3. CASE u.schema = <<>>
  <2>1. u.userinfo = <<>> /\ u.host = <<>> /\ u.port = <<>>
    BY <1>3 DEF Written
  <2>2. Prefix(u) = <<>>
    BY <1>3, <2>1 DEF Prefix, Delimited
  <2> QED
    BY <1>3, <2>2, Words DEF PrefixLayout
<1>4. CASE u.schema # <<>>
  <2> DEFINE n == Len(u.schema)
             colon == <<":", "/", "/">>
  <2>1. /\ \A i \in DOMAIN u.userinfo : u.userinfo[i] \notin X
        /\ \A i \in DOMAIN u.host : u.host[i] \notin X
        /\ \A i \in DOMAIN u.port : u.port[i] \notin X
    BY <1>4 DEF Written
  <2>2. n \in Nat /\ Len(u.userinfo) \in Nat /\ Len(u.host) \in Nat /\ Len(u.port) \in Nat
        /\ DOMAIN u.userinfo = 1..Len(u.userinfo) /\ DOMAIN u.host = 1..Len(u.host)
        /\ DOMAIN u.port = 1..Len(u.port)
    BY <1>1 DEF Word
  <2>3. Avoids(u.userinfo, 1, X) /\ Avoids(u.host, 1, X) /\ Avoids(u.port, 1, X)
    BY <2>1, <2>2 DEF Avoids
  <2>4. Avoids(<<>>, 1, X) /\ Avoids(<<":">>, 1, X) /\ Avoids(<<"@">>, 1, X)
    BY DEF Avoids
  <2>5. \A s \in Word : <<>> \o s = s
    BY DEF Word
  <2>6. \A s \in Word : s \o <<>> = s
    BY DEF Word
  <2>7. a1 = u.schema \o colon
    BY <1>1, <1>4, <2>5 DEF Delimited
  <2>8. BeginsWith(a1, u.schema) /\ Len(a1) = n + 3
    <3>1. Len(colon) = 3 /\ colon[1] = ":" /\ colon[2] = "/" /\ colon[3] = "/"
      OBVIOUS
    <3>2. colon \in Word
      BY Words
    <3> DEFINE schema == u.schema
    <3> HIDE DEF colon, a1, schema
    <3>3. schema \in Word /\ a1 = schema \o colon /\ n = Len(schema)
      BY <1>1, <2>7 DEF schema
    <3>4. Len(schema \o colon) = Len(schema) + Len(colon)
          /\ (\A i \in 1..Len(schema) : (schema \o colon)[i] = schema[i])
          /\ (\A i \in 1..Len(colon) : (schema \o colon)[Len(schema) + i] = colon[i])
      BY <3>2, <3>3, Concatenated
    <3>5. Len(a1) = n + 3 /\ \A i \in 1..n : a1[i] = schema[i]
      BY <3>1, <3>3, <3>4
    <3>6. \A i \in 1..3 : a1[n + i] = colon[i]
      BY <3>1, <3>3, <3>4
    <3> QED
      BY <2>2, <3>1, <3>3, <3>5, <3>6 DEF BeginsWith, schema
  <2>9. Avoids(a1, n + 4, X)
    <3> HIDE DEF a1
    <3> QED
      BY <2>2, <2>8 DEF Avoids
  <2>10. Avoids(a2, 1, X)
    <3>1. CASE u.userinfo = <<>>
      BY <1>1, <2>4, <3>1, Words, DelimitedText
    <3>2. CASE u.userinfo # <<>>
      <4>1. a2 = u.userinfo \o <<"@">>
        BY <1>1, <2>5, <3>2 DEF Delimited
      <4> QED
        BY <1>1, <2>3, <2>4, <4>1, Words, JoinedAvoids
    <3> QED
      BY <3>1, <3>2
  <2>11. Avoids(a4, 1, X)
    <3>1. CASE u.port = <<>>
      BY <1>1, <2>4, <3>1, Words, DelimitedText
    <3>2. CASE u.port # <<>>
      <4>1. <<":">> \o u.port \in Word
        BY <1>1, Words, Concatenated
      <4>2. a4 = <<":">> \o u.port
        BY <1>1, <2>6, <3>2, <4>1 DEF Delimited
      <4> QED
        BY <1>1, <2>3, <2>4, <4>2, Words, JoinedAvoids
    <3> QED
      BY <3>1, <3>2
  <2> HIDE DEF a1, a2, a4, X
  <2>12. n + 4 \in Nat
    BY <2>2
  <2>13. a1 \o a2 \in Word /\ BeginsWith(a1 \o a2, u.schema) /\ Avoids(a1 \o a2, n + 4, X)
    BY <1>1, <1>2, <2>8, <2>9, <2>10, <2>12, Concatenated, JoinedBegins, JoinedAvoids
  <2> DEFINE b == a1 \o a2
  <2>14. b \o a3 \in Word /\ BeginsWith(b \o a3, u.schema) /\ Avoids(b \o a3, n + 4, X)
    <3> HIDE DEF b, n
    <3> QED
      BY <1>1, <1>2, <2>3, <2>12, <2>13, Concatenated, JoinedBegins, JoinedAvoids DEF b
  <2> DEFINE c == b \o a3
  <2>15. c \o a4 \in Word /\ BeginsWith(c \o a4, u.schema) /\ Avoids(c \o a4, n + 4, X)
    <3> HIDE DEF c, n
    <3> QED
      BY <1>1, <1>2, <2>11, <2>12, <2>14, Concatenated, JoinedBegins, JoinedAvoids DEF c
  <2>16. Prefix(u) = c \o a4
    BY DEF Prefix, a1, a2, a4
  <2> QED
    BY <1>4, <2>15, <2>16 DEF PrefixLayout, X
<1> QED
  BY <1>3, <1>4

\* The path ends, and the query ends, behind so many characters.
PathEnd(u, p) == p + Len(u.path)
QueryEnd(u, p) == IF u.query = <<>> THEN PathEnd(u, p) ELSE PathEnd(u, p) + 1 + Len(u.query)

PrefixLies(text, u, p) ==
  IF u.schema = <<>> THEN p = 0
  ELSE /\ BeginsWith(text, u.schema) /\ Len(u.schema) + 3 <= p
       /\ \A i \in 1..p : i >= Len(u.schema) + 4 => text[i] \notin {"/", "?"}
PathLies(text, u, p) == \A i \in 1..Len(u.path) : text[p + i] = u.path[i]
QueryLies(text, u, p) ==
  u.query # <<>> => /\ text[PathEnd(u, p) + 1] = "?"
                    /\ \A i \in 1..Len(u.query) : text[PathEnd(u, p) + 1 + i] = u.query[i]
FragmentLies(text, u, p) ==
  Len(text) > QueryEnd(u, p) =>
    /\ text[QueryEnd(u, p) + 1] = "#"
    /\ \A i \in QueryEnd(u, p) + 2..Len(text) : IS_URL_CHAR(text[i]) \/ text[i] \in {"?", "#"}
Layout(text, u, p) ==
  /\ PrefixLies(text, u, p) /\ PathLies(text, u, p) /\ QueryLies(text, u, p)
  /\ FragmentLies(text, u, p) /\ QueryEnd(u, p) <= Len(text)

LEMMA PartLengths ==
  ASSUME NEW u \in UrlParts
  PROVE  /\ Len(u.path) \in Nat /\ Len(u.query) \in Nat /\ Len(u.fragment) \in Nat
         /\ Len(u.schema) \in Nat
         /\ u.path \in Word /\ u.query \in Word /\ u.fragment \in Word /\ u.schema \in Word
         /\ DOMAIN u.path = 1..Len(u.path) /\ DOMAIN u.query = 1..Len(u.query)
         /\ DOMAIN u.fragment = 1..Len(u.fragment) /\ DOMAIN u.schema = 1..Len(u.schema)
         /\ u.path = <<>> <=> Len(u.path) = 0
         /\ u.query = <<>> <=> Len(u.query) = 0
         /\ u.schema = <<>> <=> Len(u.schema) = 0
         /\ \A p \in Nat : PathEnd(u, p) \in Nat /\ QueryEnd(u, p) \in Nat
                           /\ p <= PathEnd(u, p) /\ PathEnd(u, p) <= QueryEnd(u, p)
<1>1. u.path \in Text /\ u.query \in Text /\ u.fragment \in Text /\ u.schema \in Text
  BY DEF UrlParts
<1>2. \A s \in Text : Len(s) \in Nat /\ DOMAIN s = 1..Len(s) /\ (s = <<>> <=> Len(s) = 0)
  BY DEF Text
<1>3. \A p \in Nat : PathEnd(u, p) \in Nat /\ QueryEnd(u, p) \in Nat
                     /\ p <= PathEnd(u, p) /\ PathEnd(u, p) <= QueryEnd(u, p)
  <2>1. PICK n \in Nat, m \in Nat : n = Len(u.path) /\ m = Len(u.query)
    BY <1>1, <1>2
  <2>2. \A p \in Nat : PathEnd(u, p) = p + n
    BY <2>1 DEF PathEnd
  <2>3. \A p \in Nat : QueryEnd(u, p) \in {p + n, p + n + 1 + m}
    BY <2>1 DEF PathEnd, QueryEnd
  <2> QED
    BY <2>2, <2>3
<1> QED
  BY <1>1, <1>2, <1>3, Words

LEMMA UrlIsLaidOut ==
  ASSUME NEW u \in UrlParts, Written(u)
  PROVE  UrlText(u) \in Word /\ \E p \in Nat : Layout(UrlText(u), u, p)
<1> DEFINE P == Prefix(u)
           p == Len(P)
           b1 == Delimited(<<"?">>, u.query, <<>>)
           b2 == Delimited(<<"#">>, u.fragment, <<>>)
           A == P \o u.path
           B == A \o b1
           T == B \o b2
           q == PathEnd(u, p)
           r == QueryEnd(u, p)
<1>1. P \in Word /\ PrefixLayout(P, u)
  BY PrefixIsLaidOut
<1>2. UrlText(u) = T
  BY DEF UrlText, Prefix
<1>3. /\ u.path \in Word /\ u.query \in Word /\ u.fragment \in Word
      /\ Len(u.path) \in Nat /\ Len(u.query) \in Nat
  BY PartLengths
<1>4. \A s \in Word : s \o <<>> = s /\ <<>> \o s = s /\ Len(s) \in Nat
  BY DEF Word
<1>5. /\ b1 = IF u.query = <<>> THEN <<>> ELSE <<"?">> \o u.query
      /\ b2 = IF u.fragment = <<>> THEN <<>> ELSE <<"#">> \o u.fragment
  <2>1. <<"?">> \o u.query \in Word /\ <<"#">> \o u.fragment \in Word
    BY <1>3, Words, Concatenated
  <2> QED
    BY <1>4, <2>1 DEF Delimited
<1>6. b1 \in Word /\ b2 \in Word
  BY <1>3, <1>5, Words, Concatenated
<1> HIDE DEF P, b1, b2
<1>7. A \in Word /\ p \in Nat /\ Len(A) = p + Len(u.path)
      /\ (\A i \in 1..p : A[i] = P[i]) /\ (\A i \in 1..Len(u.path) : A[p + i] = u.path[i])
  BY <1>1, <1>3, Concatenated
<1> HIDE DEF A, p
<1>8. B \in Word /\ Len(A) \in Nat /\ Len(B) = Len(A) + Len(b1)
      /\ (\A i \in 1..Len(A) : B[i] = A[i]) /\ (\A i \in 1..Len(b1) : B[Len(A) + i] = b1[i])
  BY <1>6, <1>7, Concatenated
<1> HIDE DEF B
<1>9. T \in Word /\ Len(B) \in Nat /\ Len(T) = Len(B) + Len(b2) /\ Len(b2) \in Nat
      /\ (\A i \in 1..Len(B) : T[i] = B[i]) /\ (\A i \in 1..Len(b2) : T[Len(B) + i] = b2[i])
  BY <1>6, <1>8, Concatenated
<1> HIDE DEF T
<1>10. Len(A) = q /\ Len(b1) \in Nat
  BY <1>6, <1>7, Concatenated DEF PathEnd
<1>20. q \in Nat /\ Len(B) = q + Len(b1)
  BY <1>8, <1>10
<1>11. Len(B) = r /\ QueryLies(T, u, p)
  <2>1. CASE u.query = <<>>
    <3>1. Len(b1) = 0
      BY <1>5, <2>1
    <3> QED
      BY <1>8, <1>10, <2>1, <3>1 DEF QueryEnd, QueryLies
  <2>2. CASE u.query # <<>>
    <3>1. b1 = <<"?">> \o u.query
      BY <1>5, <2>2
    <3>2. Len(<<"?">>) = 1 /\ <<"?">>[1] = "?" /\ <<"?">> \in Word
      BY Words
    <3> DEFINE mark == <<"?">>
    <3> HIDE DEF mark
    <3>3. Len(b1) = 1 + Len(u.query) /\ b1[1] = "?" /\ \A i \in 1..Len(u.query) : b1[1 + i] = u.query[i]
      <4>1. mark \in Word /\ Len(mark) = 1 /\ mark[1] = "?" /\ b1 = mark \o u.query
        BY <3>1, <3>2 DEF mark
      <4>2. Len(mark \o u.query) = Len(mark) + Len(u.query)
            /\ (\A i \in 1..Len(mark) : (mark \o u.query)[i] = mark[i])
            /\ (\A i \in 1..Len(u.query) : (mark \o u.query)[Len(mark) + i] = u.query[i])
        BY <1>3, <4>1, Concatenated
      <4> QED
        BY <4>1, <4>2
    <3>4. Len(B) = q + 1 + Len(u.query) /\ B[q + 1] = "?"
          /\ \A i \in 1..Len(u.query) : B[q + 1 + i] = u.query[i]
      <4>1. Len(B) = q + 1 + Len(u.query)
        <5>1. PICK m \in Nat : m = Len(u.query)
          BY <1>3
        <5>2. Len(b1) = 1 + m
          BY <3>3, <5>1
        <5>3. PICK x \in Nat : x = q
          BY <1>20
        <5>4. Len(B) = x + (1 + m) /\ x + (1 + m) = x + 1 + m
          BY <1>20, <5>2, <5>3
        <5> QED
          BY <5>1, <5>3, <5>4
      <4>2. 1 \in 1..Len(b1) /\ \A i \in 1..Len(u.query) : 1 + i \in 1..Len(b1)
        BY <1>3, <3>3
      <4>3. B[q + 1] = b1[1] /\ \A i \in 1..Len(u.query) : B[q + (1 + i)] = b1[1 + i]
        BY <1>8, <1>10, <4>2
      <4>4. \A i \in 1..Len(u.query) : q + (1 + i) = q + 1 + i
        BY <1>8, <1>10
      <4> QED
        BY <3>3, <4>1, <4>3, <4>4
    <3>5. q + 1 \in 1..Len(B) /\ \A i \in 1..Len(u.query) : q + 1 + i \in 1..Len(B)
      BY <1>3, <1>20, <3>4
    <3> QED
      BY <1>9, <2>2, <3>4, <3>5 DEF QueryEnd, QueryLies
  <2> QED
    BY <2>1, <2>2
<1>12. PathLies(T, u, p)
  <2>1. \A i \in 1..Len(u.path) : p + i \in 1..Len(A) /\ p + i \in 1..Len(B)
    BY <1>3, <1>6, <1>7, <1>8, <1>10
  <2>2. \A i \in 1..Len(u.path) : T[p + i] = A[p + i]
    BY <1>8, <1>9, <2>1
  <2> QED
    BY <1>7, <2>2 DEF PathLies
<1>13. PrefixLies(T, u, p)
  <2>1. \A i \in 1..p : T[i] = P[i]
    <3>1. \A i \in 1..p : i \in 1..Len(A) /\ i \in 1..Len(B)
      BY <1>3, <1>6, <1>7, <1>8, <1>10
    <3> QED
      BY <1>7, <1>8, <1>9, <3>1
  <2>2. CASE u.schema = <<>>
    <3>1. P = <<>>
      BY <1>1, <2>2 DEF PrefixLayout
    <3> QED
      BY <2>2, <3>1 DEF PrefixLies, p
  <2>3. CASE u.schema # <<>>
    <3>1. BeginsWith(P, u.schema) /\ Avoids(P, Len(u.schema) + 4, {"/", "?"})
      BY <1>1, <2>3 DEF PrefixLayout
    <3>2. p <= Len(T) /\ Len(u.schema) \in Nat
      <4>1. p <= q
        BY <1>3, <1>7, <1>10
      <4>2. q <= Len(B) /\ Len(B) <= Len(T) /\ Len(T) \in Nat
        BY <1>8, <1>9, <1>10, <1>20
      <4> QED
        BY <1>7, <1>20, <4>1, <4>2, PartLengths
    <3> DEFINE n == Len(u.schema)
    <3>3. n + 3 <= p /\ (\A i \in 1..n : P[i] = u.schema[i]) /\ P[n + 1] = ":" /\ P[n + 2] = "/"
          /\ P[n + 3] = "/"
      BY <3>1 DEF BeginsWith, p
    <3>4. n + 1 \in 1..p /\ n + 2 \in 1..p /\ n + 3 \in 1..p /\ \A i \in 1..n : i \in 1..p
      BY <1>7, <3>2, <3>3
    <3>5. BeginsWith(T, u.schema)
      BY <1>7, <1>9, <2>1, <3>2, <3>3, <3>4 DEF BeginsWith
    <3>6. \A i \in 1..p : i >= n + 4 => P[i] \notin {"/", "?"}
      BY <3>1 DEF Avoids, p
    <3> QED
      BY <2>1, <2>3, <3>3, <3>5, <3>6 DEF PrefixLies
  <2> QED
    BY <2>2, <2>3
<1>14. FragmentLies(T, u, p)
  <2>1. SUFFICES ASSUME Len(T) > r
                 PROVE  /\ T[r + 1] = "#"
                        /\ \A i \in r + 2..Len(T) : IS_URL_CHAR(T[i]) \/ T[i] \in {"?", "#"}
    BY DEF FragmentLies
  <2>2. u.fragment # <<>> /\ b2 = <<"#">> \o u.fragment
    <3>1. b2 # <<>>
      BY <1>9, <1>11, <2>1
    <3> QED
      BY <1>5, <3>1
  <2> DEFINE mark == <<"#">>
  <2>3. mark \in Word /\ Len(mark) = 1 /\ mark[1] = "#" /\ b2 = mark \o u.fragment
        /\ Len(u.fragment) \in Nat
    BY <2>2, Words, PartLengths
  <2> HIDE DEF mark
  <2>4. Len(mark \o u.fragment) = Len(mark) + Len(u.fragment)
        /\ (\A i \in 1..Len(mark) : (mark \o u.fragment)[i] = mark[i])
        /\ (\A i \in 1..Len(u.fragment) : (mark \o u.fragment)[Len(mark) + i] = u.fragment[i])
    BY <1>3, <2>3, Concatenated
  <2>5. Len(b2) = 1 + Len(u.fragment) /\ b2[1] = "#"
        /\ \A i \in 1..Len(u.fragment) : b2[1 + i] = u.fragment[i]
    BY <2>3, <2>4
  <2>6. T[r + 1] = "#"
    <3>1. 1 \in 1..Len(b2)
      BY <2>3, <2>5
    <3> QED
      BY <1>9, <1>11, <2>5, <3>1
  <2>7. ASSUME NEW i \in r + 2..Len(T) PROVE IS_URL_CHAR(T[i]) \/ T[i] \in {"?", "#"}
    <3>1. r \in Nat
      BY <1>9, <1>11
    <3>2. PICK j \in 1..Len(u.fragment) : i = r + (1 + j)
      <4>1. i - r - 1 \in 1..Len(u.fragment) /\ i = r + (1 + (i - r - 1))
        <5>1. PICK n \in Nat : n = Len(u.fragment)
          BY <2>3
        <5>2. PICK x \in Nat : x = r
          BY <3>1
        <5>3. Len(b2) = 1 + n
          BY <2>5, <5>1
        <5>4. Len(T) = x + (1 + n)
          BY <1>9, <1>11, <5>2, <5>3
        <5>5. i \in x + 2..x + (1 + n)
          BY <2>7, <5>2, <5>4
        <5>6. i - x - 1 \in 1..n /\ i = x + (1 + (i - x - 1))
          BY <5>5
        <5> QED
          BY <5>1, <5>2, <5>6
      <4> QED
        BY <4>1
    <3>3. 1 + j \in 1..Len(b2)
      BY <2>3, <2>5
    <3>4. T[r + (1 + j)] = b2[1 + j]
      BY <1>9, <1>11, <3>3
    <3>5. T[i] = u.fragment[j]
      BY <2>5, <3>2, <3>4
    <3>6. \A k \in DOMAIN u.fragment : IS_URL_CHAR(u.fragment[k]) \/ u.fragment[k] \in {"?", "#"}
      BY DEF Written
    <3>7. j \in DOMAIN u.fragment
      BY PartLengths
    <3> QED
      BY <3>5, <3>6, <3>7
  <2> QED
    BY <2>6, <2>7
<1>15. r <= Len(T)
  BY <1>9, <1>11
<1>16. Layout(T, u, p)
  BY <1>11, <1>12, <1>13, <1>14, <1>15 DEF Layout
<1> QED
  BY <1>2, <1>7, <1>9, <1>16

-----------------------------------------------------------------------------
(* The scan finds the path and the query where they are. *)

\* The state behind k characters, before a URL turns out to be none.
PrefixState(n, k, s) ==
  /\ k = 0 => s = "s_req_spaces_before_url"
  /\ k > 0 /\ k <= n => s = "s_req_schema"
  /\ k > 0 /\ k = n + 1 => s = "s_req_schema_slash"
  /\ k > 0 /\ k = n + 2 => s = "s_req_schema_slash_slash"
  /\ k > 0 /\ k >= n + 3 => s \in Servers
ScanState(n, p, q, r, k, s) ==
  /\ k <= p => PrefixState(n, k, s)
  /\ p < k /\ k <= q => s = "s_req_path"
  /\ k = q + 1 /\ k <= r => s = "s_req_query_string_start"
  /\ q + 1 < k /\ k <= r => s = "s_req_query_string"
  /\ r < k => s \in Fragments

\* What the characters of a URL are, place by place.
UrlPlaces(text, u, p, q, r) ==
  /\ \A k \in 1..p : k <= Len(u.schema) => text[k] \notin {"/", "*", ":"}
  /\ p > 0 => /\ u.schema # <<>> /\ Len(u.schema) + 3 <= p /\ text[Len(u.schema) + 1] = ":"
              /\ text[Len(u.schema) + 2] = "/" /\ text[Len(u.schema) + 3] = "/"
  /\ \A k \in 1..p : k >= Len(u.schema) + 4 => text[k] \notin {"/", "?"}
  /\ p < q => text[p + 1] = "/" \/ (p = 0 /\ text[p + 1] = "*")
  /\ \A k \in p + 1..q : IS_URL_CHAR(text[k])
  /\ q < r => text[q + 1] = "?" /\ q + 1 < r
  /\ \A k \in q + 2..r : IS_URL_CHAR(text[k]) \/ text[k] = "?"
  /\ r < Len(text) => text[r + 1] = "#"
  /\ \A k \in r + 2..Len(text) : IS_URL_CHAR(text[k]) \/ text[k] \in {"?", "#"}
  /\ p = 0 => p < q /\ u.schema = <<>>

LEMMA LayoutPlaces ==
  ASSUME NEW u \in UrlParts, Written(u), NEW text, NEW p \in Nat, Layout(text, u, p),
         NEW q \in Nat, q = PathEnd(u, p), NEW r \in Nat, r = QueryEnd(u, p)
  PROVE  UrlPlaces(text, u, p, q, r)
<1>1. PICK n \in Nat : n = Len(u.schema)
  BY PartLengths
<1>2. PICK l \in Nat : l = Len(u.path) /\ q = p + l
  BY PartLengths DEF PathEnd
<1>3. PICK m \in Nat : m = Len(u.query) /\ (m = 0 => r = q) /\ (m > 0 => r = q + 1 + m)
                       /\ (m = 0 <=> u.query = <<>>)
  <2>1. PICK m \in Nat : m = Len(u.query) /\ (m = 0 <=> u.query = <<>>)
    BY PartLengths
  <2>2. m = 0 => r = q
    BY <2>1 DEF QueryEnd
  <2>3. m > 0 => r = q + 1 + m
    BY <2>1 DEF QueryEnd
  <2> QED
    BY <2>1, <2>2, <2>3
<1>4. DOMAIN u.path = 1..l /\ DOMAIN u.query = 1..m /\ DOMAIN u.schema = 1..n
      /\ (n = 0 <=> u.schema = <<>>) /\ (l = 0 <=> u.path = <<>>)
  BY <1>1, <1>2, <1>3, PartLengths
<1>5. /\ u.schema = <<>> => p = 0 /\ u.path # <<>> /\ u.path[1] \in {"/", "*"}
      /\ u.schema # <<>> => p > 0 /\ (u.path # <<>> => u.path[1] = "/")
  <2>1. CASE u.schema = <<>>
    BY <2>1 DEF Layout, PrefixLies, Written
  <2>2. CASE u.schema # <<>>
    <3>1. n + 3 <= p
      BY <1>1, <2>2 DEF Layout, PrefixLies
    <3>2. u.path # <<>> => u.path[1] = "/"
      BY <2>2 DEF Written
    <3> QED
      BY <2>2, <3>1, <3>2
  <2> QED
    BY <2>1, <2>2
<1>6. p > 0 => /\ BeginsWith(text, u.schema) /\ n + 3 <= p /\ u.schema # <<>>
               /\ \A k \in 1..p : k >= n + 4 => text[k] \notin {"/", "?"}
  BY <1>1, <1>5 DEF Layout, PrefixLies
<1>7. \A k \in 1..p : k <= n => text[k] \notin {"/", "*", ":"}
  <2>1. SUFFICES ASSUME NEW k \in 1..p, k <= n PROVE text[k] \notin {"/", "*", ":"}
    OBVIOUS
  <2>2. text[k] = u.schema[k] /\ u.schema # <<>>
    BY <1>1, <1>6, <2>1 DEF BeginsWith
  <2>3. k \in DOMAIN u.schema
    BY <1>4, <2>1
  <2> QED
    BY <2>2, <2>3 DEF Written
<1>8. \A i \in 1..l : text[p + i] = u.path[i] /\ IS_URL_CHAR(text[p + i])
  BY <1>2, <1>4 DEF Layout, PathLies, Written
<1>9. p < q => text[p + 1] = "/" \/ (p = 0 /\ text[p + 1] = "*")
  <2>1. p < q => 1 \in 1..l /\ u.path # <<>>
    BY <1>2, <1>4
  <2> QED
    BY <1>5, <1>8, <2>1
<1>10. \A k \in p + 1..q : IS_URL_CHAR(text[k])
  <2>1. \A k \in p + 1..q : k - p \in 1..l /\ k = p + (k - p)
    BY <1>2
  <2> QED
    BY <1>8, <2>1
<1>11. m > 0 => text[q + 1] = "?" /\ \A i \in 1..m : text[q + 1 + i] = u.query[i]
                                                     /\ (IS_URL_CHAR(u.query[i]) \/ u.query[i] = "?")
  BY <1>2, <1>3, <1>4 DEF Layout, QueryLies, Written
<1>12. q < r => text[q + 1] = "?" /\ q + 1 < r
  BY <1>3, <1>11
<1>13. \A k \in q + 2..r : IS_URL_CHAR(text[k]) \/ text[k] = "?"
  <2>1. SUFFICES ASSUME NEW k \in q + 2..r PROVE IS_URL_CHAR(text[k]) \/ text[k] = "?"
    OBVIOUS
  <2>2. m > 0 /\ r = q + 1 + m
    BY <1>3, <2>1
  <2>3. k - q - 1 \in 1..m /\ k = q + 1 + (k - q - 1)
    BY <2>1, <2>2
  <2> QED
    BY <1>11, <2>2, <2>3
<1>14. /\ r < Len(text) => text[r + 1] = "#"
       /\ \A k \in r + 2..Len(text) : IS_URL_CHAR(text[k]) \/ text[k] \in {"?", "#"}
  BY DEF Layout, FragmentLies
<1>15. p = 0 => p < q /\ u.schema = <<>>
  BY <1>2, <1>4, <1>5
<1>16. p > 0 => /\ u.schema # <<>> /\ n + 3 <= p /\ text[n + 1] = ":"
                /\ text[n + 2] = "/" /\ text[n + 3] = "/"
  BY <1>1, <1>6 DEF BeginsWith
<1>17. \A k \in 1..p : k >= n + 4 => text[k] \notin {"/", "?"}
  BY <1>6
<1> QED
  BY <1>1, <1>7, <1>9, <1>10, <1>12, <1>13, <1>14, <1>15, <1>16, <1>17 DEF UrlPlaces

\* A state that the scan may be in behind k characters leads to one behind the next.
LEMMA StateStep ==
  ASSUME NEW u \in UrlParts, NEW text, NEW p \in Nat, NEW q \in Nat, NEW r \in Nat,
         p <= q, q <= r, UrlPlaces(text, u, p, q, r), NEW n \in Nat, n = Len(u.schema),
         Len(text) \in Nat, NEW k \in 1..Len(text), NEW s, ScanState(n, p, q, r, k - 1, s)
  PROVE  \/ parse_url_char(s, text[k]) = "s_dead" /\ u.schema # <<>>
         \/ ScanState(n, p, q, r, k, parse_url_char(s, text[k]))
<1> DEFINE c == text[k]
<1>0. PICK t : t = parse_url_char(s, c)
  OBVIOUS
<1>8. SUFFICES (t = "s_dead" /\ u.schema # <<>>) \/ ScanState(n, p, q, r, k, t)
  BY <1>0
<1>9. k \in Nat /\ k >= 1 /\ k - 1 \in Nat
  OBVIOUS
<1>1. CASE k <= p
  <2>1. /\ u.schema # <<>> /\ n + 3 <= p /\ PrefixState(n, k - 1, s)
        /\ k <= n => c \notin {"/", "*", ":"}
        /\ k = n + 1 => c = ":"
        /\ k = n + 2 \/ k = n + 3 => c = "/"
        /\ k >= n + 4 => c \notin {"/", "?"}
    <3>1. p > 0 /\ PrefixState(n, k - 1, s)
      BY <1>1 DEF ScanState
    <3>2. u.schema # <<>> /\ n + 3 <= p /\ text[n + 1] = ":" /\ text[n + 2] = "/" /\ text[n + 3] = "/"
      BY <3>1 DEF UrlPlaces
    <3>3. k \in 1..p
      BY <1>1
    <3>4. k <= n => c \notin {"/", "*", ":"}
      BY <3>3 DEF UrlPlaces
    <3>5. k >= n + 4 => c \notin {"/", "?"}
      BY <3>3 DEF UrlPlaces
    <3> QED
      BY <3>1, <3>2, <3>4, <3>5
  <2>2. n > 0
    <3>1. n = 0 <=> u.schema = <<>>
      BY PartLengths
    <3> QED
      BY <2>1, <3>1
  <2>3. CASE k <= n
    <3>1. s \in {"s_req_spaces_before_url", "s_req_schema"}
      BY <2>1, <2>3 DEF PrefixState
    <3>2. t \in {"s_req_schema", "s_dead"}
      BY <2>1, <2>3, <3>1, <1>0, SchemaStates
    <3> QED
      BY <1>1, <2>1, <2>3, <3>2 DEF ScanState, PrefixState
  <2>4. CASE k = n + 1
    <3>1. s = "s_req_schema" /\ t = "s_req_schema_slash"
      BY <2>1, <2>2, <2>4, <1>0, SchemaStates DEF PrefixState
    <3> QED
      BY <1>1, <2>1, <2>4, <3>1 DEF ScanState, PrefixState
  <2>5. CASE k = n + 2
    <3>1. s = "s_req_schema_slash" /\ t = "s_req_schema_slash_slash"
      BY <2>1, <2>2, <2>5, <1>0, SchemaStates DEF PrefixState
    <3> QED
      BY <1>1, <2>1, <2>5, <3>1 DEF ScanState, PrefixState
  <2>6. CASE k = n + 3
    <3>1. s = "s_req_schema_slash_slash" /\ t = "s_req_server_start"
      BY <2>1, <2>2, <2>6, <1>0, SchemaStates DEF PrefixState
    <3> QED
      BY <1>1, <2>1, <2>6, <3>1 DEF ScanState, PrefixState, Servers
  <2>7. CASE k >= n + 4
    <3>1. s \in Servers
      BY <2>1, <2>7 DEF PrefixState
    <3>2. t \in Servers \cup {"s_dead"}
      BY <2>1, <2>7, <3>1, <1>0, ServerStates
    <3> QED
      BY <1>1, <2>1, <2>7, <3>2 DEF ScanState, PrefixState
  <2> QED
    BY <2>3, <2>4, <2>5, <2>6, <2>7
<1>2. ASSUME k - 1 = p, p > 0 PROVE s \in Servers
  BY <1>2 DEF ScanState, PrefixState, UrlPlaces
<1>3. CASE p < k /\ k <= q
  <2>1. t = "s_req_path"
    <3>1. CASE k = p + 1
      <4>1. c = "/" \/ (p = 0 /\ c = "*")
        BY <1>3, <3>1 DEF UrlPlaces
      <4>2. CASE p = 0
        <5>1. s = "s_req_spaces_before_url"
          BY <3>1, <4>2 DEF ScanState, PrefixState
        <5> QED
          BY <4>1, <5>1, <1>0, PathStates
      <4>3. CASE p > 0
        BY <1>2, <3>1, <4>1, <4>3, <1>0, PathStates
      <4> QED
        BY <4>2, <4>3
    <3>2. CASE k > p + 1
      <4>1. s = "s_req_path" /\ IS_URL_CHAR(c)
        BY <1>3, <3>2 DEF ScanState, UrlPlaces
      <4> QED
        BY <4>1, <1>0, PathStates
    <3> QED
      BY <1>3, <3>1, <3>2
  <2> QED
    BY <1>3, <2>1 DEF ScanState
<1>4. CASE k = q + 1 /\ k <= r
  <2>1. c = "?"
    BY <1>4 DEF UrlPlaces
  <2>2. s \in Servers \cup {"s_req_path"}
    <3>1. CASE p < q
      BY <1>4, <3>1 DEF ScanState
    <3>2. CASE p = q
      <4>1. p > 0
        BY <3>2 DEF UrlPlaces
      <4> QED
        BY <1>2, <1>4, <3>2, <4>1
    <3> QED
      BY <3>1, <3>2
  <2>3. t = "s_req_query_string_start"
    BY <2>1, <2>2, <1>0, QueryStates
  <2> QED
    BY <1>4, <2>3 DEF ScanState
<1>5. CASE k > q + 1 /\ k <= r
  <2>1. IS_URL_CHAR(c) \/ c = "?"
    BY <1>5 DEF UrlPlaces
  <2>2. s \in Queries
    BY <1>5 DEF ScanState, Queries
  <2>3. t = "s_req_query_string"
    BY <2>1, <2>2, <1>0, QueryStates
  <2> QED
    BY <1>5, <2>3 DEF ScanState
<1>6. CASE k = r + 1
  <2>1. c = "#"
    BY <1>6 DEF UrlPlaces
  <2>2. CASE p = r
    <3>1. p > 0
      BY <2>2 DEF UrlPlaces
    <3>2. s \in Servers
      BY <1>2, <1>6, <2>2, <3>1
    <3>3. u.schema # <<>>
      BY <3>1 DEF UrlPlaces
    <3>4. t = "s_dead"
      BY <2>1, <3>2, <1>0, FragmentStates
    <3> QED
      BY <3>3, <3>4
  <2>3. CASE p < r
    <3>1. s \in Queries \cup {"s_req_path"}
      <4>1. CASE q = r
        BY <1>6, <2>3, <4>1 DEF ScanState
      <4>2. CASE q < r
        <5>1. q + 1 < r
          BY <4>2 DEF UrlPlaces
        <5> QED
          BY <1>6, <5>1 DEF ScanState, Queries
      <4> QED
        BY <4>1, <4>2
    <3>2. t = "s_req_fragment_start"
      BY <2>1, <3>1, <1>0, FragmentStates
    <3> QED
      BY <1>6, <3>2 DEF ScanState, Fragments
  <2> QED
    BY <2>2, <2>3
<1>7. CASE k > r + 1
  <2>1. s \in Fragments
    BY <1>7 DEF ScanState
  <2>2. IS_URL_CHAR(c) \/ c \in {"?", "#"}
    BY <1>7 DEF UrlPlaces
  <2>3. t \in Fragments
    BY <2>1, <2>2, <1>0, FragmentStates
  <2> QED
    BY <1>7, <2>3 DEF ScanState
<1> QED
  BY <1>1, <1>3, <1>4, <1>5, <1>6, <1>7


-----------------------------------------------------------------------------
(* What the scan writes of the path and of the query. *)

\* A length that was counted to j.
Counted(x, j) == x \in Nat /\ x <= j /\ x <= UINT16_MAX /\ (j <= UINT16_MAX => x = j)

\* Of a part from at on, j characters were met since the struct was v.
PartRead(u, v, f, at, j) ==
  IF j = 0 THEN u.off[f] = v.off[f] /\ u.len[f] = v.len[f]
  ELSE u.off[f] = Narrow(at) /\ Counted(u.len[f], j)

PathMet(p, q, k) == IF k <= p THEN 0 ELSE IF k <= q THEN k - p ELSE q - p
QueryMet(q, r, k) == IF k <= q + 1 \/ r = q THEN 0 ELSE IF k <= r THEN k - q - 1 ELSE r - q - 1

\* The field written last.
LastField(p, q, r, k, field) ==
  /\ k <= p => field \notin {"path", "query"}
  /\ p < k /\ k <= q => field = "path"
  /\ k = q + 1 => field # "query"
  /\ q + 1 < k /\ k <= r => field = "query"

OriginFields == {"path", "query", "fragment"}
FieldsSet(p, k, fields) ==
  p = 0 => fields \subseteq OriginFields /\ (k > 0 => "path" \in fields)

\* The struct behind k characters of a scan that began with v.
FieldsRead(acc, v, p, q, r, k) ==
  /\ LastField(p, q, r, k, acc.field) /\ FieldsSet(p, k, acc.u.field_set)
  /\ PartRead(acc.u, v, "path", p, PathMet(p, q, k))
  /\ PartRead(acc.u, v, "query", q + 1, QueryMet(q, r, k))

LEMMA CountedOn ==
  ASSUME NEW x, NEW j \in Nat, Counted(x, j)
  PROVE  Counted(Narrow(x + 1), j + 1)
<1>1. x \in Nat /\ x + 1 \in Nat /\ x <= j
  BY DEF Counted
<1>2. PICK y : y = Narrow(x + 1)
  OBVIOUS
<1>3. y \in Nat /\ y <= UINT16_MAX /\ y <= x + 1
  BY <1>1, <1>2, NarrowRange
<1>4. ASSUME j + 1 <= UINT16_MAX PROVE y = j + 1
  <2>1. x = j
    BY <1>1, <1>4, WidthAssumption DEF Counted
  <2> QED
    BY <1>1, <1>2, <1>4, <2>1, NarrowRange
<1>5. Counted(y, j + 1)
  BY <1>1, <1>3, <1>4 DEF Counted
<1> QED
  BY <1>2, <1>5

\* A character of the part, or one of another field.
LEMMA PartGrows ==
  ASSUME NEW u, NEW v, NEW w, NEW f \in UrlFields, NEW at \in Nat, NEW j \in Nat,
         PartRead(u, v, f, at, j), ExtendedTo(w, u, f, at + j, j = 0)
  PROVE  PartRead(w, v, f, at, j + 1)
<1>1. j + 1 # 0
  OBVIOUS
<1>2. CASE j = 0
  <2>1. w.off[f] = Narrow(at) /\ w.len[f] = 1
    BY <1>2 DEF ExtendedTo
  <2>2. Counted(1, 1)
    BY WidthAssumption DEF Counted
  <2> QED
    BY <1>1, <1>2, <2>1, <2>2 DEF PartRead
<1>3. CASE j # 0
  <2>1. w.off[f] = u.off[f] /\ w.len[f] = Narrow(u.len[f] + 1)
    BY <1>3 DEF ExtendedTo
  <2>2. u.off[f] = Narrow(at) /\ Counted(u.len[f], j)
    BY <1>3 DEF PartRead
  <2> QED
    BY <1>1, <2>1, <2>2, CountedOn DEF PartRead
<1> QED
  BY <1>2, <1>3

\* The field that a state of the scan stands for.
LEMMA FieldOfPlace ==
  ASSUME NEW n \in Nat, NEW p \in Nat, NEW q \in Nat, NEW r \in Nat, NEW k \in Nat, k > 0,
         p <= q, q = r \/ q + 1 < r, NEW s, ScanState(n, p, q, r, k, s)
  PROVE  /\ k <= p => s \notin {"s_req_path", "s_req_query_string", "s_req_fragment"}
         /\ p < k /\ k <= q => s = "s_req_path"
         /\ k = q + 1 => s \notin DOMAIN FieldOfState \/ s = "s_req_fragment"
         /\ q + 1 < k /\ k <= r => s = "s_req_query_string"
         /\ k > r => s \in Fragments
<1>1. ASSUME k <= p PROVE s \notin {"s_req_path", "s_req_query_string", "s_req_fragment"}
  <2>1. PrefixState(n, k, s)
    BY <1>1 DEF ScanState
  <2>2. \/ s \in {"s_req_schema", "s_req_schema_slash", "s_req_schema_slash_slash"}
        \/ s \in Servers
    <3>1. k <= n \/ k = n + 1 \/ k = n + 2 \/ k >= n + 3
      OBVIOUS
    <3> QED
      BY <2>1, <3>1 DEF PrefixState
  <2> QED
    BY <2>2 DEF Servers
<1>2. ASSUME k = q + 1 PROVE s \notin DOMAIN FieldOfState \/ s = "s_req_fragment"
  <2>1. s = "s_req_query_string_start" \/ s \in Fragments
    BY <1>2 DEF ScanState
  <2> QED
    BY <2>1 DEF Fragments, FieldOfState
<1>3. p < k /\ k <= q => s = "s_req_path"
  BY DEF ScanState
<1>4. q + 1 < k /\ k <= r => s = "s_req_query_string"
  BY DEF ScanState
<1>5. k > r => s \in Fragments
  BY DEF ScanState
<1> QED
  BY <1>1, <1>2, <1>3, <1>4, <1>5

LEMMA OtherFields ==
  ASSUME NEW s, NEW k, NEW acc, NEW next, Turned(next, acc, s, k),
         s \notin {"s_req_path", "s_req_query_string"}
  PROVE  /\ next.field = acc.field \/ next.field \in {"schema", "host", "fragment"}
         /\ \A f \in {"path", "query"} : next.u.off[f] = acc.u.off[f] /\ next.u.len[f] = acc.u.len[f]
         /\ acc.u.field_set \subseteq next.u.field_set
         /\ s \in Fragments => next.u.field_set \subseteq acc.u.field_set \cup {"fragment"}
<1>1. CASE s \notin DOMAIN FieldOfState
  <2>1. next.field = acc.field /\ next.u = acc.u
    BY <1>1 DEF Turned
  <2> QED
    BY <2>1
<1>2. CASE s \in DOMAIN FieldOfState
  <2> DEFINE f == FieldOfState[s]
  <2>1. next.field = f /\ ExtendedTo(next.u, acc.u, f, k - 1, f # acc.field)
    BY <1>2 DEF Turned
  <2>2. f \in {"schema", "host", "fragment"}
    BY <1>2 DEF FieldOfState
  <2>3. s \in Fragments => f = "fragment"
    BY <1>2 DEF FieldOfState, Fragments
  <2> HIDE DEF f
  <2>4. \A g \in {"path", "query"} : next.u.off[g] = acc.u.off[g] /\ next.u.len[g] = acc.u.len[g]
    BY <2>1, <2>2 DEF ExtendedTo, UrlFields
  <2>5. next.u.field_set \in {acc.u.field_set, acc.u.field_set \cup {f}}
    BY <2>1 DEF ExtendedTo
  <2> QED
    BY <2>1, <2>2, <2>3, <2>4, <2>5
<1> QED
  BY <1>1, <1>2

LEMMA MetNext ==
  ASSUME NEW p \in Nat, NEW q \in Nat, NEW r \in Nat, NEW k \in Nat, k > 0,
         p <= q, q = r \/ q + 1 < r
  PROVE  /\ p < k /\ k <= q => PathMet(p, q, k) = PathMet(p, q, k - 1) + 1
                               /\ (PathMet(p, q, k - 1) = 0 <=> k = p + 1)
                               /\ k - 1 = p + PathMet(p, q, k - 1)
         /\ ~(p < k /\ k <= q) => PathMet(p, q, k) = PathMet(p, q, k - 1)
         /\ q + 1 < k /\ k <= r => QueryMet(q, r, k) = QueryMet(q, r, k - 1) + 1
                                   /\ (QueryMet(q, r, k - 1) = 0 <=> k = q + 2)
                                   /\ k - 1 = q + 1 + QueryMet(q, r, k - 1)
         /\ ~(q + 1 < k /\ k <= r) => QueryMet(q, r, k) = QueryMet(q, r, k - 1)
         /\ PathMet(p, q, k - 1) \in Nat /\ QueryMet(q, r, k - 1) \in Nat
<1>1. p < k /\ k <= q => PathMet(p, q, k) = PathMet(p, q, k - 1) + 1
                         /\ (PathMet(p, q, k - 1) = 0 <=> k = p + 1)
                         /\ k - 1 = p + PathMet(p, q, k - 1)
  BY DEF PathMet
<1>2. ~(p < k /\ k <= q) => PathMet(p, q, k) = PathMet(p, q, k - 1)
  BY DEF PathMet
<1>3. q + 1 < k /\ k <= r => QueryMet(q, r, k) = QueryMet(q, r, k - 1) + 1
                             /\ (QueryMet(q, r, k - 1) = 0 <=> k = q + 2)
                             /\ k - 1 = q + 1 + QueryMet(q, r, k - 1)
  BY DEF QueryMet
<1>4. ~(q + 1 < k /\ k <= r) => QueryMet(q, r, k) = QueryMet(q, r, k - 1)
  BY DEF QueryMet
<1>5. PathMet(p, q, k - 1) \in Nat /\ QueryMet(q, r, k - 1) \in Nat
  BY DEF PathMet, QueryMet
<1> QED
  BY <1>1, <1>2, <1>3, <1>4, <1>5

\* A character of the path or of the query is one more of it, any other of none.
LEMMA FieldsStep ==
  ASSUME NEW n \in Nat, NEW p \in Nat, NEW q \in Nat, NEW r \in Nat, NEW k \in Nat, k > 0,
         p <= q, q = r \/ q + 1 < r, NEW s, ScanState(n, p, q, r, k, s), NEW v,
         NEW acc, FieldsRead(acc, v, p, q, r, k - 1), NEW next, Turned(next, acc, s, k),
         p = 0 => p < q
  PROVE  FieldsRead(next, v, p, q, r, k)
<1>1. /\ LastField(p, q, r, k - 1, acc.field) /\ FieldsSet(p, k - 1, acc.u.field_set)
      /\ PartRead(acc.u, v, "path", p, PathMet(p, q, k - 1))
      /\ PartRead(acc.u, v, "query", q + 1, QueryMet(q, r, k - 1))
  BY DEF FieldsRead
<1>2. /\ k <= p => s \notin {"s_req_path", "s_req_query_string", "s_req_fragment"}
      /\ p < k /\ k <= q => s = "s_req_path"
      /\ k = q + 1 => s \notin DOMAIN FieldOfState \/ s = "s_req_fragment"
      /\ q + 1 < k /\ k <= r => s = "s_req_query_string"
      /\ k > r => s \in Fragments
  BY FieldOfPlace
<1>3. PICK i \in Nat, j \in Nat :
        /\ i = PathMet(p, q, k - 1) /\ j = QueryMet(q, r, k - 1)
        /\ p < k /\ k <= q => PathMet(p, q, k) = i + 1 /\ (i = 0 <=> k = p + 1) /\ k - 1 = p + i
        /\ ~(p < k /\ k <= q) => PathMet(p, q, k) = i
        /\ q + 1 < k /\ k <= r => QueryMet(q, r, k) = j + 1 /\ (j = 0 <=> k = q + 2)
                                  /\ k - 1 = q + 1 + j
        /\ ~(q + 1 < k /\ k <= r) => QueryMet(q, r, k) = j
  <2> DEFINE i == PathMet(p, q, k - 1)
             j == QueryMet(q, r, k - 1)
  <2>1. p < k /\ k <= q => PathMet(p, q, k) = i + 1 /\ (i = 0 <=> k = p + 1) /\ k - 1 = p + i
    BY MetNext
  <2>2. ~(p < k /\ k <= q) => PathMet(p, q, k) = i
    BY MetNext
  <2>3. q + 1 < k /\ k <= r => QueryMet(q, r, k) = j + 1 /\ (j = 0 <=> k = q + 2)
                               /\ k - 1 = q + 1 + j
    BY DEF QueryMet
  <2>4. ~(q + 1 < k /\ k <= r) => QueryMet(q, r, k) = j
    BY DEF QueryMet
  <2>5. i \in Nat /\ j \in Nat
    BY MetNext
  <2> HIDE DEF i, j
  <2> QED
    BY <2>1, <2>2, <2>3, <2>4, <2>5 DEF i, j
<1>4. CASE p < k /\ k <= q
  <2>1. s = "s_req_path"
    BY <1>2, <1>4
  <2>2. next.field = "path" /\ ExtendedTo(next.u, acc.u, "path", k - 1, "path" # acc.field)
    BY <2>1 DEF Turned, FieldOfState
  <2>3. ("path" # acc.field) <=> i = 0
    <3>1. i = 0 <=> k = p + 1
      BY <1>3, <1>4
    <3>2. CASE k = p + 1
      <4>1. acc.field # "path"
        BY <1>1, <3>2 DEF LastField
      <4> QED
        BY <3>1, <3>2, <4>1
    <3>3. CASE k # p + 1
      <4>1. acc.field = "path"
        BY <1>1, <1>4, <3>3 DEF LastField
      <4> QED
        BY <3>1, <3>3, <4>1
    <3> QED
      BY <3>2, <3>3
  <2>4. ExtendedTo(next.u, acc.u, "path", p + i, i = 0)
    <3>1. k - 1 = p + i
      BY <1>3, <1>4
    <3> QED
      BY <2>2, <2>3, <3>1 DEF ExtendedTo
  <2>5. PartRead(next.u, v, "path", p, PathMet(p, q, k))
    <3>1. PartRead(next.u, v, "path", p, i + 1)
      <4>1. "path" \in UrlFields /\ PartRead(acc.u, v, "path", p, i)
        BY <1>1, <1>3 DEF UrlFields
      <4> QED
        BY <2>4, <4>1, PartGrows
    <3>2. PathMet(p, q, k) = i + 1
      BY <1>3, <1>4
    <3> QED
      BY <3>1, <3>2
  <2>6. PartRead(next.u, v, "query", q + 1, QueryMet(q, r, k))
    <3>1. QueryMet(q, r, k) = j
      <4>1. ~(q + 1 < k /\ k <= r)
        BY <1>4
      <4> QED
        BY <1>3, <4>1
    <3>2. next.u.off["query"] = acc.u.off["query"] /\ next.u.len["query"] = acc.u.len["query"]
      BY <2>2 DEF ExtendedTo, UrlFields
    <3> QED
      BY <1>1, <1>3, <3>1, <3>2 DEF PartRead
  <2>7. LastField(p, q, r, k, next.field)
    BY <1>4, <2>2 DEF LastField
  <2>8. FieldsSet(p, k, next.u.field_set)
    <3>1. CASE p = 0
      <4>1. acc.u.field_set \subseteq OriginFields
        BY <1>1, <3>1 DEF FieldsSet
      <4>2. next.u.field_set = IF i = 0 THEN acc.u.field_set \cup {"path"} ELSE acc.u.field_set
        BY <2>4 DEF ExtendedTo
      <4>3. i # 0 => k - 1 > 0
        BY <1>3, <1>4
      <4>4. i # 0 => "path" \in acc.u.field_set
        BY <1>1, <3>1, <4>3 DEF FieldsSet
      <4> QED
        BY <4>1, <4>2, <4>4 DEF FieldsSet, OriginFields
    <3> QED
      BY <3>1 DEF FieldsSet
  <2> QED
    BY <2>5, <2>6, <2>7, <2>8 DEF FieldsRead
<1>5. CASE q + 1 < k /\ k <= r
  <2>1. s = "s_req_query_string"
    BY <1>2, <1>5
  <2>2. next.field = "query" /\ ExtendedTo(next.u, acc.u, "query", k - 1, "query" # acc.field)
    BY <2>1 DEF Turned, FieldOfState
  <2>3. ("query" # acc.field) <=> j = 0
    <3>1. j = 0 <=> k = q + 2
      BY <1>3, <1>5
    <3>2. CASE k = q + 2
      <4>1. acc.field # "query"
        BY <1>1, <3>2 DEF LastField
      <4> QED
        BY <3>1, <3>2, <4>1
    <3>3. CASE k # q + 2
      <4>1. acc.field = "query"
        BY <1>1, <1>5, <3>3 DEF LastField
      <4> QED
        BY <3>1, <3>3, <4>1
    <3> QED
      BY <3>2, <3>3
  <2>4. ExtendedTo(next.u, acc.u, "query", (q + 1) + j, j = 0)
    <3>1. k - 1 = (q + 1) + j
      BY <1>3, <1>5
    <3> QED
      BY <2>2, <2>3, <3>1 DEF ExtendedTo
  <2>5. PartRead(next.u, v, "query", q + 1, QueryMet(q, r, k))
    <3>1. PartRead(next.u, v, "query", q + 1, j + 1)
      <4>1. "query" \in UrlFields /\ PartRead(acc.u, v, "query", q + 1, j) /\ q + 1 \in Nat
        BY <1>1, <1>3 DEF UrlFields
      <4> QED
        BY <2>4, <4>1, PartGrows
    <3>2. QueryMet(q, r, k) = j + 1
      BY <1>3, <1>5
    <3> QED
      BY <3>1, <3>2
  <2>6. PartRead(next.u, v, "path", p, PathMet(p, q, k))
    <3>1. PathMet(p, q, k) = i
      <4>1. ~(p < k /\ k <= q)
        BY <1>5
      <4> QED
        BY <1>3, <4>1
    <3>2. next.u.off["path"] = acc.u.off["path"] /\ next.u.len["path"] = acc.u.len["path"]
      BY <2>2 DEF ExtendedTo, UrlFields
    <3> QED
      BY <1>1, <1>3, <3>1, <3>2 DEF PartRead
  <2>7. LastField(p, q, r, k, next.field)
    BY <1>5, <2>2 DEF LastField
  <2>8. FieldsSet(p, k, next.u.field_set)
    <3>1. CASE p = 0
      <4>1. acc.u.field_set \subseteq OriginFields /\ "path" \in acc.u.field_set
        BY <1>1, <1>5, <3>1 DEF FieldsSet
      <4>2. next.u.field_set \in {acc.u.field_set \cup {"query"}, acc.u.field_set}
        BY <2>4 DEF ExtendedTo
      <4> QED
        BY <4>1, <4>2 DEF FieldsSet, OriginFields
    <3> QED
      BY <3>1 DEF FieldsSet
  <2> QED
    BY <2>5, <2>6, <2>7, <2>8 DEF FieldsRead
<1>6. CASE ~(p < k /\ k <= q) /\ ~(q + 1 < k /\ k <= r)
  <2>1. k <= p \/ k = q + 1 \/ (k > r /\ k > q + 1)
    BY <1>6
  <2>2. s \notin {"s_req_path", "s_req_query_string"}
    <3>1. k > r => s \notin {"s_req_path", "s_req_query_string"}
      BY <1>2 DEF Fragments
    <3>2. k = q + 1 => s \notin {"s_req_path", "s_req_query_string"}
      BY <1>2 DEF FieldOfState
    <3> QED
      BY <1>2, <2>1, <3>1, <3>2
  <2>3. /\ next.field = acc.field \/ next.field \in {"schema", "host", "fragment"}
        /\ \A f \in {"path", "query"} :
             next.u.off[f] = acc.u.off[f] /\ next.u.len[f] = acc.u.len[f]
        /\ acc.u.field_set \subseteq next.u.field_set
        /\ s \in Fragments => next.u.field_set \subseteq acc.u.field_set \cup {"fragment"}
    BY <2>2, OtherFields
  <2>4. PathMet(p, q, k) = i /\ QueryMet(q, r, k) = j
    BY <1>3, <1>6
  <2>5. /\ PartRead(next.u, v, "path", p, PathMet(p, q, k))
        /\ PartRead(next.u, v, "query", q + 1, QueryMet(q, r, k))
    BY <1>1, <1>3, <2>3, <2>4 DEF PartRead
  <2>6. LastField(p, q, r, k, next.field)
    <3>1. CASE k <= p
      <4>1. acc.field \notin {"path", "query"}
        BY <1>1, <3>1 DEF LastField
      <4> QED
        BY <2>3, <3>1, <4>1 DEF LastField
    <3>2. CASE k = q + 1
      <4>1. acc.field # "query"
        <5>1. CASE p < q
          BY <1>1, <3>2, <5>1 DEF LastField
        <5>2. CASE p = q
          BY <1>1, <3>2, <5>2 DEF LastField
        <5> QED
          BY <5>1, <5>2
      <4> QED
        BY <2>3, <3>2, <4>1 DEF LastField
    <3>3. CASE k > r /\ k > q + 1
      BY <3>3 DEF LastField
    <3> QED
      BY <2>1, <3>1, <3>2, <3>3
  <2>7. FieldsSet(p, k, next.u.field_set)
    <3>1. CASE p = 0
      <4>1. k > q /\ k - 1 > 0
        BY <1>6, <3>1
      <4>2. acc.u.field_set \subseteq OriginFields /\ "path" \in acc.u.field_set
        BY <1>1, <3>1, <4>1 DEF FieldsSet
      <4>3. next.u.field_set \subseteq acc.u.field_set \cup {"fragment"}
        <5>1. CASE s \in Fragments
          BY <2>3, <5>1
        <5>2. CASE s \notin Fragments
          <6>1. s \notin DOMAIN FieldOfState
            BY <1>2, <2>1, <3>1, <4>1, <5>2 DEF Fragments
          <6> QED
            BY <6>1 DEF Turned
        <5> QED
          BY <5>1, <5>2
      <4> QED
        BY <2>3, <4>2, <4>3 DEF FieldsSet, OriginFields
    <3> QED
      BY <3>1 DEF FieldsSet
  <2> QED
    BY <2>5, <2>6, <2>7 DEF FieldsRead
<1> QED
  BY <1>4, <1>5, <1>6


-----------------------------------------------------------------------------
(* The end of the scan. *)

\* Where the scan of a URL ends: not at all, or in a state behind its last part,
\* with the path and the query in the struct.
ScanEnds(acc, v, u, p, q, r, len) ==
  \/ acc.s = "s_dead" /\ u.schema # <<>>
  \/ acc.s # "s_dead" /\ FieldsRead(acc, v, p, q, r, len)

LEMMA ScanNeverDead ==
  ASSUME NEW n \in Nat, NEW p \in Nat, NEW q \in Nat, NEW r \in Nat, NEW k \in Nat, k > 0,
         p <= q, q = r \/ q + 1 < r, NEW s, ScanState(n, p, q, r, k, s)
  PROVE  s # "s_dead"
<1>1. CASE k <= p
  <2>1. PrefixState(n, k, s)
    BY <1>1 DEF ScanState
  <2>2. k <= n \/ k = n + 1 \/ k = n + 2 \/ k >= n + 3
    OBVIOUS
  <2> QED
    BY <2>1, <2>2 DEF PrefixState, Servers
<1>2. CASE k > p
  <2>1. k <= q \/ k = q + 1 \/ (k > q + 1 /\ k <= r) \/ k > r
    OBVIOUS
  <2>2. s \in {"s_req_path", "s_req_query_string_start", "s_req_query_string"} \/ s \in Fragments
    BY <1>2, <2>1 DEF ScanState
  <2> QED
    BY <2>2 DEF Fragments
<1> QED
  BY <1>1, <1>2

LEMMA UrlIsScanned ==
  ASSUME NEW u \in UrlParts, NEW text, NEW p \in Nat, NEW q \in Nat, NEW r \in Nat,
         p <= q, q = r \/ q + 1 < r, UrlPlaces(text, u, p, q, r), NEW len \in Nat, len = Len(text),
         len > 0, DOMAIN text = 1..len, NEW v \in UrlStruct, v.field_set = {}
  PROVE  LET acc == CutIntoFields(text, "s_req_spaces_before_url", v)
         IN acc \in CutStates /\ ScanEnds(acc, v, u, p, q, r, len)
<1> DEFINE start == "s_req_spaces_before_url"
           acc == CutIntoFields(text, start, v)
<1>1. start \in ScanStates
  BY DEF ScanStates
<1>2. PICK H \in [0..len -> CutStates] :
        /\ H[0] = CutFrom(start, v) /\ H[len] = acc
        /\ \A k \in 1..len : H[k] = UrlCharacter(text, H[k - 1], k)
  BY <1>1, CutRuns
<1>3. PICK n \in Nat : n = Len(u.schema)
  BY PartLengths
<1> HIDE DEF acc
<1> DEFINE Good(k) == \/ H[k].s = "s_dead" /\ u.schema # <<>>
                      \/ ScanState(n, p, q, r, k, H[k].s) /\ FieldsRead(H[k], v, p, q, r, k)
           S == {k \in Nat : k <= len => Good(k)}
<1>4. H[0].s = start /\ H[0].field = "none" /\ H[0].u = v
  BY <1>2 DEF CutFrom
<1>5. 0 \in S
  <2>1. ScanState(n, p, q, r, 0, H[0].s)
    BY <1>4 DEF ScanState, PrefixState
  <2>2. LastField(p, q, r, 0, H[0].field) /\ FieldsSet(p, 0, H[0].u.field_set)
    BY <1>4 DEF LastField, FieldsSet
  <2>3. PathMet(p, q, 0) = 0 /\ QueryMet(q, r, 0) = 0
    BY DEF PathMet, QueryMet
  <2>4. /\ PartRead(H[0].u, v, "path", p, PathMet(p, q, 0))
        /\ PartRead(H[0].u, v, "query", q + 1, QueryMet(q, r, 0))
    BY <1>4, <2>3 DEF PartRead
  <2>5. FieldsRead(H[0], v, p, q, r, 0)
    BY <2>2, <2>4 DEF FieldsRead
  <2> QED
    BY <2>1, <2>5
<1>6. ASSUME NEW j \in Nat, j \in S PROVE j + 1 \in S
  <2>1. SUFFICES ASSUME j + 1 <= len PROVE Good(j + 1)
    OBVIOUS
  <2>2. PICK k \in Nat : k = j + 1
    OBVIOUS
  <2>3. k > 0 /\ k \in 1..Len(text) /\ k - 1 = j /\ Good(k - 1) /\ k \in 1..len /\ k - 1 \in 0..len
    BY <1>6, <2>1, <2>2
  <2>4. PICK a \in CutStates, b \in CutStates :
          a = H[k - 1] /\ b = H[k] /\ b = UrlCharacter(text, a, k)
    BY <1>2, <2>3
  <2>5. Turned(b, a, parse_url_char(a.s, text[k]), k)
    BY <2>3, <2>4, TurnEffect
  <2>6. PICK t : t = parse_url_char(a.s, text[k]) /\ b.s = t /\ Turned(b, a, t, k)
    BY <2>5 DEF Turned
  <2>7. CASE a.s = "s_dead" /\ u.schema # <<>>
    <3>1. t = "s_dead"
      BY <2>6, <2>7, DeadStays
    <3> QED
      BY <2>2, <2>4, <2>6, <2>7, <3>1
  <2>8. CASE ScanState(n, p, q, r, k - 1, a.s) /\ FieldsRead(a, v, p, q, r, k - 1)
    <3>1. (t = "s_dead" /\ u.schema # <<>>) \/ ScanState(n, p, q, r, k, t)
      <4>1. q <= r /\ Len(text) \in Nat
        OBVIOUS
      <4>2. PICK st : st = a.s /\ ScanState(n, p, q, r, k - 1, st)
        BY <2>8
      <4>3. k \in 1..Len(text) /\ n = Len(u.schema)
        BY <1>3, <2>3
      <4>4. \/ parse_url_char(st, text[k]) = "s_dead" /\ u.schema # <<>>
            \/ ScanState(n, p, q, r, k, parse_url_char(st, text[k]))
        BY <4>1, <4>2, <4>3, StateStep
      <4> QED
        BY <2>6, <4>2, <4>4
    <3>2. CASE t = "s_dead" /\ u.schema # <<>>
      BY <2>2, <2>4, <2>6, <3>2
    <3>3. CASE ScanState(n, p, q, r, k, t)
      <4>1. p = 0 => p < q
        BY DEF UrlPlaces
      <4>2. FieldsRead(b, v, p, q, r, k)
        BY <2>3, <2>6, <2>8, <3>3, <4>1, FieldsStep
      <4> QED
        BY <2>2, <2>4, <2>6, <3>3, <4>2
    <3> QED
      BY <3>1, <3>2, <3>3
  <2> QED
    BY <2>3, <2>4, <2>7, <2>8
<1> HIDE DEF S
<1>7. len \in S
  BY <1>5, <1>6, Induction
<1>8. Good(len)
  BY <1>7 DEF S
<1>9. acc \in CutStates
  <2>1. len \in 0..len
    OBVIOUS
  <2> QED
    BY <1>2, <2>1
<1>10. ScanEnds(acc, v, u, p, q, r, len)
  <2>1. CASE acc.s = "s_dead" /\ u.schema # <<>>
    BY <2>1 DEF ScanEnds
  <2>2. CASE ScanState(n, p, q, r, len, acc.s) /\ FieldsRead(acc, v, p, q, r, len)
    <3>1. acc.s # "s_dead"
      BY <2>2, ScanNeverDead
    <3> QED
      BY <2>2, <3>1 DEF ScanEnds
  <2> QED
    BY <1>2, <1>8, <2>1, <2>2
<1> QED
  BY <1>9, <1>10 DEF acc


-----------------------------------------------------------------------------
(* The rest of http_parser_parse_url leaves the path and the query alone. *)

SamePlaces(u, v) ==
  \A f \in {"path", "query"} : u.off[f] = v.off[f] /\ u.len[f] = v.len[f]

HostScanStates ==
  {"s_http_userinfo_start", "s_http_userinfo", "s_http_host_start", "s_http_host",
   "s_http_host_dead", "s_http_host_v6_start", "s_http_host_v6", "s_http_host_v6_end",
   "s_http_host_v6_zone_start", "s_http_host_v6_zone", "s_http_host_port_start",
   "s_http_host_port"}
HostStates(v) == [s : HostScanStates, u : {u \in UrlStruct : SamePlaces(u, v)}]

LEMMA HostStateStays ==
  ASSUME NEW s \in HostScanStates, NEW c
  PROVE  http_parse_host_char(s, c) \in HostScanStates
BY DEF http_parse_host_char, HostScanStates

LEMMA ElsewhereExtended ==
  ASSUME NEW v, NEW u \in UrlStruct, SamePlaces(u, v), NEW f \in {"host", "port", "userinfo"},
         NEW at \in Nat, NEW first \in BOOLEAN
  PROVE  Extended(u, f, at, first) \in UrlStruct /\ SamePlaces(Extended(u, f, at, first), v)
<1>1. f \in UrlFields /\ f # "path" /\ f # "query" /\ "path" \in UrlFields /\ "query" \in UrlFields
  BY DEF UrlFields
<1>2. PICK w : w = Extended(u, f, at, first)
  OBVIOUS
<1>3. w \in UrlStruct /\ ExtendedTo(w, u, f, at, first)
  BY <1>1, <1>2, ExtendedEffect
<1>4. SamePlaces(w, v)
  BY <1>1, <1>3 DEF SamePlaces, ExtendedTo
<1> QED
  BY <1>2, <1>3, <1>4

LEMMA HostTurn ==
  ASSUME NEW v, NEW buf, NEW acc \in HostStates(v), NEW i \in Nat, i > 0
  PROVE  HostCharacter(buf, acc, i) \in HostStates(v)
<1> DEFINE s == http_parse_host_char(acc.s, buf[i])
           first == s # acc.s
           host == IF first /\ s \in {"s_http_host", "s_http_host_v6"}
                   THEN [acc.u EXCEPT !.off["host"] = Narrow(i - 1)] ELSE acc.u
           u == CASE s \in {"s_http_host", "s_http_host_v6", "s_http_host_v6_zone_start",
                            "s_http_host_v6_zone"} -> Extended(host, "host", i - 1, FALSE)
                  [] s = "s_http_host_port" -> Extended(acc.u, "port", i - 1, first)
                  [] s = "s_http_userinfo" -> Extended(acc.u, "userinfo", i - 1, first)
                  [] OTHER -> acc.u
<1>1. acc.s \in HostScanStates /\ acc.u \in UrlStruct /\ SamePlaces(acc.u, v)
  BY DEF HostStates
<1>2. s \in HostScanStates
  BY <1>1, HostStateStays
<1>3. host \in UrlStruct /\ SamePlaces(host, v)
  <2> DEFINE w == [acc.u EXCEPT !.off["host"] = Narrow(i - 1)]
             off == [acc.u.off EXCEPT !["host"] = Narrow(i - 1)]
  <2>1. acc.u.off \in [UrlFields -> Nat] /\ i - 1 \in Nat /\ "host" \in UrlFields
        /\ "path" \in UrlFields /\ "query" \in UrlFields
    BY <1>1 DEF UrlStruct, UrlFields
  <2>2. off \in [UrlFields -> Nat] /\ off["path"] = acc.u.off["path"]
        /\ off["query"] = acc.u.off["query"]
    BY <2>1, NarrowRange
  <2>3. w = [port |-> 0, field_set |-> acc.u.field_set, off |-> off, len |-> acc.u.len]
    BY <1>1 DEF UrlStruct
  <2> HIDE DEF off, w
  <2>4. w \in UrlStruct
    BY <1>1, <2>2, <2>3 DEF UrlStruct
  <2>5. SamePlaces(w, v)
    BY <1>1, <2>2, <2>3 DEF SamePlaces
  <2>6. host \in {w, acc.u}
    BY DEF w
  <2> QED
    BY <1>1, <2>4, <2>5, <2>6
<1>4. HostCharacter(buf, acc, i) = [s |-> s, u |-> u]
  BY DEF HostCharacter
<1>5. i - 1 \in Nat /\ first \in BOOLEAN
  OBVIOUS
<1> HIDE DEF s, host, first
<1>6. \A x \in UrlStruct, f \in {"host", "port", "userinfo"}, b \in BOOLEAN :
        SamePlaces(x, v) => /\ Extended(x, f, i - 1, b) \in UrlStruct
                            /\ SamePlaces(Extended(x, f, i - 1, b), v)
  BY <1>5, ElsewhereExtended
<1>7. u \in UrlStruct /\ SamePlaces(u, v)
  <2>1. u \in {Extended(host, "host", i - 1, FALSE), Extended(acc.u, "port", i - 1, first),
               Extended(acc.u, "userinfo", i - 1, first), acc.u}
    OBVIOUS
  <2> HIDE DEF u
  <2> QED
    BY <1>1, <1>3, <1>5, <1>6, <2>1
<1> HIDE DEF u
<1> QED
  BY <1>2, <1>4, <1>7 DEF HostStates

LEMMA HostRead ==
  ASSUME NEW v \in UrlStruct, NEW buf, NEW found_at
  PROVE  /\ http_parse_host(buf, v, found_at).u \in UrlStruct
         /\ SamePlaces(http_parse_host(buf, v, found_at).u, v)
<1> DEFINE bytes == [k \in 1..v.len["host"] |-> v.off["host"] + k]
           c == [s |-> IF found_at THEN "s_http_userinfo_start" ELSE "s_http_host_start",
                 u |-> [v EXCEPT !.len["host"] = 0]]
           Table(g) == g = [t \in SUBSET (DOMAIN bytes) |->
                              IF t = {} THEN c
                              ELSE HostCharacter(buf, g[t \ {Max(t)}], bytes[Max(t)])]
           end == (CHOOSE g : Table(g))[DOMAIN bytes]
           A == HostStates(v)
<1>1. http_parse_host(buf, v, found_at) = [ok |-> end.s \in HostEnds, u |-> end.u]
  BY Zenon DEF http_parse_host, FoldLeft, MapThenFoldSet
<1>2. PICK n \in Nat, at \in Nat : n = v.len["host"] /\ at = v.off["host"]
  <2>1. v.len["host"] \in Nat /\ v.off["host"] \in Nat
    BY DEF UrlStruct, UrlFields
  <2> QED
    BY <2>1
<1>3. DOMAIN bytes = 1..n /\ \A k \in 1..n : bytes[k] = at + k
  BY <1>2
<1>4. c \in A
  <2> DEFINE len == [v.len EXCEPT !["host"] = 0]
             w == [v EXCEPT !.len["host"] = 0]
  <2>1. v.len \in [UrlFields -> Nat] /\ "host" \in UrlFields
        /\ "path" \in UrlFields /\ "query" \in UrlFields
    BY DEF UrlStruct, UrlFields
  <2>2. len \in [UrlFields -> Nat] /\ len["path"] = v.len["path"] /\ len["query"] = v.len["query"]
    BY <2>1
  <2>3. w = [port |-> 0, field_set |-> v.field_set, off |-> v.off, len |-> len]
    BY DEF UrlStruct
  <2> HIDE DEF len, w
  <2>4. w \in UrlStruct
    BY <2>2, <2>3 DEF UrlStruct
  <2>5. SamePlaces(w, v)
    BY <2>2, <2>3 DEF SamePlaces
  <2>6. c.s \in HostScanStates /\ c = [s |-> c.s, u |-> w]
    BY DEF HostScanStates, w
  <2> QED
    BY <2>4, <2>5, <2>6 DEF HostStates
<1> HIDE DEF bytes, c
<1> DEFINE F == [x \in A \X (1..n) |-> HostCharacter(buf, x[1], at + x[2])]
<1>5. F \in [A \X (1..n) -> A]
  <2>1. ASSUME NEW x \in A \X (1..n)
        PROVE  HostCharacter(buf, x[1], at + x[2]) \in A
    <3>1. x[1] \in A /\ at + x[2] \in Nat /\ at + x[2] > 0
      OBVIOUS
    <3> QED
      BY <3>1, HostTurn
  <2> QED
    BY <2>1
<1>6. \A a \in A, k \in 1..n : F[<<a, k>>] = HostCharacter(buf, a, at + k)
  OBVIOUS
<1> HIDE DEF F, A
<1>7. PICK h \in [SUBSET (1..n) -> A] : FoldSteps(c, F, n, h)
  BY <1>4, <1>5, StepsExist DEF FoldExists
<1>8. Table(h)
  <2>1. ASSUME NEW t \in SUBSET (1..n)
        PROVE  h[t] = IF t = {} THEN c ELSE HostCharacter(buf, h[t \ {Max(t)}], bytes[Max(t)])
    <3>1. h[t] = IF t = {} THEN c ELSE F[<<h[t \ {Max(t)}], Max(t)>>]
      BY <1>7 DEF FoldSteps
    <3>2. ASSUME t # {}
          PROVE  F[<<h[t \ {Max(t)}], Max(t)>>]
                   = HostCharacter(buf, h[t \ {Max(t)}], bytes[Max(t)])
      <4>1. Max(t) \in 1..n /\ h[t \ {Max(t)}] \in A
        BY <3>2, GreatestOfSome
      <4> QED
        BY <1>3, <1>6, <4>1
    <3> QED
      BY <3>1, <3>2
  <2>2. h = [t \in SUBSET (1..n) |-> h[t]]
    OBVIOUS
  <2> QED
    BY <1>3, <2>1, <2>2, Zenon
<1>9. PICK g : g = (CHOOSE f : Table(f))
  OBVIOUS
<1>10. Table(g)
  BY <1>8, <1>9, Zenon
<1>11. \A t \in SUBSET (1..n) :
         g[t] = IF t = {} THEN c ELSE HostCharacter(buf, g[t \ {Max(t)}], bytes[Max(t)])
  BY <1>3, <1>10, Zenon
<1>12. end = g[1..n]
  BY <1>3, <1>9
<1> HIDE DEF Table, end
<1>13. g[{}] = c
  BY <1>11
<1>14. ASSUME NEW k \in 1..n, g[1..k - 1] \in A
       PROVE  g[1..k] = F[<<g[1..k - 1], k>>]
  <2>1. 1..k # {} /\ 1..k \in SUBSET (1..n) /\ Max(1..k) = k /\ (1..k) \ {k} = 1..k - 1
    BY LastPlace
  <2>2. g[1..k] = HostCharacter(buf, g[(1..k) \ {Max(1..k)}], bytes[Max(1..k)])
    BY <1>11, <2>1
  <2>3. g[1..k] = HostCharacter(buf, g[1..k - 1], at + k)
    BY <1>3, <2>1, <2>2
  <2> QED
    BY <1>6, <1>14, <2>3
<1>15. RunBy(A, c, F, n, g)
  BY <1>13, <1>14 DEF RunBy
<1>16. PICK H \in [0..n -> A] : H[n] = g[1..n]
  <2>1. RunsTo(A, c, F, n, g[1..n])
    BY <1>4, <1>5, <1>15, RunOfSteps
  <2> QED
    BY <2>1 DEF RunsTo
<1>17. end \in A
  BY <1>12, <1>16
<1>18. end.u \in UrlStruct /\ SamePlaces(end.u, v)
  BY <1>17 DEF A, HostStates
<1> QED
  BY <1>1, <1>18


\* A struct that may be used for the next URL.
Fresh(u) == [u EXCEPT !.port = 0, !.field_set = {}]
StructOK(u) == Fresh(u) \in UrlStruct

LEMMA FreshFields ==
  ASSUME NEW u, StructOK(u)
  PROVE  Fresh(u) \in UrlStruct /\ Fresh(u).field_set = {} /\ SamePlaces(Fresh(u), u)
<1>1. PICK v : v = Fresh(u)
  OBVIOUS
<1>2. v \in UrlStruct /\ DOMAIN v = DOMAIN u
  BY <1>1 DEF StructOK, Fresh
<1>3. "port" \in DOMAIN u /\ "field_set" \in DOMAIN u /\ "off" \in DOMAIN u /\ "len" \in DOMAIN u
  BY <1>2 DEF UrlStruct
<1>4. v.field_set = {} /\ v.off = u.off /\ v.len = u.len
  BY <1>1, <1>3 DEF Fresh
<1> QED
  BY <1>1, <1>2, <1>4 DEF SamePlaces

LEMMA FreshRecord ==
  ASSUME NEW x, NEW a, NEW b, NEW c
  PROVE  Fresh([port |-> x, field_set |-> a, off |-> b, len |-> c])
           = [port |-> 0, field_set |-> {}, off |-> b, len |-> c]
<1>1. PICK u : u = [port |-> x, field_set |-> a, off |-> b, len |-> c]
  OBVIOUS
<1>2. PICK v : v = [u EXCEPT !.port = 0]
  OBVIOUS
<1>3. v = [port |-> 0, field_set |-> a, off |-> b, len |-> c]
  BY <1>1, <1>2
<1>4. PICK w : w = [v EXCEPT !.field_set = {}]
  OBVIOUS
<1>5. w = [port |-> 0, field_set |-> {}, off |-> b, len |-> c]
  BY <1>3, <1>4
<1>6. Fresh(u) = w
  BY <1>2, <1>4, Zenon DEF Fresh
<1> QED
  BY <1>1, <1>5, <1>6

LEMMA StructRecord ==
  ASSUME NEW u \in UrlStruct
  PROVE  u = [port |-> 0, field_set |-> u.field_set, off |-> u.off, len |-> u.len]
BY DEF UrlStruct

LEMMA PortSet ==
  ASSUME NEW u \in UrlStruct, NEW port
  PROVE  LET w == [u EXCEPT !.port = port]
         IN StructOK(w) /\ SamePlaces(w, u) /\ w.field_set = u.field_set
<1> DEFINE w == [u EXCEPT !.port = port]
<1>1. w = [port |-> port, field_set |-> u.field_set, off |-> u.off, len |-> u.len]
  BY DEF UrlStruct
<1> HIDE DEF w
<1>2. Fresh(w) = [port |-> 0, field_set |-> {}, off |-> u.off, len |-> u.len]
  BY <1>1, FreshRecord
<1>3. Fresh(w) \in UrlStruct
  BY <1>2 DEF UrlStruct
<1> QED
  BY <1>1, <1>3 DEF StructOK, SamePlaces, w

LEMMA StructsOK ==
  ASSUME NEW u \in UrlStruct
  PROVE  StructOK(u)
<1>1. Fresh(u) = [port |-> 0, field_set |-> {}, off |-> u.off, len |-> u.len]
  <2>1. PICK a, b, c : a = u.field_set /\ b = u.off /\ c = u.len
    OBVIOUS
  <2>2. u = [port |-> 0, field_set |-> a, off |-> b, len |-> c]
    BY <2>1, StructRecord
  <2> QED
    BY <2>1, <2>2, FreshRecord
<1>2. Fresh(u) \in UrlStruct
  BY <1>1 DEF UrlStruct
<1> QED
  BY <1>2 DEF StructOK

\* What is done behind the scan.
AfterScan(parsed, cutUrl) ==
  /\ StructOK(parsed.u) /\ SamePlaces(parsed.u, cutUrl.u)
  /\ parsed.ok => cutUrl.s # "s_dead"
  /\ cutUrl.s # "s_dead" /\ cutUrl.u.field_set \subseteq OriginFields =>
       parsed.ok /\ parsed.u.field_set = cutUrl.u.field_set

LEMMA Behind ==
  ASSUME NEW buf, NEW cutUrl \in CutStates
  PROVE  AfterScan(WithFields(buf, FALSE, cutUrl), cutUrl)
<1> DEFINE v == cutUrl.u
           parsed == WithFields(buf, FALSE, cutUrl)
<1>1. v \in UrlStruct /\ SamePlaces(v, v)
  BY DEF CutStates, SamePlaces
<1>2. CASE cutUrl.s = "s_dead" \/ ("schema" \in v.field_set /\ "host" \notin v.field_set)
  <2>1. parsed = [ok |-> FALSE, u |-> v]
    BY <1>2 DEF WithFields, Refused
  <2>2. ~(v.field_set \subseteq OriginFields) \/ cutUrl.s = "s_dead"
    BY <1>2 DEF OriginFields
  <2>3. StructOK(v)
    BY <1>1, StructsOK
  <2>4. PICK result : result = parsed
    OBVIOUS
  <2> HIDE DEF parsed
  <2>5. ~result.ok /\ result.u = v
    BY <2>1, <2>4
  <2>6. AfterScan(result, cutUrl)
    BY <1>1, <2>2, <2>3, <2>5 DEF AfterScan
  <2> QED
    BY <2>4, <2>6 DEF parsed
<1>3. CASE ~(cutUrl.s = "s_dead" \/ ("schema" \in v.field_set /\ "host" \notin v.field_set))
  <2> DEFINE host == IF "host" \in v.field_set THEN http_parse_host(buf, v, cutUrl.found_at)
                     ELSE [ok |-> TRUE, u |-> v]
             port == IF "port" \in host.u.field_set THEN PortValue(buf, host.u) ELSE 0
  <2>1. parsed = WithHost(buf, FALSE, host)
    BY <1>3 DEF WithFields
  <2>2. host.u \in UrlStruct /\ SamePlaces(host.u, v)
    <3>1. CASE "host" \in v.field_set
      BY <1>1, <3>1, HostRead
    <3>2. CASE "host" \notin v.field_set
      BY <1>1, <3>2
    <3> QED
      BY <3>1, <3>2
  <2>3. v.field_set \subseteq OriginFields => host.ok /\ host.u = v /\ port = 0
    BY DEF OriginFields
  <2>4. PICK w : w = [host.u EXCEPT !.port = port]
    OBVIOUS
  <2>5. parsed = IF ~host.ok THEN Refused(host.u) ELSE WithPort(host.u, port)
    BY <2>1, Zenon DEF WithHost
  <2> HIDE DEF host, port, parsed
  <2>6. WithPort(host.u, port) \in {Refused(host.u), [ok |-> TRUE, u |-> w]}
        /\ (port = 0 => WithPort(host.u, port) = [ok |-> TRUE, u |-> w])
    BY <2>4 DEF WithPort
  <2>13. host.ok /\ port = 0 => parsed = [ok |-> TRUE, u |-> w]
    BY <2>5, <2>6
  <2>14. parsed \in {[ok |-> FALSE, u |-> host.u], [ok |-> TRUE, u |-> w]}
    BY <2>5, <2>6 DEF Refused
  <2>15. (host.ok /\ port = 0 => parsed.ok /\ parsed.u = w) /\ parsed.u \in {host.u, w}
    BY <2>13, <2>14
  <2>7. StructOK(w) /\ SamePlaces(w, host.u) /\ w.field_set = host.u.field_set
    BY <2>2, <2>4, PortSet
  <2>8. StructOK(host.u)
    BY <2>2, StructsOK
  <2>9. SamePlaces(w, v)
    BY <2>2, <2>7 DEF SamePlaces
  <2>10. StructOK(parsed.u) /\ SamePlaces(parsed.u, v)
    BY <2>2, <2>7, <2>8, <2>9, <2>15
  <2>11. cutUrl.s # "s_dead"
    BY <1>3
  <2>12. v.field_set \subseteq OriginFields => parsed.ok /\ parsed.u.field_set = v.field_set
    BY <2>3, <2>7, <2>15
  <2> QED
    BY <2>10, <2>11, <2>12 DEF AfterScan, parsed
<1> QED
  BY <1>2, <1>3

\* Whatever is parsed, the struct may be used again.
LEMMA StructKept ==
  ASSUME NEW text, NEW n \in Nat, DOMAIN text = 1..n, NEW old, StructOK(old)
  PROVE  StructOK(http_parser_parse_url(text, FALSE, old).u)
<1>1. CASE text = <<>>
  BY <1>1 DEF http_parser_parse_url, Refused
<1>2. CASE text # <<>>
  <2>1. PICK cutUrl : cutUrl = CutIntoFields(text, "s_req_spaces_before_url", Fresh(old))
    OBVIOUS
  <2>2. cutUrl \in CutStates
    <3>1. "s_req_spaces_before_url" \in ScanStates /\ Fresh(old) \in UrlStruct
      BY FreshFields DEF ScanStates
    <3>2. PICK H \in [0..n -> CutStates] : H[n] = cutUrl
      BY <2>1, <3>1, CutRuns
    <3> QED
      BY <3>2
  <2>3. http_parser_parse_url(text, FALSE, old) = WithFields(text, FALSE, cutUrl)
    BY <1>2, <2>1 DEF http_parser_parse_url, Fresh
  <2> QED
    BY <2>2, <2>3, Behind DEF AfterScan
<1> QED
  BY <1>1, <1>2

\* A URL that is parsed as a whole: p, q and r are where its path begins, where it
\* ends and where the query ends.
UrlRead(u, text, old, new, p, q, r) ==
  /\ p <= q /\ (q = r \/ q + 1 < r) /\ r <= Len(text)
  /\ Layout(text, u, p) /\ q = PathEnd(u, p) /\ r = QueryEnd(u, p)
  /\ PartRead(new, old, "path", p, q - p)
  /\ PartRead(new, old, "query", q + 1, IF r = q THEN 0 ELSE r - q - 1)
UrlParsed(u, text, old, parsed) ==
  /\ OriginForm(u) => parsed.ok /\ parsed.u.field_set # {}
  /\ parsed.ok => \E p \in Nat, q \in Nat, r \in Nat : UrlRead(u, text, old, parsed.u, p, q, r)

LEMMA PathOfOrigin ==
  ASSUME NEW u \in UrlParts, NEW text, NEW p \in Nat, Layout(text, u, p)
  PROVE  p = 0 <=> u.schema = <<>>
<1>1. CASE u.schema = <<>>
  BY <1>1 DEF Layout, PrefixLies
<1>2. CASE u.schema # <<>>
  <2>1. PICK n \in Nat : n = Len(u.schema)
    BY PartLengths
  <2>2. n + 3 <= p
    BY <1>2, <2>1 DEF Layout, PrefixLies
  <2> QED
    BY <1>2, <2>2
<1> QED
  BY <1>1, <1>2

LEMMA UrlIsParsed ==
  ASSUME NEW u \in UrlParts, Written(u), NEW text, text = UrlText(u), NEW old, StructOK(old)
  PROVE  UrlParsed(u, text, old, http_parser_parse_url(text, FALSE, old))
<1>1. PICK p \in Nat : Layout(text, u, p)
  BY UrlIsLaidOut
<1>2. text \in Word
  BY UrlIsLaidOut
<1>3. PICK len \in Nat : len = Len(text) /\ DOMAIN text = 1..len
  BY <1>2 DEF Word
<1>4. PICK q \in Nat, r \in Nat : q = PathEnd(u, p) /\ r = QueryEnd(u, p)
  BY PartLengths
<1>5. p <= q /\ r <= len
  BY <1>1, <1>3, <1>4, PartLengths DEF Layout
<1>6. q = r \/ q + 1 < r
  <2>1. CASE u.query = <<>>
    BY <1>4, <2>1 DEF QueryEnd
  <2>2. CASE u.query # <<>>
    <3>1. PICK m \in Nat : m = Len(u.query) /\ m # 0
      BY <2>2, PartLengths
    <3>2. r = q + 1 + m
      BY <1>4, <2>2, <3>1 DEF QueryEnd
    <3>3. m > 0
      BY <3>1
    <3> QED
      BY <3>2, <3>3
  <2> QED
    BY <2>1, <2>2
<1>7. UrlPlaces(text, u, p, q, r)
  BY <1>1, <1>4, LayoutPlaces
<1>8. len > 0 /\ text # <<>>
  <2>1. p = 0 => p < q
    BY <1>7 DEF UrlPlaces
  <2>2. len > 0
    BY <1>5, <1>6, <2>1
  <2> QED
    BY <1>3, <2>2
<1>9. PICK v \in UrlStruct : v = Fresh(old) /\ v.field_set = {} /\ SamePlaces(v, old)
  BY FreshFields
<1>10. PICK cutUrl \in CutStates :
         /\ cutUrl = CutIntoFields(text, "s_req_spaces_before_url", v)
         /\ ScanEnds(cutUrl, v, u, p, q, r, len)
  BY <1>3, <1>5, <1>6, <1>7, <1>8, <1>9, UrlIsScanned
<1>11. PICK parsed : parsed = http_parser_parse_url(text, FALSE, old)
  OBVIOUS
<1>12. AfterScan(parsed, cutUrl)
  <2>1. parsed = WithFields(text, FALSE, cutUrl)
    BY <1>8, <1>9, <1>10, <1>11 DEF http_parser_parse_url, Fresh
  <2> QED
    BY <2>1, Behind
<1>13. OriginForm(u) => parsed.ok /\ parsed.u.field_set # {}
  <2>1. SUFFICES ASSUME OriginForm(u) PROVE parsed.ok /\ parsed.u.field_set # {}
    OBVIOUS
  <2>2. p = 0
    BY <1>1, <2>1, PathOfOrigin DEF OriginForm
  <2>3. cutUrl.s # "s_dead" /\ FieldsRead(cutUrl, v, p, q, r, len)
    BY <1>10, <2>1 DEF ScanEnds, OriginForm
  <2>4. cutUrl.u.field_set \subseteq OriginFields /\ "path" \in cutUrl.u.field_set
    BY <1>8, <2>2, <2>3 DEF FieldsRead, FieldsSet
  <2> QED
    BY <1>12, <2>3, <2>4 DEF AfterScan
<1>14. ASSUME parsed.ok PROVE UrlRead(u, text, old, parsed.u, p, q, r)
  <2>1. FieldsRead(cutUrl, v, p, q, r, len) /\ SamePlaces(parsed.u, cutUrl.u)
    BY <1>10, <1>12, <1>14 DEF ScanEnds, AfterScan
  <2>2. PathMet(p, q, len) = q - p
    BY <1>5, <1>6 DEF PathMet
  <2>3. QueryMet(q, r, len) = IF r = q THEN 0 ELSE r - q - 1
    BY <1>5, <1>6 DEF QueryMet
  <2>4. PartRead(cutUrl.u, v, "path", p, q - p)
        /\ PartRead(cutUrl.u, v, "query", q + 1, IF r = q THEN 0 ELSE r - q - 1)
    BY <2>1, <2>2, <2>3 DEF FieldsRead
  <2>5. ASSUME NEW f \in {"path", "query"}, NEW at, NEW j, PartRead(cutUrl.u, v, f, at, j)
        PROVE  PartRead(parsed.u, old, f, at, j)
    BY <1>9, <2>1, <2>5 DEF SamePlaces, PartRead
  <2>6. PartRead(parsed.u, old, "path", p, q - p)
        /\ PartRead(parsed.u, old, "query", q + 1, IF r = q THEN 0 ELSE r - q - 1)
    BY <2>4, <2>5
  <2> QED
    BY <1>1, <1>3, <1>4, <1>5, <1>6, <2>6 DEF UrlRead
<1>15. UrlParsed(u, text, old, parsed)
  BY <1>13, <1>14 DEF UrlParsed
<1> QED
  BY <1>11, <1>15


-----------------------------------------------------------------------------
(* What is taken of a URL. *)

Bytes == Chars \cup {Unspecified}

LEMMA SliceShape ==
  ASSUME NEW piece \in Word, NEW off \in Nat, NEW to \in Nat, off <= to
  PROVE  /\ Slice(piece, off, to) \in Seq(Bytes) /\ Len(Slice(piece, off, to)) = to - off
         /\ \A i \in 1..to - off : off + i <= Len(piece) =>
              Slice(piece, off, to)[i] = piece[off + i]
<1> DEFINE pad == [i \in 1..to |-> Unspecified]
           s == SubSeq(piece \o pad, off + 1, to)
<1>1. pad \in Seq(Bytes) /\ Len(pad) = to
  <2>1. pad \in [1..to -> Bytes]
    BY DEF Bytes
  <2> HIDE DEF pad
  <2> QED
    BY <2>1
<1>2. PICK n \in Nat : n = Len(piece) /\ piece \in Seq(Bytes)
  <2>1. piece \in Seq(Chars) /\ Chars \subseteq Bytes
    BY DEF Word, Bytes
  <2>2. PICK n \in Nat : piece \in [1..n -> Chars] /\ n = Len(piece)
    BY <2>1
  <2>3. piece \in [1..n -> Bytes]
    BY <2>1, <2>2
  <2>4. piece \in Seq(Bytes)
    BY <2>3
  <2> QED
    BY <2>2, <2>4
<1> HIDE DEF pad
<1> DEFINE t == piece \o pad
<1>3. t \in Seq(Bytes) /\ Len(t) = n + to /\ \A i \in 1..n : t[i] = piece[i]
  BY <1>1, <1>2
<1> HIDE DEF t
<1> DEFINE z == SubSeq(t, off + 1, to)
<1>4. z \in Seq(Bytes) /\ Len(z) = to - off /\ \A i \in 1..to - off : z[i] = t[off + i]
  <2> DEFINE from == off + 1
  <2>1. from \in Int /\ to \in Int /\ to - from + 1 = to - off
        /\ (from <= to => to - off > 0) /\ (to - off > 0 => from <= to)
        /\ \A i \in from..to : t[i] \in Bytes
    <3>1. \A i \in from..to : i \in 1..Len(t)
      BY <1>2, <1>3
    <3>2. \A i \in 1..Len(t) : t[i] \in Bytes
      BY <1>3
    <3> QED
      BY <3>1, <3>2
  <2> HIDE DEF from, z
  <2>2. SubSeq(t, from, to) = z
    BY DEF from, z
  <2>3. /\ SubSeq(t, from, to) \in Seq(Bytes)
        /\ Len(SubSeq(t, from, to)) = IF from <= to THEN to - from + 1 ELSE 0
        /\ \A i \in 1..to - from + 1 : SubSeq(t, from, to)[i] = t[from + i - 1]
    BY <1>3, <2>1, SubSeqProperties
  <2>4. z \in Seq(Bytes) /\ Len(z) = to - off
    BY <2>1, <2>2, <2>3
  <2>5. ASSUME NEW i \in 1..to - off PROVE z[i] = t[off + i]
    <3>1. from + i - 1 = off + i
      BY DEF from
    <3> QED
      BY <2>1, <2>2, <2>3, <3>1
  <2> QED
    BY <2>4, <2>5
<1>5. \A i \in 1..to - off : off + i <= n => z[i] = piece[off + i]
  <2>1. SUFFICES ASSUME NEW i \in 1..to - off, off + i <= n PROVE z[i] = piece[off + i]
    OBVIOUS
  <2>2. off + i \in 1..n
    BY <2>1
  <2> HIDE DEF z
  <2> QED
    BY <1>3, <1>4, <2>2
<1>6. Slice(piece, off, to) = z
  BY DEF Slice, pad, t
<1> HIDE DEF z
<1> QED
  BY <1>2, <1>4, <1>5, <1>6

\* Two texts are the same if they are of one length and everywhere the same.
LEMMA SameText ==
  ASSUME NEW s \in Seq(Bytes), NEW t \in Text, NEW n \in Nat, Len(s) = n, Len(t) = n,
         \A i \in 1..n : s[i] = t[i]
  PROVE  s = t
<1>1. s \in [1..n -> Bytes]
  OBVIOUS
<1>2. t \in [1..n -> STRING]
  BY DEF Text
<1> QED
  BY <1>1, <1>2

\* The path of a URL that was parsed as a whole.
PathAsAsked(u, path) == path = u.path <=> OriginForm(u) /\ Fits(u.path)

LEMMA PathTaken ==
  ASSUME NEW u \in UrlParts, Written(u), NEW text \in Word, NEW old, NEW new,
         NEW p \in Nat, NEW q \in Nat, NEW r \in Nat, UrlRead(u, text, old, new, p, q, r),
         NEW off \in Nat, off = new.off["path"], NEW to \in Nat, to = new.len["path"],
         off <= to, Slice(text, off, to) # <<>>
  PROVE  PathAsAsked(u, Slice(text, off, to))
<1> DEFINE path == Slice(text, off, to)
<1>1. /\ path \in Seq(Bytes) /\ Len(path) = to - off
      /\ \A i \in 1..to - off : off + i <= Len(text) => path[i] = text[off + i]
  BY SliceShape
<1> HIDE DEF path
<1>2. PICK l \in Nat : l = Len(u.path) /\ q = p + l /\ (l = 0 <=> u.path = <<>>)
  BY PartLengths DEF UrlRead, PathEnd
<1>3. PICK len \in Nat : len = Len(text) /\ q <= len
  <2>1. Len(text) \in Nat /\ q <= r /\ r <= Len(text)
    BY DEF UrlRead, Word
  <2> QED
    BY <2>1
<1>4. \A i \in 1..l : text[p + i] = u.path[i]
  BY <1>2 DEF UrlRead, Layout, PathLies
<1>5. p = 0 <=> u.schema = <<>>
  BY PathOfOrigin DEF UrlRead
<1>6. u.path \in Text
  BY DEF UrlParts
<1>7. CASE l = 0
  BY <1>2, <1>7 DEF PathAsAsked, OriginForm, path
<1>8. CASE l > 0
  <2>1. off = Narrow(p) /\ Counted(to, l)
    <3>1. q - p = l /\ l # 0
      BY <1>2, <1>8
    <3>2. PartRead(new, old, "path", p, l)
      BY <3>1 DEF UrlRead
    <3> QED
      BY <3>1, <3>2 DEF PartRead
  <2>2. ASSUME path = u.path PROVE OriginForm(u) /\ Fits(u.path)
    <3>1. off = 0 /\ to = l /\ l <= UINT16_MAX
      <4>1. to - off = l /\ to <= l /\ to <= UINT16_MAX
        BY <1>1, <1>2, <2>1, <2>2 DEF Counted
      <4> QED
        BY <4>1
    <3>2. p = 0
      <4>1. SUFFICES ASSUME p # 0 PROVE FALSE
        OBVIOUS
      <4>2. u.schema # <<>> /\ u.path # <<>>
        BY <1>2, <1>5, <1>8, <4>1
      <4>3. u.path[1] = "/"
        BY <4>2 DEF Written
      <4>4. PICK n \in Nat : n = Len(u.schema) /\ n > 0
        <5>1. Len(u.schema) \in Nat /\ Len(u.schema) # 0
          BY <4>2, PartLengths
        <5>2. PICK n \in Nat : n = Len(u.schema)
          BY <5>1
        <5> QED
          BY <5>1, <5>2
      <4>5. text[1] = u.schema[1] /\ n + 3 <= p
        <5>1. BeginsWith(text, u.schema) /\ n + 3 <= p
          BY <4>2, <4>4 DEF UrlRead, Layout, PrefixLies
        <5> QED
          BY <4>4, <5>1 DEF BeginsWith
      <4>6. u.schema[1] # "/"
        <5>1. 1 \in DOMAIN u.schema
          BY <4>4, PartLengths
        <5> QED
          BY <4>2, <5>1 DEF Written
      <4>7. path[1] = text[1]
        <5>1. 1 \in 1..to - off /\ off + 1 = 1 /\ 1 <= len
          BY <1>2, <1>3, <1>8, <3>1
        <5> QED
          BY <1>1, <1>3, <5>1
      <4> QED
        BY <2>2, <4>3, <4>5, <4>6, <4>7
    <3> QED
      BY <1>2, <1>5, <1>8, <3>1, <3>2 DEF OriginForm, Fits
  <2>3. ASSUME OriginForm(u), Fits(u.path) PROVE path = u.path
    <3>1. p = 0 /\ l <= UINT16_MAX
      BY <1>2, <1>5, <2>3 DEF OriginForm, Fits
    <3>2. off = 0 /\ to = l
      <4>1. Narrow(0) = 0
        BY NarrowRange
      <4> QED
        BY <2>1, <3>1, <4>1 DEF Counted
    <3>3. ASSUME NEW i \in 1..l PROVE path[i] = u.path[i]
      <4>1. i \in 1..to - off /\ off + i <= len /\ off + i = p + i
        BY <1>2, <1>3, <3>1, <3>2
      <4> QED
        BY <1>1, <1>3, <1>4, <4>1
    <3> QED
      BY <1>1, <1>2, <1>6, <3>2, <3>3, SameText
  <2> QED
    BY <2>2, <2>3 DEF PathAsAsked, path
<1> QED
  BY <1>7, <1>8

\* The query of one whose fields fit.
LEMMA QueryTaken ==
  ASSUME NEW u \in UrlParts, NEW text \in Word, NEW old, NEW new, Fits(text),
         NEW p \in Nat, NEW q \in Nat, NEW r \in Nat, UrlRead(u, text, old, new, p, q, r),
         u.query # <<>> \/ (old.off["query"] = 0 /\ old.len["query"] = 0)
  PROVE  Slice(text, new.off["query"], new.off["query"] + new.len["query"]) = u.query
<1>1. PICK m \in Nat : m = Len(u.query)
  BY PartLengths
<1>10. /\ m = 0 <=> u.query = <<>>
       /\ m = 0 => r = q
       /\ m > 0 => r = q + 1 + m
  <2>1. m = 0 <=> u.query = <<>>
    BY <1>1, PartLengths
  <2>2. m = 0 => r = q
    BY <1>1, <2>1 DEF UrlRead, QueryEnd
  <2>3. m > 0 => r = q + 1 + m
    BY <1>1, <2>1 DEF UrlRead, QueryEnd
  <2> QED
    BY <2>1, <2>2, <2>3
<1>2. PICK len \in Nat : len = Len(text) /\ r <= len /\ len <= UINT16_MAX
  BY DEF UrlRead, Word, Fits
<1>3. u.query \in Text
  BY DEF UrlParts
<1>4. PartRead(new, old, "query", q + 1, m)
  <2>1. m = IF r = q THEN 0 ELSE r - q - 1
    <3>1. CASE m = 0
      BY <1>10, <3>1
    <3>2. CASE m > 0
      <4>1. r = q + 1 + m /\ r # q /\ r - q - 1 = m
        BY <1>10, <3>2
      <4> QED
        BY <4>1
    <3> QED
      BY <3>1, <3>2
  <2> QED
    BY <2>1 DEF UrlRead
<1>5. PICK off \in Nat : off = new.off["query"] /\ m = new.len["query"] /\ (m > 0 => off = q + 1)
  <2>1. CASE m = 0
    BY <1>4, <1>10, <2>1 DEF PartRead
  <2>2. CASE m > 0
    <3>1. new.off["query"] = Narrow(q + 1) /\ Counted(new.len["query"], m)
      BY <1>4, <2>2 DEF PartRead
    <3>2. q + 1 \in Nat /\ q + 1 <= UINT16_MAX /\ m <= UINT16_MAX
      <4>1. UINT16_MAX \in Nat
        BY WidthAssumption
      <4>2. r = q + 1 + m /\ r <= UINT16_MAX
        BY <1>2, <1>10, <2>2, <4>1
      <4> QED
        BY <4>1, <4>2
    <3> QED
      BY <3>1, <3>2, NarrowRange DEF Counted
  <2> QED
    BY <2>1, <2>2
<1>6. PICK to \in Nat : to = off + m /\ off <= to /\ to - off = m
  <2>1. off + m \in Nat /\ off <= off + m /\ off + m - off = m
    OBVIOUS
  <2> QED
    BY <2>1
<1> DEFINE s == Slice(text, off, to)
<1>7. /\ s \in Seq(Bytes) /\ Len(s) = m
      /\ \A i \in 1..m : off + i <= len => s[i] = text[off + i]
  <2>1. s \in Seq(Bytes) /\ Len(s) = to - off
        /\ \A i \in 1..to - off : off + i <= Len(text) => s[i] = text[off + i]
    BY <1>6, SliceShape
  <2> HIDE DEF s
  <2> QED
    BY <1>2, <1>6, <2>1
<1>8. ASSUME NEW i \in 1..m PROVE s[i] = u.query[i]
  <2>1. m > 0 /\ off = q + 1 /\ off + i <= len /\ q + 1 + i = off + i
    <3>1. m > 0
      OBVIOUS
    <3>2. off = q + 1 /\ r = q + 1 + m
      BY <1>5, <1>10, <3>1
    <3> QED
      BY <1>2, <3>1, <3>2
  <2>2. text[q + 1 + i] = u.query[i]
    <3>1. QueryLies(text, u, p) /\ q = PathEnd(u, p) /\ u.query # <<>>
      <4>1. m # 0
        BY <2>1
      <4> QED
        BY <1>10, <4>1 DEF UrlRead, Layout
    <3> QED
      BY <1>1, <3>1 DEF QueryLies
  <2> HIDE DEF s
  <2> QED
    BY <1>7, <2>1, <2>2
<1> HIDE DEF s
<1>9. s = u.query
  BY <1>1, <1>3, <1>7, <1>8, SameText
<1> QED
  BY <1>5, <1>6, <1>9 DEF s


-----------------------------------------------------------------------------
(* The elements of a query, one behind the other. *)

Where(query, c) == {i \in DOMAIN query : query[i] = c}
Ends(query) == Where(query, "&") \cup {Len(query) + 1}
Begins(query) == {i + 1 : i \in Where(query, "&") \cup {0}}
Element(query, b) == <<b, Min({e \in Ends(query) : e >= b})>>
Equals(query, e) == {i \in Where(query, "=") : e[1] <= i /\ i < e[2]}
Equal(query, e) == Min(Equals(query, e))
Elements(query) ==
  {e \in {Element(query, b) : b \in Begins(query)} :
     /\ \E i \in Where(query, "=") : e[1] <= i /\ i < e[2]
     /\ Equal(query, e) < Len(query)}
NameOf(query, e) == SubSeq(query, e[1], Equal(query, e) - 1)
ValueOf(query, e) == SubSeq(query, Equal(query, e) + 1, e[2] - 1)
Latest(query, n) ==
  CHOOSE e \in Elements(query) : NameOf(query, e) = n
    /\ \A f \in Elements(query) : NameOf(query, f) = n => f[1] <= e[1]

LEMMA PairsOfElements ==
  ASSUME NEW query
  PROVE  Pairs(query) = [n \in {NameOf(query, e) : e \in Elements(query)} |->
                           ValueOf(query, Latest(query, n))]
BY Zenon DEF Pairs, Where, Ends, Begins, Element, Equals, Equal, Elements, NameOf, ValueOf, Latest

LEMMA Least ==
  ASSUME NEW S, S \subseteq Int, NEW m \in S, \A x \in S : m <= x
  PROVE  Min(S) = m
<1>1. \E x \in S : \A y \in S : x <= y
  OBVIOUS
<1>2. PICK x : x = Min(S)
  OBVIOUS
<1>3. x \in S /\ \A y \in S : x <= y
  BY <1>1, <1>2 DEF Min
<1> QED
  BY <1>2, <1>3

LEMMA PartOfText ==
  ASSUME NEW query \in Text, NEW m \in Nat, m > 0, NEW k \in Int, k <= Len(query)
  PROVE  SubSeq(query, m, k) \in Text
<1>1. query \in Seq(STRING) /\ Len(query) \in Nat
  BY DEF Text
<1>2. \A i \in m..k : query[i] \in STRING
  BY <1>1
<1> QED
  BY <1>2, SubSeqProperties DEF Text

\* The places of a query.
LEMMA BeginShape ==
  ASSUME NEW query, NEW n \in Nat, DOMAIN query = 1..n
  PROVE  \A b : b \in Begins(query) <=> b \in 1..n + 1 /\ (b = 1 \/ query[b - 1] = "&")
<1>1. ASSUME NEW b \in Begins(query) PROVE b \in 1..n + 1 /\ (b = 1 \/ query[b - 1] = "&")
  <2>1. PICK i \in Where(query, "&") \cup {0} : b = i + 1
    BY DEF Begins
  <2>2. i = 0 \/ (i \in 1..n /\ query[i] = "&")
    BY DEF Where
  <2>3. i \in 0..n /\ b - 1 = i
    BY <2>1, <2>2
  <2> QED
    BY <2>1, <2>2, <2>3
<1>2. ASSUME NEW b \in 1..n + 1, b = 1 \/ query[b - 1] = "&" PROVE b \in Begins(query)
  <2>1. PICK i \in 0..n : i = b - 1 /\ b = i + 1
    OBVIOUS
  <2>2. i \in Where(query, "&") \cup {0}
    BY <1>2, <2>1 DEF Where
  <2> QED
    BY <2>1, <2>2 DEF Begins
<1> QED
  BY <1>1, <1>2

\* From b to before e no element ends, and e is an end.
Closes(query, n, b, e) ==
  /\ e \in b..n + 1 /\ (e = n + 1 \/ query[e] = "&")
  /\ \A i \in b..e - 1 : query[i] # "&"

LEMMA ElementAt ==
  ASSUME NEW query, NEW n \in Nat, DOMAIN query = 1..n, Len(query) = n, NEW b \in 1..n + 1,
         NEW e, Closes(query, n, b, e)
  PROVE  Element(query, b) = <<b, e>>
<1> DEFINE S == {x \in Ends(query) : x >= b}
<1>1. \A x : x \in Ends(query) <=> x = n + 1 \/ (x \in 1..n /\ query[x] = "&")
  BY DEF Ends, Where
<1>2. e \in Nat /\ e >= b /\ e \in Ends(query)
  <2>1. e \in b..n + 1 /\ (e = n + 1 \/ query[e] = "&")
    BY DEF Closes
  <2>2. e = n + 1 \/ e \in 1..n
    BY <2>1
  <2> QED
    BY <1>1, <2>1, <2>2
<1>3. S \subseteq Int
  BY <1>1
<1>4. ASSUME NEW x \in S PROVE e <= x
  <2>1. x \in Int /\ x >= b /\ (x = n + 1 \/ query[x] = "&")
    BY <1>1
  <2>2. x \notin b..e - 1
    <3>1. CASE x = n + 1
      BY <3>1 DEF Closes
    <3>2. CASE query[x] = "&"
      BY <3>2 DEF Closes
    <3> QED
      BY <2>1, <3>1, <3>2
  <2> QED
    BY <1>2, <2>1, <2>2
<1>5. e \in S
  BY <1>2
<1> HIDE DEF S
<1>6. Min(S) = e
  BY <1>3, <1>4, <1>5, Least
<1> QED
  BY <1>6 DEF Element, S

\* The first = of an element.
LEMMA EqualAt ==
  ASSUME NEW query, NEW n \in Nat, DOMAIN query = 1..n, NEW b \in 1..n + 1, NEW e \in b..n + 1,
         NEW j \in b..e - 1, query[j] = "=", \A i \in b..j - 1 : query[i] # "="
  PROVE  Equal(query, <<b, e>>) = j
<1> DEFINE S == Equals(query, <<b, e>>)
<1>1. \A x : x \in S <=> x \in 1..n /\ query[x] = "=" /\ b <= x /\ x < e
  BY DEF Equals, Where
<1>2. j \in S /\ S \subseteq Int
  BY <1>1
<1>3. \A x \in S : j <= x
  <2>1. SUFFICES ASSUME NEW x \in S, ~(j <= x) PROVE FALSE
    OBVIOUS
  <2>2. x \in b..j - 1 /\ query[x] = "="
    BY <1>1, <2>1
  <2> QED
    BY <2>2
<1> HIDE DEF S
<1> QED
  BY <1>2, <1>3, Least DEF Equal, S

\* The element at b counts.
Counts(query, n, b, e, j) ==
  /\ b \in Begins(query) /\ Closes(query, n, b, e)
  /\ j \in b..e - 1 /\ query[j] = "=" /\ \A i \in b..j - 1 : query[i] # "="

LEMMA ElementCounts ==
  ASSUME NEW query, NEW n \in Nat, DOMAIN query = 1..n, Len(query) = n, NEW b, NEW e, NEW j,
         Counts(query, n, b, e, j)
  PROVE  /\ Element(query, b) = <<b, e>> /\ Equal(query, <<b, e>>) = j
         /\ <<b, e>> \in Elements(query) <=> j < n
<1>1. b \in 1..n + 1 /\ e \in b..n + 1
  BY BeginShape DEF Counts, Closes
<1>2. Element(query, b) = <<b, e>>
  BY <1>1, ElementAt DEF Counts
<1>3. Equal(query, <<b, e>>) = j
  BY <1>1, EqualAt DEF Counts
<1>4. j \in Where(query, "=") /\ b <= j /\ j < e
  BY <1>1 DEF Counts, Where
<1>5. <<b, e>> \in {Element(query, x) : x \in Begins(query)}
  BY <1>2 DEF Counts
<1>6. \E i \in Where(query, "=") : <<b, e>>[1] <= i /\ i < <<b, e>>[2]
  BY <1>4
<1> QED
  BY <1>2, <1>3, <1>5, <1>6 DEF Elements

\* One without = does not.
LEMMA ElementWithoutEqual ==
  ASSUME NEW query, NEW n \in Nat, DOMAIN query = 1..n, Len(query) = n, NEW b \in 1..n + 1, NEW e,
         Closes(query, n, b, e), \A i \in b..e - 1 : query[i] # "="
  PROVE  Element(query, b) \notin Elements(query)
<1>1. Element(query, b) = <<b, e>> /\ e \in b..n + 1
  <2>1. e \in b..n + 1
    BY DEF Closes
  <2>2. Element(query, b) = <<b, e>>
    BY ElementAt
  <2> QED
    BY <2>1, <2>2
<1>2. SUFFICES ASSUME <<b, e>> \in Elements(query) PROVE FALSE
  BY <1>1
<1>3. PICK i \in Where(query, "=") : b <= i /\ i < e
  BY <1>2 DEF Elements
<1>4. i \in b..e - 1 /\ query[i] = "="
  BY <1>1, <1>3 DEF Where
<1> QED
  BY <1>4

\* An element that counts begins where it says.
LEMMA ElementBegins ==
  ASSUME NEW query, NEW e \in Elements(query)
  PROVE  e[1] \in Begins(query) /\ e = Element(query, e[1])
<1>1. PICK b \in Begins(query) : e = Element(query, b)
  BY DEF Elements
<1>2. e[1] = b
  BY <1>1 DEF Element
<1> QED
  BY <1>1, <1>2

-----------------------------------------------------------------------------
(* The map of the elements before a place. *)

Before(query, b) == {e \in Elements(query) : e[1] < b}

\* The map has the names of some elements, each with the value of the last of it.
MapIs(map, query, E) ==
  /\ DOMAIN map = {NameOf(query, e) : e \in E}
  /\ \A e \in E : (\A f \in E : NameOf(query, f) = NameOf(query, e) => f[1] <= e[1])
                  => map[NameOf(query, e)] = ValueOf(query, e)

\* An element behind all others replaces what its name stood for.
LEMMA MapGrows ==
  ASSUME NEW query, NEW E, NEW e, \A f \in E : f[1] \in Nat /\ f[1] < e[1], e[1] \in Nat,
         NEW map, MapIs(map, query, E)
  PROVE  MapIs(set(map, NameOf(query, e), ValueOf(query, e)), query, E \cup {e})
<1> DEFINE name == NameOf(query, e)
           value == ValueOf(query, e)
           new == set(map, name, value)
           Last_(S, x) == \A f \in S : NameOf(query, f) = NameOf(query, x) => f[1] <= x[1]
<1>1. DOMAIN new = DOMAIN map \cup {name} /\ new[name] = value
      /\ \A x \in DOMAIN map : x # name => new[x] = map[x]
  <2> HIDE DEF name, value
  <2> QED
    BY DEF set
<1>2. DOMAIN map = {NameOf(query, f) : f \in E}
      /\ \A x \in E : Last_(E, x) => map[NameOf(query, x)] = ValueOf(query, x)
  BY DEF MapIs
<1> HIDE DEF new
<1>3. DOMAIN new = {NameOf(query, f) : f \in E \cup {e}}
  BY <1>1, <1>2
<1>4. ASSUME NEW x \in E \cup {e}, Last_(E \cup {e}, x)
      PROVE  new[NameOf(query, x)] = ValueOf(query, x)
  <2>1. CASE x = e
    BY <1>1, <2>1
  <2>2. CASE x \in E
    <3>1. NameOf(query, x) # name
      <4>1. SUFFICES ASSUME NameOf(query, e) = NameOf(query, x) PROVE FALSE
        OBVIOUS
      <4>2. e[1] <= x[1]
        BY <1>4, <4>1
      <4> QED
        BY <2>2, <4>2
    <3>2. Last_(E, x)
      BY <1>4
    <3>3. map[NameOf(query, x)] = ValueOf(query, x) /\ NameOf(query, x) \in DOMAIN map
      BY <1>2, <2>2, <3>2
    <3> QED
      BY <1>1, <3>1, <3>3
  <2> QED
    BY <2>1, <2>2
<1> QED
  BY <1>3, <1>4 DEF MapIs, new

\* Of some elements, one begins last.
LEMMA LastElement ==
  ASSUME NEW E, NEW n \in Nat, \A e \in E : e[1] \in Nat /\ e[1] <= n, E # {}
  PROVE  \E e \in E : \A f \in E : f[1] <= e[1]
<1> DEFINE S == {n - e[1] : e \in E}
<1>1. S \subseteq Nat /\ S # {}
  OBVIOUS
<1> HIDE DEF S
<1>2. PICK x \in S : \A y \in S : x <= y
  BY <1>1, LeastNatural
<1>3. PICK e \in E : x = n - e[1]
  BY DEF S
<1>4. ASSUME NEW f \in E PROVE f[1] <= e[1]
  <2>1. n - f[1] \in S
    BY DEF S
  <2>2. n - e[1] <= n - f[1]
    BY <1>2, <1>3, <2>1
  <2> QED
    BY <2>2
<1> QED
  BY <1>4

\* The map of all elements is the one a client means.
LEMMA MapIsPairs ==
  ASSUME NEW query, NEW n \in Nat, DOMAIN query = 1..n, NEW map, MapIs(map, query, Elements(query)),
         map = [x \in DOMAIN map |-> map[x]]
  PROVE  map = Pairs(query)
<1> DEFINE E == Elements(query)
<1>1. \A e \in E : e[1] \in Nat /\ e[1] <= n + 1
  <2>1. SUFFICES ASSUME NEW e \in E PROVE e[1] \in 1..n + 1
    OBVIOUS
  <2> QED
    BY ElementBegins, BeginShape
<1>2. DOMAIN map = {NameOf(query, e) : e \in E}
  BY DEF MapIs
<1>3. ASSUME NEW name \in DOMAIN map PROVE map[name] = ValueOf(query, Latest(query, name))
  <2> DEFINE Named == {e \in E : NameOf(query, e) = name}
  <2>1. Named # {} /\ \A e \in Named : e[1] \in Nat /\ e[1] <= n + 1
    BY <1>1, <1>2
  <2> HIDE DEF Named
  <2>2. PICK e \in Named : \A f \in Named : f[1] <= e[1]
    <3>1. n + 1 \in Nat
      OBVIOUS
    <3> QED
      BY <2>1, <3>1, LastElement
  <2>3. e \in E /\ NameOf(query, e) = name
        /\ \A f \in E : NameOf(query, f) = name => f[1] <= e[1]
    BY <2>2 DEF Named
  <2>4. PICK l : l = Latest(query, name)
    OBVIOUS
  <2>5. l \in E /\ NameOf(query, l) = name
        /\ \A f \in E : NameOf(query, f) = name => f[1] <= l[1]
    BY <2>3, <2>4, Zenon DEF Latest
  <2>6. map[NameOf(query, l)] = ValueOf(query, l)
    BY <2>5 DEF MapIs
  <2> QED
    BY <2>4, <2>5, <2>6
<1>4. Pairs(query) = [x \in DOMAIN map |-> ValueOf(query, Latest(query, x))]
  BY <1>2, PairsOfElements
<1> QED
  BY <1>3, <1>4

-----------------------------------------------------------------------------
(* The loop over the query. *)

Maps == UNION {[D -> Text] : D \in SUBSET Text}
QueryTurns == [value : BOOLEAN, begin : Nat \ {0}, name : Text, query : Maps]
QueryStart == [value |-> FALSE, begin |-> 1, name |-> <<>>, query |-> <<>>]

LEMMA MapsShape ==
  /\ \A m : m \in Maps <=> /\ m = [x \in DOMAIN m |-> m[x]] /\ DOMAIN m \subseteq Text
                           /\ \A x \in DOMAIN m : m[x] \in Text
  /\ <<>> \in Maps
<1>1. ASSUME NEW m \in Maps
      PROVE  /\ m = [x \in DOMAIN m |-> m[x]] /\ DOMAIN m \subseteq Text
             /\ \A x \in DOMAIN m : m[x] \in Text
  <2>1. PICK D \in SUBSET Text : m \in [D -> Text]
    BY DEF Maps
  <2> QED
    BY <2>1
<1>2. ASSUME NEW m, m = [x \in DOMAIN m |-> m[x]], DOMAIN m \subseteq Text,
             \A x \in DOMAIN m : m[x] \in Text
      PROVE  m \in Maps
  <2>1. PICK D : D = DOMAIN m
    OBVIOUS
  <2>2. m \in [D -> Text] /\ D \in SUBSET Text
    BY <1>2, <2>1
  <2> QED
    BY <2>2 DEF Maps
<1>3. <<>> \in Maps
  <2>1. <<>> \in [{} -> Text]
    OBVIOUS
  <2> QED
    BY <2>1 DEF Maps
<1> QED
  BY <1>1, <1>2, <1>3

LEMMA MapSet ==
  ASSUME NEW m \in Maps, NEW name \in Text, NEW value \in Text
  PROVE  set(m, name, value) \in Maps
<1>1. DOMAIN m \subseteq Text /\ \A x \in DOMAIN m : m[x] \in Text
  BY MapsShape
<1>2. PICK D \in SUBSET Text : D = DOMAIN m \cup {name}
  BY <1>1
<1>3. set(m, name, value) = [x \in D |-> IF x = name THEN value ELSE m[x]]
  BY <1>2 DEF set
<1>4. set(m, name, value) \in [D -> Text]
  BY <1>1, <1>2, <1>3
<1> QED
  BY <1>4 DEF Maps

\* What a turn does: it opens a value, ends an element or does neither.
Opens(next, acc, text, k) ==
  next = [value |-> TRUE, begin |-> k + 1, name |-> SubSeq(text, acc.begin, k - 1),
          query |-> acc.query]
EndsWith(next, acc, text, k, to) ==
  next = [value |-> FALSE, begin |-> k + 1, name |-> acc.name,
          query |-> set(acc.query, acc.name, SubSeq(text, acc.begin, to))]

LEMMA QueryTurn ==
  ASSUME NEW n \in Nat, NEW text, Len(text) = n, NEW acc \in QueryTurns, NEW k \in 1..n
  PROVE  LET next == QueryCharacter(text, acc, k)
         IN /\ ~acc.value /\ text[k] = "=" => Opens(next, acc, text, k)
            /\ acc.value /\ text[k] = "&" => EndsWith(next, acc, text, k, k - 1)
            /\ acc.value /\ text[k] # "&" /\ k = n => EndsWith(next, acc, text, k, n)
            /\ ~acc.value /\ text[k] # "=" => next = acc
            /\ acc.value /\ text[k] # "&" /\ k # n => next = acc
<1> DEFINE next == QueryCharacter(text, acc, k)
<1>1. acc.value \in BOOLEAN /\ acc = [value |-> acc.value, begin |-> acc.begin, name |-> acc.name,
                                      query |-> acc.query]
  BY DEF QueryTurns
<1>2. ASSUME ~acc.value, text[k] = "=" PROVE Opens(next, acc, text, k)
  <2>1. next = [acc EXCEPT !.value = TRUE, !.name = SubSeq(text, acc.begin, k - 1), !.begin = k + 1]
    BY <1>2, Zenon DEF QueryCharacter
  <2> HIDE DEF next
  <2> QED
    BY <2>1 DEF Opens, QueryTurns
<1>3. ASSUME NEW to, acc.value, (text[k] = "&" /\ to = k - 1) \/ (text[k] # "&" /\ to = n /\ k = n)
      PROVE  EndsWith(next, acc, text, k, to)
  <2>1. next = [acc EXCEPT !.value = FALSE, !.begin = k + 1,
                           !.query = set(@, acc.name, SubSeq(text, acc.begin, to))]
    BY <1>3, Zenon DEF QueryCharacter
  <2> HIDE DEF next
  <2> QED
    BY <2>1 DEF EndsWith, QueryTurns
<1>4. ASSUME ~acc.value, text[k] # "=" PROVE next = acc
  BY <1>4, Zenon DEF QueryCharacter
<1>5. ASSUME acc.value, text[k] # "&", k # n PROVE next = acc
  BY <1>5, Zenon DEF QueryCharacter
<1> HIDE DEF next
<1>6. acc.value /\ text[k] = "&" => EndsWith(next, acc, text, k, k - 1)
  <2>1. PICK to : to = k - 1
    OBVIOUS
  <2> QED
    BY <1>3, <2>1
<1>7. acc.value /\ text[k] # "&" /\ k = n => EndsWith(next, acc, text, k, n)
  BY <1>3
<1> QED
  BY <1>2, <1>4, <1>5, <1>6, <1>7 DEF next

LEMMA TurnStays ==
  ASSUME NEW text \in Text, NEW n \in Nat, Len(text) = n, NEW acc \in QueryTurns, NEW k \in 1..n
  PROVE  QueryCharacter(text, acc, k) \in QueryTurns
<1>1. PICK next : next = QueryCharacter(text, acc, k)
  OBVIOUS
<1>2. /\ acc.value \in BOOLEAN /\ acc.begin \in Nat \ {0} /\ acc.name \in Text /\ acc.query \in Maps
  BY DEF QueryTurns
<1>3. \/ Opens(next, acc, text, k) \/ next = acc
      \/ \E to \in {k - 1, n} : EndsWith(next, acc, text, k, to)
  <2>1. /\ ~acc.value /\ text[k] = "=" => Opens(next, acc, text, k)
        /\ acc.value /\ text[k] = "&" => EndsWith(next, acc, text, k, k - 1)
        /\ acc.value /\ text[k] # "&" /\ k = n => EndsWith(next, acc, text, k, n)
        /\ ~acc.value /\ text[k] # "=" => next = acc
        /\ acc.value /\ text[k] # "&" /\ k # n => next = acc
    BY <1>1, QueryTurn
  <2> QED
    BY <1>2, <2>1
<1>4. \A to \in {k - 1, n} : SubSeq(text, acc.begin, to) \in Text
  <2>1. SUFFICES ASSUME NEW to \in {k - 1, n} PROVE SubSeq(text, acc.begin, to) \in Text
    OBVIOUS
  <2>2. to \in Int /\ to <= Len(text) /\ acc.begin \in Nat /\ acc.begin > 0
    BY <1>2
  <2> QED
    BY <2>2, PartOfText
<1>5. k + 1 \in Nat \ {0}
  OBVIOUS
<1>6. CASE Opens(next, acc, text, k)
  BY <1>1, <1>2, <1>4, <1>5, <1>6 DEF Opens, QueryTurns
<1>7. ASSUME NEW to \in {k - 1, n}, EndsWith(next, acc, text, k, to) PROVE next \in QueryTurns
  <2>1. set(acc.query, acc.name, SubSeq(text, acc.begin, to)) \in Maps
    BY <1>2, <1>4, MapSet
  <2> QED
    BY <1>2, <1>5, <1>7, <2>1 DEF EndsWith, QueryTurns
<1> QED
  BY <1>1, <1>3, <1>6, <1>7

\* The elements that begin not behind e.
ElementsTo(query, e) == {f \in Elements(query) : f[1] <= e}

LEMMA ElementsNext ==
  ASSUME NEW query, NEW n \in Nat, DOMAIN query = 1..n, Len(query) = n, NEW b \in Begins(query),
         NEW e, Closes(query, n, b, e)
  PROVE  /\ Element(query, b) \in Elements(query) =>
              ElementsTo(query, e) = Before(query, b) \cup {Element(query, b)}
         /\ Element(query, b) \notin Elements(query) => ElementsTo(query, e) = Before(query, b)
<1>1. b \in 1..n + 1 /\ e \in b..n + 1
  BY BeginShape DEF Closes
<1>2. ASSUME NEW f \in Elements(query)
      PROVE  f[1] <= e <=> f[1] < b \/ f = Element(query, b)
  <2>1. f[1] \in 1..n + 1 /\ (f[1] = 1 \/ query[f[1] - 1] = "&") /\ f = Element(query, f[1])
    BY ElementBegins, BeginShape
  <2>2. ~(b < f[1] /\ f[1] <= e)
    <3>1. SUFFICES ASSUME b < f[1], f[1] <= e PROVE FALSE
      OBVIOUS
    <3>2. f[1] - 1 \in b..e - 1 /\ f[1] # 1
      BY <1>1, <2>1, <3>1
    <3> QED
      BY <2>1, <3>2 DEF Closes
  <2>3. f = Element(query, b) => f[1] = b
    BY DEF Element
  <2>4. f[1] = b => f = Element(query, b)
    BY <2>1
  <2> QED
    BY <1>1, <2>1, <2>2, <2>3, <2>4
<1> QED
  BY <1>2 DEF ElementsTo, Before, Element

LEMMA ElementAdded ==
  ASSUME NEW query, NEW n \in Nat, DOMAIN query = 1..n, Len(query) = n, NEW b, NEW e, NEW j,
         Counts(query, n, b, e, j), NEW map, MapIs(map, query, Before(query, b))
  PROVE  /\ j < n => MapIs(set(map, SubSeq(query, b, j - 1), SubSeq(query, j + 1, e - 1)),
                           query, ElementsTo(query, e))
         /\ ~(j < n) => MapIs(map, query, ElementsTo(query, e))
<1>1. b \in Begins(query) /\ b \in 1..n + 1 /\ Closes(query, n, b, e)
  BY BeginShape DEF Counts
<1>2. /\ Element(query, b) = <<b, e>> /\ Equal(query, <<b, e>>) = j
      /\ <<b, e>> \in Elements(query) <=> j < n
  BY ElementCounts
<1>3. ASSUME j < n
      PROVE  MapIs(set(map, SubSeq(query, b, j - 1), SubSeq(query, j + 1, e - 1)),
                   query, ElementsTo(query, e))
  <2>1. ElementsTo(query, e) = Before(query, b) \cup {<<b, e>>}
    BY <1>1, <1>2, <1>3, ElementsNext
  <2>6. PICK el : el = <<b, e>>
    OBVIOUS
  <2>2. el = <<b, e>> /\ el[1] = b /\ el[2] = e
    BY <2>6
  <2>3. \A f \in Before(query, b) : f[1] \in Nat /\ f[1] < el[1]
    <3>1. \A f \in Elements(query) : f[1] \in 1..n + 1
      BY ElementBegins, BeginShape
    <3> QED
      BY <2>2, <3>1 DEF Before
  <2>4. NameOf(query, el) = SubSeq(query, b, j - 1) /\ ValueOf(query, el) = SubSeq(query, j + 1, e - 1)
    BY <1>2, <2>2 DEF NameOf, ValueOf
  <2>5. MapIs(set(map, NameOf(query, el), ValueOf(query, el)), query, Before(query, b) \cup {el})
    <3>1. el[1] \in Nat
      BY <1>1, <2>2
    <3> QED
      BY <2>3, <3>1, MapGrows
  <2> QED
    BY <2>1, <2>2, <2>4, <2>5
<1>4. ASSUME ~(j < n) PROVE MapIs(map, query, ElementsTo(query, e))
  <2>1. ElementsTo(query, e) = Before(query, b)
    BY <1>1, <1>2, <1>4, ElementsNext
  <2> QED
    BY <2>1
<1> QED
  BY <1>3, <1>4

LEMMA ElementSkipped ==
  ASSUME NEW query, NEW n \in Nat, DOMAIN query = 1..n, Len(query) = n, NEW b \in Begins(query),
         NEW e, Closes(query, n, b, e), \A i \in b..e - 1 : query[i] # "=",
         NEW map, MapIs(map, query, Before(query, b))
  PROVE  MapIs(map, query, ElementsTo(query, e))
<1>1. b \in 1..n + 1
  BY BeginShape
<1>2. Element(query, b) \notin Elements(query)
  BY <1>1, ElementWithoutEqual
<1>3. ElementsTo(query, e) = Before(query, b)
  BY <1>2, ElementsNext
<1> QED
  BY <1>3

\* In the element at b, behind k characters.
InElement(acc, query, k, b) ==
  /\ b \in Begins(query) /\ b \in 1..k + 1 /\ \A i \in b..k : query[i] # "&"
  /\ MapIs(acc.query, query, Before(query, b))
  /\ \/ ~acc.value /\ acc.begin = b /\ \A i \in b..k : query[i] # "="
     \/ acc.value /\ \E j \in b..k : /\ query[j] = "=" /\ \A i \in b..j - 1 : query[i] # "="
                                     /\ acc.begin = j + 1 /\ acc.name = SubSeq(query, b, j - 1)
QueryRead(acc, query, k) == \E b : InElement(acc, query, k, b)

LEMMA AllElements ==
  ASSUME NEW query, NEW n \in Nat, DOMAIN query = 1..n
  PROVE  ElementsTo(query, n + 1) = Elements(query)
<1>1. \A f \in Elements(query) : f[1] <= n + 1
  <2>1. \A f \in Elements(query) : f[1] \in 1..n + 1
    BY ElementBegins, BeginShape
  <2> QED
    BY <2>1
<1> QED
  BY <1>1 DEF ElementsTo

LEMMA OpensFields ==
  ASSUME NEW next, NEW acc, NEW text, NEW k, Opens(next, acc, text, k)
  PROVE  next.value = TRUE /\ next.begin = k + 1 /\ next.name = SubSeq(text, acc.begin, k - 1)
         /\ next.query = acc.query
<1>1. PICK a, b, c : a = k + 1 /\ b = SubSeq(text, acc.begin, k - 1) /\ c = acc.query
  OBVIOUS
<1>2. next = [value |-> TRUE, begin |-> a, name |-> b, query |-> c]
  BY <1>1 DEF Opens
<1>3. next.value = TRUE /\ next.begin = a /\ next.name = b /\ next.query = c
  BY <1>2
<1> QED
  BY <1>1, <1>3

LEMMA ElementOpened ==
  ASSUME NEW text, NEW k \in Nat, NEW b \in 1..k, NEW acc, NEW next, Opens(next, acc, text, k),
         b \in Begins(text), \A i \in b..k : text[i] # "&", MapIs(acc.query, text, Before(text, b)),
         acc.begin = b, \A i \in b..k - 1 : text[i] # "=", text[k] = "="
  PROVE  InElement(next, text, k, b)
<1>1. next.value = TRUE /\ next.begin = k + 1 /\ next.name = SubSeq(text, acc.begin, k - 1)
      /\ next.query = acc.query
  BY OpensFields
<1>2. k \in b..k /\ b \in 1..k + 1
  OBVIOUS
<1>3. next.value /\ next.begin = k + 1 /\ next.name = SubSeq(text, b, k - 1)
  BY <1>1
<1> QED
  BY <1>1, <1>2, <1>3 DEF InElement

LEMMA QueryStep ==
  ASSUME NEW text \in Text, NEW n \in Nat, Len(text) = n, DOMAIN text = 1..n, Regular(text),
         NEW k \in 1..n, NEW acc \in QueryTurns, QueryRead(acc, text, k - 1),
         NEW next, next = QueryCharacter(text, acc, k)
  PROVE  /\ k < n => QueryRead(next, text, k)
         /\ k = n => MapIs(next.query, text, Elements(text))
<1>1. PICK b : InElement(acc, text, k - 1, b)
  BY DEF QueryRead
<1>2. /\ b \in Begins(text) /\ b \in 1..k /\ \A i \in b..k - 1 : text[i] # "&"
      /\ MapIs(acc.query, text, Before(text, b))
  <2>1. (k - 1) + 1 = k
    OBVIOUS
  <2> QED
    BY <1>1, <2>1 DEF InElement
<1>3. /\ ~acc.value /\ text[k] = "=" => Opens(next, acc, text, k)
      /\ acc.value /\ text[k] = "&" => EndsWith(next, acc, text, k, k - 1)
      /\ acc.value /\ text[k] # "&" /\ k = n => EndsWith(next, acc, text, k, n)
      /\ ~acc.value /\ text[k] # "=" => next = acc
      /\ acc.value /\ text[k] # "&" /\ k # n => next = acc
  BY QueryTurn
<1>4. ASSUME ~acc.value PROVE acc.begin = b /\ \A i \in b..k - 1 : text[i] # "="
  BY <1>1, <1>4 DEF InElement
<1>5. ASSUME acc.value
      PROVE  \E j \in b..k - 1 : /\ text[j] = "=" /\ \A i \in b..j - 1 : text[i] # "="
                                 /\ acc.begin = j + 1 /\ acc.name = SubSeq(text, b, j - 1)
  BY <1>1, <1>5 DEF InElement
<1>6. CASE text[k] = "&"
  <2>1. acc.value
    <3>1. SUFFICES ASSUME ~acc.value PROVE FALSE
      OBVIOUS
    <3>2. PICK j \in 1..k - 1 : text[j] = "=" /\ \A i \in j..k - 1 : text[i] # "&"
      BY <1>6 DEF Regular
    <3>3. j >= b
      <4>1. SUFFICES ASSUME j < b PROVE FALSE
        BY <1>2
      <4>2. text[b - 1] = "&" /\ b - 1 \in j..k - 1
        <5>1. b # 1 /\ b - 1 \in j..k - 1
          BY <1>2, <4>1
        <5>2. b = 1 \/ text[b - 1] = "&"
          BY <1>2, BeginShape
        <5> QED
          BY <5>1, <5>2
      <4> QED
        BY <3>2, <4>2
    <3>4. j \in b..k - 1
      BY <1>2, <3>3
    <3> QED
      BY <1>4, <3>1, <3>2, <3>4
  <2>2. PICK j \in b..k - 1 : /\ text[j] = "=" /\ \A i \in b..j - 1 : text[i] # "="
                              /\ acc.begin = j + 1 /\ acc.name = SubSeq(text, b, j - 1)
    BY <1>5, <2>1
  <2>3. Closes(text, n, b, k)
    BY <1>2, <1>6 DEF Closes
  <2>4. Counts(text, n, b, k, j) /\ j < n
    BY <1>2, <2>2, <2>3 DEF Counts
  <2>5. EndsWith(next, acc, text, k, k - 1)
    BY <1>3, <1>6, <2>1
  <2>6. next.value = FALSE /\ next.begin = k + 1
        /\ next.query = set(acc.query, acc.name, SubSeq(text, acc.begin, k - 1))
    BY <2>5 DEF EndsWith
  <2>7. MapIs(next.query, text, ElementsTo(text, k))
    <3>1. MapIs(set(acc.query, SubSeq(text, b, j - 1), SubSeq(text, j + 1, k - 1)),
                text, ElementsTo(text, k))
      BY <1>2, <2>4, ElementAdded
    <3> QED
      BY <2>2, <2>6, <3>1
  <2>8. k + 1 \in Begins(text)
    <3>1. k + 1 \in 1..n + 1 /\ (k + 1) - 1 = k
      OBVIOUS
    <3> QED
      BY <1>6, <3>1, BeginShape
  <2>9. ElementsTo(text, k) = Before(text, k + 1)
    <3>1. \A f \in Elements(text) : f[1] \in 1..n + 1
      BY ElementBegins, BeginShape
    <3>2. \A f \in Elements(text) : f[1] <= k <=> f[1] < k + 1
      BY <3>1
    <3> QED
      BY <3>2 DEF ElementsTo, Before
  <2>10. InElement(next, text, k, k + 1)
    <3>1. k + 1 \in 1..k + 1 /\ \A i \in k + 1..k : FALSE
      OBVIOUS
    <3> QED
      BY <2>6, <2>7, <2>8, <2>9, <3>1 DEF InElement
  <2>11. ASSUME k = n PROVE MapIs(next.query, text, Elements(text))
    <3>1. Closes(text, n, n + 1, n + 1) /\ \A i \in n + 1..(n + 1) - 1 : text[i] # "="
      BY DEF Closes
    <3>2. MapIs(next.query, text, ElementsTo(text, n + 1))
      BY <2>7, <2>8, <2>9, <2>11, <3>1, ElementSkipped
    <3> QED
      BY <3>2, AllElements
  <2> QED
    BY <2>10, <2>11 DEF QueryRead
<1>7. CASE text[k] # "&" /\ k < n
  <2>1. b \in 1..k + 1 /\ \A i \in b..k : text[i] # "&"
    BY <1>2, <1>7
  <2>2. CASE acc.value
    <3>1. next = acc
      BY <1>3, <1>7, <2>2
    <3>2. PICK j \in b..k - 1 : /\ text[j] = "=" /\ \A i \in b..j - 1 : text[i] # "="
                                /\ acc.begin = j + 1 /\ acc.name = SubSeq(text, b, j - 1)
      BY <1>5, <2>2
    <3>3. j \in b..k
      BY <3>2
    <3>4. InElement(next, text, k, b)
      BY <1>2, <2>1, <2>2, <3>1, <3>2, <3>3 DEF InElement
    <3> QED
      BY <1>7, <3>4 DEF QueryRead
  <2>3. CASE ~acc.value /\ text[k] = "="
    <3>1. Opens(next, acc, text, k)
      BY <1>3, <2>3
    <3>2. acc.begin = b /\ \A i \in b..k - 1 : text[i] # "="
      BY <1>4, <2>3
    <3>3. k \in Nat /\ b \in 1..k
      BY <1>2
    <3>4. InElement(next, text, k, b)
      BY <1>2, <2>1, <2>3, <3>1, <3>2, <3>3, ElementOpened
    <3> QED
      BY <1>7, <3>4 DEF QueryRead
  <2>4. CASE ~acc.value /\ text[k] # "="
    <3>1. next = acc /\ acc.begin = b /\ \A i \in b..k : text[i] # "="
      BY <1>2, <1>3, <1>4, <2>4
    <3>2. InElement(next, text, k, b)
      BY <1>2, <2>1, <2>4, <3>1 DEF InElement
    <3> QED
      BY <1>7, <3>2 DEF QueryRead
  <2> QED
    BY <2>2, <2>3, <2>4
<1>8. CASE text[k] # "&" /\ k = n
  <2>1. Closes(text, n, b, n + 1) /\ (n + 1) - 1 = n
    <3>1. n + 1 \in b..n + 1 /\ \A i \in b..n : text[i] # "&"
      BY <1>2, <1>8
    <3> QED
      BY <3>1 DEF Closes
  <2>2. SUFFICES MapIs(next.query, text, ElementsTo(text, n + 1))
    BY <1>8, AllElements
  <2>3. CASE acc.value
    <3>1. PICK j \in b..k - 1 : /\ text[j] = "=" /\ \A i \in b..j - 1 : text[i] # "="
                                /\ acc.begin = j + 1 /\ acc.name = SubSeq(text, b, j - 1)
      BY <1>5, <2>3
    <3>2. next.query = set(acc.query, SubSeq(text, b, j - 1), SubSeq(text, j + 1, n))
      BY <1>3, <1>8, <2>3, <3>1 DEF EndsWith
    <3>3. Counts(text, n, b, n + 1, j) /\ j < n
      <4>1. j \in b..(n + 1) - 1 /\ j < n
        BY <1>2, <1>8
      <4> QED
        BY <1>2, <2>1, <3>1, <4>1 DEF Counts
    <3>4. MapIs(set(acc.query, SubSeq(text, b, j - 1), SubSeq(text, j + 1, (n + 1) - 1)),
                text, ElementsTo(text, n + 1))
      BY <1>2, <3>3, ElementAdded
    <3> QED
      BY <2>1, <3>2, <3>4
  <2>4. CASE ~acc.value /\ text[k] = "="
    <3>1. next.query = acc.query
      BY <1>3, <2>4 DEF Opens
    <3>2. Counts(text, n, b, n + 1, n) /\ ~(n < n)
      <4>1. n \in b..(n + 1) - 1 /\ text[n] = "=" /\ \A i \in b..n - 1 : text[i] # "="
        BY <1>2, <1>4, <1>8, <2>4
      <4> QED
        BY <1>2, <2>1, <4>1 DEF Counts
    <3> QED
      BY <1>2, <3>1, <3>2, ElementAdded
  <2>5. CASE ~acc.value /\ text[k] # "="
    <3>1. next = acc /\ \A i \in b..(n + 1) - 1 : text[i] # "="
      BY <1>2, <1>3, <1>4, <1>8, <2>5
    <3> QED
      BY <1>2, <2>1, <3>1, ElementSkipped
  <2> QED
    BY <2>3, <2>4, <2>5
<1> QED
  BY <1>6, <1>7, <1>8


\* The loop of onUrlImpl over the query, from character to character.
LEMMA QueryRuns ==
  ASSUME NEW text \in Text, NEW n \in Nat, Len(text) = n, DOMAIN text = 1..n
  PROVE  \E H \in [0..n -> QueryTurns] :
           /\ H[0] = QueryStart /\ H[n].query = ParseQuery(text)
           /\ \A k \in 1..n : H[k] = QueryCharacter(text, H[k - 1], k)
<1> DEFINE c == QueryStart
           q == [i \in DOMAIN text |-> i]
           Table(g) == g = [t \in SUBSET (DOMAIN q) |->
                              IF t = {} THEN c
                              ELSE QueryCharacter(text, g[t \ {Max(t)}], q[Max(t)])]
           F == [x \in QueryTurns \X (1..n) |-> QueryCharacter(text, x[1], x[2])]
<1>1. ParseQuery(text) = (CHOOSE g : Table(g))[DOMAIN q].query
  BY Zenon DEF ParseQuery, FoldLeftDomain, FoldLeft, MapThenFoldSet, QueryStart
<1>2. DOMAIN q = 1..n /\ \A i \in 1..n : q[i] = i
  OBVIOUS
<1> HIDE DEF q
<1>3. c \in QueryTurns
  <2>1. <<>> \in Text
    BY DEF Text
  <2>2. <<>> \in Maps
    BY MapsShape
  <2> QED
    BY <2>1, <2>2 DEF QueryStart, QueryTurns
<1>4. F \in [QueryTurns \X (1..n) -> QueryTurns]
  <2>1. ASSUME NEW x \in QueryTurns \X (1..n)
        PROVE  QueryCharacter(text, x[1], x[2]) \in QueryTurns
    <3>1. x[1] \in QueryTurns /\ x[2] \in 1..n
      OBVIOUS
    <3> QED
      BY <3>1, TurnStays
  <2> QED
    BY <2>1
<1>5. \A a \in QueryTurns, k \in 1..n : F[<<a, k>>] = QueryCharacter(text, a, k)
  OBVIOUS
<1> HIDE DEF c, F
<1>6. PICK h \in [SUBSET (1..n) -> QueryTurns] : FoldSteps(c, F, n, h)
  BY <1>3, <1>4, StepsExist DEF FoldExists
<1>7. Table(h)
  <2>1. ASSUME NEW t \in SUBSET (1..n)
        PROVE  h[t] = IF t = {} THEN c ELSE QueryCharacter(text, h[t \ {Max(t)}], q[Max(t)])
    <3>1. h[t] = IF t = {} THEN c ELSE F[<<h[t \ {Max(t)}], Max(t)>>]
      BY <1>6 DEF FoldSteps
    <3>2. ASSUME t # {}
          PROVE  F[<<h[t \ {Max(t)}], Max(t)>>] = QueryCharacter(text, h[t \ {Max(t)}], q[Max(t)])
      <4>1. Max(t) \in 1..n /\ h[t \ {Max(t)}] \in QueryTurns
        BY <3>2, GreatestOfSome
      <4> QED
        BY <1>2, <1>5, <4>1
    <3> QED
      BY <3>1, <3>2
  <2>2. h = [t \in SUBSET (1..n) |-> h[t]]
    OBVIOUS
  <2> QED
    BY <1>2, <2>1, <2>2, Zenon
<1>8. PICK g : g = (CHOOSE f : Table(f))
  OBVIOUS
<1>9. Table(g)
  BY <1>7, <1>8, Zenon
<1>10. \A t \in SUBSET (1..n) :
         g[t] = IF t = {} THEN c ELSE QueryCharacter(text, g[t \ {Max(t)}], q[Max(t)])
  BY <1>2, <1>9, Zenon
<1> HIDE DEF Table
<1>11. g[{}] = c
  BY <1>10
<1>12. ASSUME NEW k \in 1..n, g[1..k - 1] \in QueryTurns
       PROVE  g[1..k] = F[<<g[1..k - 1], k>>]
  <2>1. 1..k # {} /\ 1..k \in SUBSET (1..n) /\ Max(1..k) = k /\ (1..k) \ {k} = 1..k - 1
    BY LastPlace
  <2>2. g[1..k] = QueryCharacter(text, g[(1..k) \ {Max(1..k)}], q[Max(1..k)])
    BY <1>10, <2>1
  <2>3. g[1..k] = QueryCharacter(text, g[1..k - 1], k)
    BY <1>2, <2>1, <2>2
  <2> QED
    BY <1>5, <1>12, <2>3
<1>13. RunBy(QueryTurns, c, F, n, g)
  BY <1>11, <1>12 DEF RunBy
<1>14. PICK H \in [0..n -> QueryTurns] : Run(c, F, n, H) /\ H[n] = g[1..n]
  <2>1. RunsTo(QueryTurns, c, F, n, g[1..n])
    BY <1>3, <1>4, <1>13, RunOfSteps
  <2> QED
    BY <2>1 DEF RunsTo
<1>15. ASSUME NEW k \in 1..n PROVE H[k] = QueryCharacter(text, H[k - 1], k)
  <2>1. H[k] = F[<<H[k - 1], k>>] /\ H[k - 1] \in QueryTurns
    BY <1>14 DEF Run
  <2> QED
    BY <1>5, <2>1
<1>16. H[n].query = ParseQuery(text)
  BY <1>1, <1>2, <1>8, <1>14
<1> QED
  BY <1>14, <1>15, <1>16 DEF Run, c

\* What onUrlImpl makes of a query is what a client means by it.
LEMMA QueryParsed ==
  ASSUME NEW text \in Text, Regular(text)
  PROVE  ParseQuery(text) = Pairs(text)
<1>1. PICK n \in Nat : Len(text) = n /\ DOMAIN text = 1..n
  BY DEF Text
<1>2. PICK H \in [0..n -> QueryTurns] :
        /\ H[0] = QueryStart /\ H[n].query = ParseQuery(text)
        /\ \A k \in 1..n : H[k] = QueryCharacter(text, H[k - 1], k)
  BY <1>1, QueryRuns
<1>3. 1 \in Begins(text)
  BY <1>1, BeginShape
<1>4. MapIs(<<>>, text, Before(text, 1))
  <2>1. Before(text, 1) = {}
    <3>1. \A f \in Elements(text) : f[1] \in 1..n + 1
      BY <1>1, ElementBegins, BeginShape
    <3>2. \A f \in Elements(text) : ~(f[1] < 1)
      BY <3>1
    <3> QED
      BY <3>2 DEF Before
  <2> QED
    BY <2>1 DEF MapIs
<1>5. QueryRead(H[0], text, 0)
  <2>1. 1 \in 1..0 + 1 /\ \A i \in 1..0 : FALSE
    OBVIOUS
  <2>2. H[0].value = FALSE /\ H[0].begin = 1 /\ H[0].query = <<>>
    BY <1>2 DEF QueryStart
  <2>3. InElement(H[0], text, 0, 1)
    BY <1>3, <1>4, <2>1, <2>2 DEF InElement
  <2> QED
    BY <2>3 DEF QueryRead
<1>6. ASSUME NEW k \in 1..n, QueryRead(H[k - 1], text, k - 1)
      PROVE  /\ k < n => QueryRead(H[k], text, k)
             /\ k = n => MapIs(H[k].query, text, Elements(text))
  <2>1. H[k - 1] \in QueryTurns /\ H[k] = QueryCharacter(text, H[k - 1], k)
    BY <1>2
  <2> QED
    BY <1>1, <1>6, <2>1, QueryStep
<1>7. MapIs(H[n].query, text, Elements(text))
  <2>1. CASE n = 0
    <3>1. Closes(text, n, 1, 1) /\ \A i \in 1..1 - 1 : text[i] # "="
      BY <2>1 DEF Closes
    <3>2. H[n].query = <<>>
      BY <1>2, <2>1 DEF QueryStart
    <3>3. MapIs(H[n].query, text, ElementsTo(text, 1))
      BY <1>1, <1>3, <1>4, <3>1, <3>2, ElementSkipped
    <3>4. n + 1 = 1
      BY <2>1
    <3> QED
      BY <1>1, <3>3, <3>4, AllElements
  <2>2. CASE n # 0
    <3> DEFINE S == {k \in Nat : k < n => QueryRead(H[k], text, k)}
    <3>1. 0 \in S
      BY <1>5
    <3>2. ASSUME NEW k \in Nat, k \in S PROVE k + 1 \in S
      <4>1. SUFFICES ASSUME k + 1 < n PROVE QueryRead(H[k + 1], text, k + 1)
        OBVIOUS
      <4>2. k + 1 \in 1..n /\ (k + 1) - 1 = k /\ QueryRead(H[k], text, k)
        BY <3>2, <4>1
      <4> QED
        BY <1>6, <4>1, <4>2
    <3>3. n - 1 \in S
      <4> HIDE DEF S
      <4>1. Nat \subseteq S
        BY <3>1, <3>2, Induction
      <4>2. n - 1 \in Nat
        BY <2>2
      <4> QED
        BY <4>1, <4>2
    <3>4. n \in 1..n /\ QueryRead(H[n - 1], text, n - 1)
      BY <2>2, <3>3
    <3> QED
      BY <1>6, <3>4
  <2> QED
    BY <2>1, <2>2
<1>8. H[n].query \in Maps
  <2>1. H[n] \in QueryTurns
    BY <1>2
  <2> QED
    BY <2>1 DEF QueryTurns
<1>9. H[n].query = [x \in DOMAIN H[n].query |-> H[n].query[x]]
  BY <1>8, MapsShape
<1> QED
  BY <1>1, <1>2, <1>7, <1>9, MapIsPairs

-----------------------------------------------------------------------------
(* The URL of a request, from its callback to the request that is built. *)

\* What is taken of the URL of message msg when it came whole.
Taken(b, u, msg) ==
  /\ b.path # <<>> => PathAsAsked(u, b.path)
  /\ Fits(UrlText(u)) /\ Regular(u.query) /\ (msg = 1 \/ u.query # <<>>) => b.query = Pairs(u.query)

DeployedInv == deployed \in Deployments /\ routes_ = Resources(deployed)
WrittenInv == \A m \in DOMAIN requests : requests[m].url \in UrlParts /\ Written(requests[m].url)

\* The struct may be used, and no query was ever parsed into it before the first URL.
BeforeFirst == fed.msg = 1 /\ fed.item <= 1 /\ fed.from = 0
StructInv ==
  /\ StructOK(mUrlParser)
  /\ BeforeFirst => mUrlParser.off["query"] = 0 /\ mUrlParser.len["query"] = 0

\* Between the URL of a message and the next one the builder knows it.
Known == outcome = "running" /\ built = NotBuilt /\ Current > 0 /\ fed.item # 1
TakenInv == Known /\ Whole(Current, 1) => Taken(builder, requests[Current].url, Current)

UInv == DeployedInv /\ WrittenInv /\ StructInv /\ TakenInv /\ UrlAsAsked

\* The two claims of UrlAsAsked.
BuiltAsAsked ==
  built # NotBuilt /\ Whole(built.msg, 1) =>
    LET u == requests[built.msg].url
    IN /\ built.path = u.path <=> OriginForm(u) /\ Fits(u.path)
       /\ Fits(UrlText(u)) /\ Regular(u.query) /\ (built.msg = 1 \/ u.query # <<>>)
            => built.query = Pairs(u.query)
RefusedWhole == outcome = "refused" /\ fed.item = 2 /\ Whole(fed.msg, 1)
NotOrigin == ~OriginForm(Asked.url)

LEMMA UrlAsAskedParts == UrlAsAsked <=> BuiltAsAsked /\ (RefusedWhole => NotOrigin)
BY DEF UrlAsAsked, BuiltAsAsked, RefusedWhole, NotOrigin

LEMMA UrlStructFields ==
  ASSUME NEW u, StructOK(u)
  PROVE  \A f \in UrlFields : u.off[f] \in Nat /\ u.len[f] \in Nat
<1>1. Fresh(u) \in UrlStruct
  BY DEF StructOK
<1>2. Fresh(u).off = u.off /\ Fresh(u).len = u.len
  BY DEF Fresh
<1> HIDE DEF StructOK
<1>3. Fresh(u).off \in [UrlFields -> Nat] /\ Fresh(u).len \in [UrlFields -> Nat]
  BY <1>1 DEF UrlStruct
<1> QED
  BY <1>2, <1>3

\* What is taken of a URL that is parsed as a whole.
LEMMA WholeTaken ==
  ASSUME NEW u \in UrlParts, Written(u), NEW text, text = UrlText(u), NEW old, StructOK(old),
         NEW parsed, parsed = http_parser_parse_url(text, FALSE, old), parsed.ok,
         ~(parsed.u.off["path"] > parsed.u.len["path"]), NEW msg,
         msg = 1 => old.off["query"] = 0 /\ old.len["query"] = 0,
         NEW b, b.path = Slice(text, parsed.u.off["path"], parsed.u.len["path"]),
         b.query = ParseQuery(Slice(text, parsed.u.off["query"],
                                    parsed.u.off["query"] + parsed.u.len["query"]))
  PROVE  Taken(b, u, msg)
<1>1. text \in Word
  BY UrlIsLaidOut
<1>2. PICK n \in Nat : DOMAIN text = 1..n
  BY <1>1 DEF Word
<1>3. StructOK(parsed.u)
  BY <1>2, StructKept
<1>4. UrlParsed(u, text, old, parsed)
  BY UrlIsParsed
<1>5. PICK new, path, query :
        /\ new = parsed.u /\ path = b.path /\ query = b.query
        /\ StructOK(new) /\ ~(new.off["path"] > new.len["path"])
        /\ path = Slice(text, new.off["path"], new.len["path"])
        /\ query = ParseQuery(Slice(text, new.off["query"], new.off["query"] + new.len["query"]))
        /\ \E p \in Nat, q \in Nat, r \in Nat : UrlRead(u, text, old, new, p, q, r)
  BY <1>3, <1>4, Zenon DEF UrlParsed
<1>6. PICK p \in Nat, q \in Nat, r \in Nat : UrlRead(u, text, old, new, p, q, r)
  BY <1>5
<1>7. ASSUME path # <<>> PROVE PathAsAsked(u, path)
  <2>1. PICK off, to : off = new.off["path"] /\ to = new.len["path"]
    OBVIOUS
  <2>2. off \in Nat /\ to \in Nat
    BY <1>5, <2>1, UrlStructFields DEF UrlFields
  <2>3. ~(off > to) /\ path = Slice(text, off, to)
    BY <1>5, <2>1
  <2>4. off <= to
    BY <2>2, <2>3
  <2> QED
    BY <1>1, <1>6, <1>7, <2>1, <2>2, <2>3, <2>4, PathTaken
<1>8. ASSUME Fits(text), Regular(u.query), msg = 1 \/ u.query # <<>>
      PROVE  query = Pairs(u.query)
  <2>1. u.query # <<>> \/ (old.off["query"] = 0 /\ old.len["query"] = 0)
    BY <1>8
  <2>2. Slice(text, new.off["query"], new.off["query"] + new.len["query"]) = u.query
    BY <1>1, <1>6, <1>8, <2>1, QueryTaken
  <2>3. u.query \in Text
    BY DEF UrlParts
  <2> QED
    BY <1>5, <1>8, <2>2, <2>3, QueryParsed
<1> QED
  BY <1>5, <1>7, <1>8 DEF Taken

\* What a piece of the URL is.
LEMMA UrlPiece ==
  ASSUME FedInv, WrittenInv, NEW n \in Nat, NEW more \in BOOLEAN, Deliver(n, more), fed.item = 1
  PROVE  /\ fed.msg \in DOMAIN requests /\ Asked.url \in UrlParts /\ Written(Asked.url)
         /\ \E piece : /\ onUrl(piece) /\ \E k \in Nat : DOMAIN piece = 1..k
                       /\ fed'.item = 2 /\ (\A c \in cut' : <<c[1], c[2]>> # <<fed.msg, 1>>) =>
                            fed.from = 0 /\ piece = UrlText(Asked.url)
<1>1. /\ fed.msg \in DOMAIN requests /\ fed.item \in DOMAIN Data /\ n <= Remaining
      /\ \/ fed'.item = fed.item
         \/ fed'.item = fed.item + 1 /\ n = Remaining
  BY DeliverEffect
<1>2. Asked.url \in UrlParts /\ Written(Asked.url)
  BY <1>1 DEF WrittenInv, Asked
<1> DEFINE text == UrlText(Asked.url)
<1>3. text \in Word
  BY <1>2, UrlIsLaidOut
<1>4. Data[1] = text
  <2>1. 1 \in 1..2 * Len(Asked.headers) + 1
    BY <1>1, InAsked
  <2> QED
    BY <2>1 DEF Data, Items
<1> HIDE DEF text
<1>5. PICK from \in Nat, len \in Nat : from = fed.from /\ len = Len(text) /\ n <= len - from
                                      /\ text \in [1..len -> Chars]
  <2>1. fed.from \in Nat /\ Len(text) \in Nat /\ text \in [1..Len(text) -> Chars]
    BY <1>3, FedFields DEF Word
  <2>2. Remaining = Len(text) - fed.from
    BY <1>4 DEF Remaining
  <2> QED
    BY <1>1, <2>1, <2>2
<1> DEFINE piece == SubSeq(text, from + 1, from + n)
<1>6. onUrl(piece)
  <2>1. onUrl(SubSeq(Data[fed.item], fed.from + 1, fed.from + n))
    BY DEF Deliver
  <2> QED
    BY <1>4, <1>5, <2>1
<1>7. \E k \in Nat : DOMAIN piece = 1..k
  <2>1. \A i \in from + 1..from + n : text[i] \in Chars
    BY <1>5
  <2>2. from + 1 \in Int /\ from + n \in Int
    OBVIOUS
  <2>3. piece \in Seq(Chars)
    BY <2>1, <2>2, SubSeqProperties
  <2> HIDE DEF piece
  <2> QED
    BY <2>3
<1>8. ASSUME fed'.item = 2, \A c \in cut' : <<c[1], c[2]>> # <<fed.msg, 1>>
      PROVE  fed.from = 0 /\ piece = text
  <2>1. from = 0
    <3>1. SUFFICES ASSUME from # 0 PROVE FALSE
      OBVIOUS
    <3>2. PICK c : c = <<fed.msg, fed.item, fed.from>>
      OBVIOUS
    <3>3. c \in cut'
      <4>1. fed.from > 0
        BY <1>5, <3>1
      <4> QED
        BY <3>2, <4>1 DEF Deliver
    <3>4. c[1] = fed.msg /\ c[2] = 1
      BY <3>2
    <3> QED
      BY <1>8, <3>3, <3>4
  <2>2. n = Len(text)
    <3>1. n = Remaining
      BY <1>1, <1>8
    <3>2. Remaining = len - from
      BY <1>4, <1>5 DEF Remaining
    <3> QED
      BY <1>5, <2>1, <3>1, <3>2
  <2>3. from + 1 = 1 /\ from + n = Len(text)
    BY <1>5, <2>1, <2>2
  <2>4. SubSeq(text, 1, Len(text)) = text
    BY <1>3, SubSeqFull DEF Word
  <2> QED
    BY <1>5, <2>1, <2>3, <2>4
<1> QED
  BY <1>1, <1>2, <1>6, <1>7, <1>8 DEF text

\* What its callback does.
LEMMA UrlCallback ==
  ASSUME DOMAIN builder = BuilderFields, NEW piece, onUrl(piece), NEW parsed,
         parsed = http_parser_parse_url(piece, FALSE, mUrlParser)
  PROVE  /\ mUrlParser' = parsed.u
         /\ \/ outcome' = "refused" /\ (~parsed.ok \/ parsed.u.field_set = {})
            \/ outcome' = "thrown"
            \/ /\ outcome' = outcome /\ parsed.ok /\ ~(parsed.u.off["path"] > parsed.u.len["path"])
               /\ builder'.path = Slice(piece, parsed.u.off["path"], parsed.u.len["path"])
               /\ builder'.query = ParseQuery(Slice(piece, parsed.u.off["query"],
                                                 parsed.u.off["query"] + parsed.u.len["query"]))
<1>1. /\ mUrlParser' = parsed.u
      /\ IF ~parsed.ok \/ parsed.u.field_set = {} THEN Stop("refused")
         ELSE TakeUrl(piece, parsed.u)
  BY DEF onUrl
<1>2. CASE ~parsed.ok \/ parsed.u.field_set = {}
  BY <1>1, <1>2 DEF Stop
<1>3. CASE parsed.ok /\ parsed.u.field_set # {} /\ parsed.u.off["path"] > parsed.u.len["path"]
  BY <1>1, <1>3 DEF TakeUrl, Stop
<1>4. CASE parsed.ok /\ parsed.u.field_set # {} /\ ~(parsed.u.off["path"] > parsed.u.len["path"])
  <2>1. PICK path, query :
          /\ path = Slice(piece, parsed.u.off["path"], parsed.u.len["path"])
          /\ query = ParseQuery(Slice(piece, parsed.u.off["query"],
                                      parsed.u.off["query"] + parsed.u.len["query"]))
    OBVIOUS
  <2>2. TakeUrl(piece, parsed.u)
    BY <1>1, <1>4
  <2>3. builder' = [builder EXCEPT !.path = path, !.query = query] /\ outcome' = outcome
    BY <1>4, <2>1, <2>2 DEF TakeUrl
  <2>4. builder'.path = path /\ builder'.query = query
    BY <2>3 DEF BuilderFields
  <2> QED
    BY <1>1, <1>4, <2>1, <2>3, <2>4
<1> QED
  BY <1>2, <1>3, <1>4

\* A piece of the URL.
LEMMA UrlStep ==
  ASSUME FedInv, DOMAIN builder = BuilderFields, UInv, NEW n \in Nat, NEW more \in BOOLEAN,
         Deliver(n, more), fed.item = 1
  PROVE  UInv'
<1>1. /\ requests' = requests /\ deployed' = deployed /\ routes_' = routes_ /\ built' = built
  BY DEF Deliver, sent
<1>2. /\ outcome = "running" /\ fed'.msg = fed.msg /\ cut \subseteq cut'
      /\ \/ fed'.item = 1 /\ fed'.from > 0
         \/ fed'.item = 2 /\ fed'.from = 0
  <2>1. /\ outcome = "running" /\ fed'.msg = fed.msg /\ cut \subseteq cut'
        /\ \/ fed'.item = fed.item /\ fed'.from = fed.from + n /\ n > 0
           \/ fed'.item = fed.item + 1 /\ fed'.from = 0
    BY DeliverEffect
  <2>2. fed.from \in Nat
    BY FedFields
  <2> QED
    BY <2>1, <2>2
<1>3. WrittenInv /\ StructOK(mUrlParser)
  BY DEF UInv, StructInv
<1>4. /\ fed.msg \in DOMAIN requests /\ Asked.url \in UrlParts /\ Written(Asked.url)
      /\ \E piece : /\ onUrl(piece) /\ \E k \in Nat : DOMAIN piece = 1..k
                    /\ fed'.item = 2 /\ (\A c \in cut' : <<c[1], c[2]>> # <<fed.msg, 1>>) =>
                         fed.from = 0 /\ piece = UrlText(Asked.url)
  BY <1>3, UrlPiece
<1>5. PICK piece : /\ onUrl(piece) /\ \E k \in Nat : DOMAIN piece = 1..k
                   /\ fed'.item = 2 /\ (\A c \in cut' : <<c[1], c[2]>> # <<fed.msg, 1>>) =>
                        fed.from = 0 /\ piece = UrlText(Asked.url)
  BY <1>4
<1>6. PICK parsed : parsed = http_parser_parse_url(piece, FALSE, mUrlParser)
  OBVIOUS
<1>7. /\ mUrlParser' = parsed.u
      /\ \/ outcome' = "refused" /\ (~parsed.ok \/ parsed.u.field_set = {})
         \/ outcome' = "thrown"
         \/ /\ outcome' = outcome /\ parsed.ok /\ ~(parsed.u.off["path"] > parsed.u.len["path"])
            /\ builder'.path = Slice(piece, parsed.u.off["path"], parsed.u.len["path"])
            /\ builder'.query = ParseQuery(Slice(piece, parsed.u.off["query"],
                                              parsed.u.off["query"] + parsed.u.len["query"]))
  BY <1>5, <1>6, UrlCallback
<1>8. StructInv'
  <2>1. StructOK(parsed.u)
    BY <1>3, <1>5, <1>6, StructKept
  <2>2. ~BeforeFirst'
    BY <1>2 DEF BeforeFirst
  <2> QED
    BY <1>7, <2>1, <2>2 DEF StructInv
<1>9. DeployedInv' /\ WrittenInv'
  BY <1>1 DEF UInv, DeployedInv, WrittenInv
<1>10. fed.msg \in Nat /\ Asked' = Asked
  BY <1>1, <1>2, FedFields DEF Asked
<1>11. TakenInv'
  <2>1. SUFFICES ASSUME Known', Whole(Current, 1)' PROVE Taken(builder, requests[Current].url, Current)'
    BY DEF TakenInv
  <2>2. Current' = fed.msg /\ outcome' = "running" /\ fed'.item = 2
    BY <1>2, <2>1 DEF Known, Current
  <2>3. \A c \in cut' : <<c[1], c[2]>> # <<fed.msg, 1>>
    BY <2>1, <2>2 DEF Whole
  <2>4. fed.from = 0 /\ piece = UrlText(Asked.url)
    BY <1>5, <2>2, <2>3
  <2>5. fed.msg = 1 => mUrlParser.off["query"] = 0 /\ mUrlParser.len["query"] = 0
    BY <2>4 DEF UInv, StructInv, BeforeFirst
  <2>6. PICK b, u : b = builder' /\ u = Asked.url
    OBVIOUS
  <2>7. /\ parsed.ok /\ ~(parsed.u.off["path"] > parsed.u.len["path"])
        /\ b.path = Slice(piece, parsed.u.off["path"], parsed.u.len["path"])
        /\ b.query = ParseQuery(Slice(piece, parsed.u.off["query"],
                                      parsed.u.off["query"] + parsed.u.len["query"]))
    BY <1>7, <2>2, <2>6
  <2>8. Taken(b, u, fed.msg)
    BY <1>3, <1>4, <1>6, <2>4, <2>5, <2>6, <2>7, WholeTaken
  <2>9. u = requests'[fed.msg].url
    BY <1>1, <2>6 DEF Asked
  <2> QED
    BY <2>2, <2>6, <2>8, <2>9 DEF Taken
<1>12. BuiltAsAsked'
  <2>1. BuiltAsAsked
    BY UrlAsAskedParts DEF UInv
  <2> QED
    BY <1>1, <1>2, <2>1 DEF BuiltAsAsked, Whole
<1>13. RefusedWhole' => NotOrigin'
  <2>1. SUFFICES ASSUME RefusedWhole' PROVE ~OriginForm(Asked.url)
    BY <1>10 DEF NotOrigin
  <2>2. outcome' = "refused" /\ fed'.item = 2 /\ \A c \in cut' : <<c[1], c[2]>> # <<fed.msg, 1>>
    BY <1>2, <2>1 DEF RefusedWhole, Whole
  <2>3. piece = UrlText(Asked.url)
    BY <1>5, <2>2
  <2>4. ~parsed.ok \/ parsed.u.field_set = {}
    BY <1>2, <1>7, <2>2
  <2>5. UrlParsed(Asked.url, piece, mUrlParser, parsed)
    BY <1>3, <1>4, <1>6, <2>3, UrlIsParsed
  <2> QED
    BY <2>4, <2>5 DEF UrlParsed
<1>14. UrlAsAsked'
  BY <1>12, <1>13 DEF UrlAsAsked, BuiltAsAsked, RefusedWhole, NotOrigin
<1> QED
  BY <1>8, <1>9, <1>11, <1>14 DEF UInv

\* Nothing happens to what was taken.
Untouched ==
  /\ requests' = requests /\ deployed' = deployed /\ routes_' = routes_
  /\ mUrlParser' = mUrlParser /\ built' = built /\ cut \subseteq cut'
  /\ builder'.path = builder.path /\ builder'.query = builder.query
  /\ BeforeFirst' => BeforeFirst
  /\ Known' => Known /\ Current' = Current
  /\ RefusedWhole' => RefusedWhole /\ fed' = fed

LEMMA UntouchedStep ==
  ASSUME UInv, Untouched
  PROVE  UInv'
<1>1. DeployedInv' /\ WrittenInv' /\ StructInv'
  BY DEF UInv, Untouched, DeployedInv, WrittenInv, StructInv
<1>2. TakenInv'
  <2>1. SUFFICES ASSUME Known', Whole(Current, 1)' PROVE Taken(builder, requests[Current].url, Current)'
    BY DEF TakenInv
  <2>2. Known /\ Current' = Current /\ Whole(Current, 1)
    BY <2>1 DEF Untouched, Whole
  <2>3. Taken(builder, requests[Current].url, Current)
    BY <2>2 DEF UInv, TakenInv
  <2> QED
    BY <2>2, <2>3 DEF Untouched, Taken
<1>3. BuiltAsAsked'
  <2>1. BuiltAsAsked
    BY UrlAsAskedParts DEF UInv
  <2> QED
    BY <2>1 DEF Untouched, BuiltAsAsked, Whole
<1>4. RefusedWhole' => NotOrigin'
  <2>1. RefusedWhole => NotOrigin
    BY UrlAsAskedParts DEF UInv
  <2> QED
    BY <2>1 DEF Untouched, NotOrigin, Asked
<1>5. UrlAsAsked'
  BY <1>3, <1>4 DEF UrlAsAsked, BuiltAsAsked, RefusedWhole, NotOrigin
<1> QED
  BY <1>1, <1>2, <1>5 DEF UInv

\* The other data callbacks.
LEMMA FieldStep ==
  ASSUME FedInv, DOMAIN builder = BuilderFields, NEW n \in Nat, NEW more \in BOOLEAN,
         Deliver(n, more), fed.item # 1
  PROVE  Untouched
<1>1. /\ requests' = requests /\ deployed' = deployed /\ routes_' = routes_ /\ built' = built
  BY DEF Deliver, sent
<1>2. /\ outcome = "running" /\ fed.item \in 1..Len(Data) /\ fed'.msg = fed.msg /\ cut \subseteq cut'
      /\ fed'.item \in {fed.item, fed.item + 1}
  BY DeliverEffect
<1>3. fed.item \in Nat /\ fed.item > 1 /\ fed'.item > 1
  <2>1. fed.item \in Nat
    BY FedFields
  <2> QED
    BY <1>2, <2>1
<1>4. PICK piece : onHeaderField(piece) \/ onHeaderValue(piece)
  BY DEF Deliver
<1>5. mUrlParser' = mUrlParser /\ outcome' = outcome
  BY <1>4 DEF onHeaderField, onHeaderValue, parserVars
<1>6. builder'.path = builder.path /\ builder'.query = builder.query
  <2>1. CASE builder' = builder
    BY <2>1
  <2>2. CASE builder' = [builder EXCEPT !.headers = add(@, mCurrentHeaderField, piece)]
    <3>1. PICK headers : builder' = [builder EXCEPT !.headers = headers]
      BY <2>2
    <3> QED
      BY <3>1 DEF BuilderFields
  <2> QED
    BY <1>4, <2>1, <2>2 DEF onHeaderField, onHeaderValue
<1>7. Current' = Current
  BY <1>2, <1>3 DEF Current
<1>8. ~BeforeFirst' /\ ~RefusedWhole' /\ (Known' => Known)
  BY <1>1, <1>2, <1>3, <1>5, <1>7 DEF BeforeFirst, RefusedWhole, Known
<1> QED
  BY <1>1, <1>2, <1>5, <1>6, <1>7, <1>8 DEF Untouched

LEMMA NextMessageStep ==
  ASSUME FedInv, DOMAIN builder = BuilderFields, onMessageBegin
  PROVE  Untouched
<1>1. /\ Due(0) /\ NextItem /\ outcome = "running" /\ outcome' = outcome
      /\ requests' = requests /\ deployed' = deployed /\ routes_' = routes_
      /\ mUrlParser' = mUrlParser /\ built' = built /\ cut' = cut
  BY DEF onMessageBegin, Due, sent
<1>2. fed.item = 0 /\ fed.from = 0 /\ fed'.item = 1 /\ fed'.msg = fed.msg
  BY <1>1, NextItemEffect DEF FedInv
<1>3. builder'.path = builder.path /\ builder'.query = builder.query
  <2>1. PICK method, version : builder' = [builder EXCEPT !.method = method, !.http_version = version]
    BY DEF onMessageBegin
  <2> QED
    BY <2>1 DEF BuilderFields
<1>4. ~Known' /\ ~RefusedWhole' /\ (BeforeFirst' => BeforeFirst)
  BY <1>1, <1>2 DEF Known, RefusedWhole, BeforeFirst
<1> QED
  BY <1>1, <1>3, <1>4 DEF Untouched

LEMMA BehindStep ==
  ASSUME FedInv, DOMAIN builder = BuilderFields,
         onHeadersComplete \/ onMessageBody \/ onMessageComplete
  PROVE  Untouched
<1>1. /\ requests' = requests /\ deployed' = deployed /\ routes_' = routes_
      /\ mUrlParser' = mUrlParser /\ built' = built /\ cut' = cut /\ outcome = "running"
      /\ outcome' \in {"running", "thrown"}
  BY DEF onHeadersComplete, onMessageBody, onMessageComplete, Due, sent, parserVars, Stop
<1>2. PICK k \in {1, 2, 3} : Due(Len(Data) + k)
  BY DEF onHeadersComplete, onMessageBody, onMessageComplete
<1>3. fed.msg \in DOMAIN requests /\ fed.item = Len(Data) + k
  BY <1>2 DEF Due
<1>4. fed.item \in Nat /\ fed.item > 1 /\ fed.msg \in Nat /\ fed.msg > 0
  <2>1. Len(Data) \in Nat /\ Len(Data) >= 1
    BY <1>3, InAsked
  <2> QED
    BY <1>3, <2>1, FedFields
<1>5. \/ fed'.msg = fed.msg /\ fed'.item = fed.item + 1
      \/ fed'.msg = fed.msg + 1 /\ fed'.item = 0
  <2>1. CASE onMessageComplete
    BY <2>1 DEF onMessageComplete
  <2>2. CASE onHeadersComplete \/ onMessageBody
    <3>1. NextItem /\ Due(fed.item)
      BY <1>2, <1>3, <2>2 DEF onHeadersComplete, onMessageBody
    <3> QED
      BY <3>1, NextItemEffect
  <2> QED
    BY <2>1, <2>2
<1>6. builder'.path = builder.path /\ builder'.query = builder.query
  <2>1. \/ builder' = builder
        \/ \E reader : builder' = [builder EXCEPT !.body_reader = reader]
    BY DEF onHeadersComplete, OnHeadersComplete, onMessageBody, onMessageComplete, Stop
  <2> QED
    BY <2>1 DEF BuilderFields
<1>7. Current' = Current
  BY <1>4, <1>5 DEF Current
<1>8. ~BeforeFirst' /\ ~RefusedWhole' /\ (Known' => Known)
  BY <1>1, <1>4, <1>5, <1>7 DEF BeforeFirst, RefusedWhole, Known
<1> QED
  BY <1>1, <1>6, <1>7, <1>8 DEF Untouched

\* The request is built of what was taken.
LEMMA BuildStep ==
  ASSUME FedInv, DOMAIN builder = BuilderFields, UInv, BuildRequest
  PROVE  UInv'
<1>1. /\ requests' = requests /\ deployed' = deployed /\ routes_' = routes_
      /\ mUrlParser' = mUrlParser /\ fed' = fed /\ cut' = cut
      /\ outcome = "running" /\ built = NotBuilt /\ outcome' \in {"running", "thrown"}
  BY DEF BuildRequest, sent, parserVars
<1>2. Current \in 1..Len(requests) /\ fed.item # 1
      /\ \/ outcome' = "thrown" /\ built' = built
         \/ built' # NotBuilt /\ built'.msg = Current
  <2>1. /\ Current \in 1..Len(requests)
        /\ \/ fed.item = 0
           \/ fed.msg \in DOMAIN requests /\ fed.item > Len(Data)
        /\ \/ outcome' = "thrown" /\ built' = built
           \/ built' # NotBuilt /\ built'.msg = Current
    BY BuildEffect
  <2>2. fed.msg \in DOMAIN requests => Len(Data) \in Nat /\ Len(Data) >= 1
    BY InAsked
  <2> QED
    BY <2>1, <2>2
<1>3. DeployedInv' /\ WrittenInv' /\ StructInv'
  BY <1>1 DEF UInv, DeployedInv, WrittenInv, StructInv, BeforeFirst
<1>4. TakenInv'
  BY <1>2 DEF TakenInv, Known
<1>5. ASSUME built' # NotBuilt, \A c \in cut' : <<c[1], c[2]>> # <<Current, 1>>
      PROVE  Taken([path |-> built'.path, query |-> built'.query], requests[Current].url, Current)
             /\ built'.path # <<>>
  <2> DEFINE found == getResource(routes_, builder.path)
  <2>1. Buildable(found)
    BY <1>1, <1>5 DEF BuildRequest
  <2>2. found \notin {NoValue, Thrown}
    BY <2>1 DEF Buildable
  <2>3. builder.path # <<>>
    <3>1. getResource(routes_, <<>>) \in {NoValue, Thrown}
      BY NoRouteAssumption DEF UInv, DeployedInv
    <3> QED
      BY <2>2, <3>1
  <2>4. built'.path = builder.path /\ built'.query = builder.query
    <3>1. PICK msg, args, handler :
            built' = [msg |-> msg, method |-> builder.method, path |-> builder.path,
                      query |-> builder.query, headers |-> builder.headers,
                      body |-> builder.body_reader, args |-> args, handler |-> handler]
      BY <2>1 DEF BuildRequest
    <3> QED
      BY <3>1
  <2> HIDE DEF found
  <2>5. Known /\ Whole(Current, 1)
    <3>1. Current > 0
      BY <1>2, FedFields
    <3>2. Whole(Current, 1)
      BY <1>1, <1>5 DEF Whole
    <3> QED
      BY <1>1, <1>2, <3>1, <3>2 DEF Known
  <2>6. Taken(builder, requests[Current].url, Current)
    BY <2>5 DEF UInv, TakenInv
  <2> QED
    BY <2>3, <2>4, <2>6 DEF Taken
<1>6. BuiltAsAsked'
  <2>1. SUFFICES ASSUME built' # NotBuilt, Whole(built.msg, 1)'
                 PROVE  LET u == requests'[built'.msg].url
                        IN /\ built'.path = u.path <=> OriginForm(u) /\ Fits(u.path)
                           /\ Fits(UrlText(u)) /\ Regular(u.query) /\ (built'.msg = 1 \/ u.query # <<>>)
                                => built'.query = Pairs(u.query)
    BY DEF BuiltAsAsked
  <2>2. built'.msg = Current /\ \A c \in cut' : <<c[1], c[2]>> # <<Current, 1>>
    BY <1>1, <1>2, <2>1 DEF Whole
  <2>3. Taken([path |-> built'.path, query |-> built'.query], requests[Current].url, Current)
        /\ built'.path # <<>>
    BY <1>5, <2>1, <2>2
  <2> QED
    BY <1>1, <2>2, <2>3 DEF Taken, PathAsAsked
<1>7. ~RefusedWhole'
  BY <1>1 DEF RefusedWhole
<1>8. UrlAsAsked'
  BY <1>6, <1>7 DEF UrlAsAsked, BuiltAsAsked, RefusedWhole
<1> QED
  BY <1>3, <1>4, <1>8 DEF UInv

LEMMA InitUInv == Init => UInv
<1> SUFFICES ASSUME Init PROVE UInv
  OBVIOUS
<1>1. DeployedInv
  BY DEF Init, DeployedInv
<1>2. WrittenInv
  <2>1. requests \in Exchanges /\ requests \in Seq(Request)
    BY ExchangesAssumption DEF Init
  <2>2. ASSUME NEW m \in DOMAIN requests PROVE requests[m].url \in UrlParts /\ Written(requests[m].url)
    <3>1. requests[m] \in Request
      BY <2>1
    <3>2. requests[m].url \in UrlParts
      BY <3>1 DEF Request, UrlParts
    <3>3. Written(requests[m].url)
      BY <2>1, UrlsAssumption
    <3> QED
      BY <3>2, <3>3
  <2> QED
    BY <2>2 DEF WrittenInv
<1>3. StructInv
  <2>1. mUrlParser = http_parser_url_init
    BY DEF Init
  <2>2. http_parser_url_init \in UrlStruct
    BY DEF http_parser_url_init, UrlStruct
  <2>3. mUrlParser.off["query"] = 0 /\ mUrlParser.len["query"] = 0
    BY <2>1 DEF http_parser_url_init, UrlFields
  <2> QED
    BY <2>1, <2>2, <2>3, StructsOK DEF StructInv
<1>4. fed.msg = 1 /\ fed.item = 0 /\ built = NotBuilt /\ outcome = "running"
  BY DEF Init
<1>5. TakenInv /\ UrlAsAsked
  BY <1>4 DEF TakenInv, Known, Current, UrlAsAsked
<1> QED
  BY <1>1, <1>2, <1>3, <1>5 DEF UInv

LEMMA StepUInv == UInv /\ IInv /\ [Next]_vars => UInv'
<1> SUFFICES ASSUME UInv, IInv, [Next]_vars PROVE UInv'
  OBVIOUS
<1>1. FedInv /\ DOMAIN builder = BuilderFields
  BY DEF IInv
<1>2. CASE Next
  <2>1. ASSUME NEW n \in Nat, NEW more \in BOOLEAN, Deliver(n, more) PROVE UInv'
    BY <1>1, <2>1, UrlStep, FieldStep, UntouchedStep
  <2>2. CASE OtherStep
    BY <1>1, <2>2, NextMessageStep, BehindStep, BuildStep, UntouchedStep DEF OtherStep
  <2> QED
    BY <1>2, <2>1, <2>2, Steps
<1>3. CASE UNCHANGED vars
  <2>1. Untouched
    BY <1>3 DEF vars, sent, parserVars, Untouched, BeforeFirst, Known, Current, RefusedWhole, Whole
  <2> QED
    BY <2>1, UntouchedStep
<1> QED
  BY <1>2, <1>3

\* A URL that comes in one read is served as it was asked exactly if it is a path
\* with or without what follows, and short enough for its length's field
\* (http_request_parser.cpp:185); its query is the client's, but for one that an
\* element without = spoils or the struct has kept (line 190).  on_url refuses
\* none that begins with its path.
THEOREM UrlIsAsAsked == Spec => []UrlAsAsked
<1>1. UInv => UrlAsAsked
  BY DEF UInv
<1> QED
  BY <1>1, InitUInv, StepUInv, Invariance, PTL DEF Spec

-----------------------------------------------------------------------------
(* A piece of a URL, parsed by itself. *)

LEMMA PieceStates ==
  /\ \A c : c \notin {"?", "#"} => parse_url_char("s_req_path", c) \in {"s_req_path", "s_dead"}
  /\ \A c \in {"?", "#"} : parse_url_char("s_req_path", c) \in Queries \cup Fragments
  /\ \A s \in Queries \cup Fragments : \A c :
       parse_url_char(s, c) \in Queries \cup Fragments \cup {"s_dead"}
  /\ \A c : c \notin {"/", "*"} /\ ~IS_ALPHA(c) =>
       parse_url_char("s_req_spaces_before_url", c) = "s_dead"
<1>1. ASSUME NEW c, c \notin {"?", "#"}
      PROVE  parse_url_char("s_req_path", c) \in {"s_req_path", "s_dead"}
  BY <1>1 DEF parse_url_char
<1>2. ASSUME NEW c \in {"?", "#"} PROVE parse_url_char("s_req_path", c) \in Queries \cup Fragments
  BY QueryStates, FragmentStates DEF Queries, Fragments
<1>3. ASSUME NEW s \in Queries \cup Fragments, NEW c
      PROVE  parse_url_char(s, c) \in Queries \cup Fragments \cup {"s_dead"}
  BY DEF parse_url_char, Queries, Fragments
<1>4. ASSUME NEW c, c \notin {"/", "*"}, ~IS_ALPHA(c)
      PROVE  parse_url_char("s_req_spaces_before_url", c) = "s_dead"
  BY <1>4 DEF parse_url_char
<1> QED
  BY <1>1, <1>2, <1>3, <1>4

\* A text of len characters begins with a path of m.
PathEnds(text, m, len) ==
  /\ m \in 1..len /\ text[1] \in {"/", "*"}
  /\ \A i \in 1..m : text[i] \notin {"?", "#"}
  /\ m # len => text[m + 1] \in {"?", "#"}

\* Behind k characters of it.
PieceRead(acc, v, m, k) ==
  \/ acc.s = "s_dead"
  \/ /\ k <= m /\ PartRead(acc.u, v, "path", 0, k)
     /\ IF k = 0 THEN acc.s = "s_req_spaces_before_url" /\ acc.field # "path"
        ELSE acc.s = "s_req_path" /\ acc.field = "path"
  \/ k > m /\ PartRead(acc.u, v, "path", 0, m) /\ acc.s \in Queries \cup Fragments

LEMMA PieceStep ==
  ASSUME NEW text, NEW len \in Nat, NEW m, PathEnds(text, m, len), NEW k \in 1..len, NEW v,
         NEW acc, PieceRead(acc, v, m, k - 1),
         NEW s, s = parse_url_char(acc.s, text[k]), NEW next, Turned(next, acc, s, k)
  PROVE  PieceRead(next, v, m, k)
<1>1. m \in 1..len /\ text[1] \in {"/", "*"} /\ next.s = s
  BY DEF PathEnds, Turned
<1>2. CASE s = "s_dead"
  BY <1>1, <1>2 DEF PieceRead
<1>3. CASE s # "s_dead" /\ k <= m
  <2>1. acc.s # "s_dead"
    BY <1>3, DeadStays
  <2>2. PICK j \in Nat : j = k - 1 /\ j + 1 = k /\ j <= m /\ ~(j > m)
    BY <1>1, <1>3
  <2>3. /\ PartRead(acc.u, v, "path", 0, j)
        /\ IF j = 0 THEN acc.s = "s_req_spaces_before_url" /\ acc.field # "path"
           ELSE acc.s = "s_req_path" /\ acc.field = "path"
    BY <2>1, <2>2 DEF PieceRead
  <2>4. s = "s_req_path"
    <3>1. CASE j = 0
      <4>1. acc.s = "s_req_spaces_before_url" /\ k = 1
        BY <2>2, <2>3, <3>1
      <4> QED
        BY <1>1, <4>1, PathStates
    <3>2. CASE j # 0
      <4>1. text[k] \notin {"?", "#"} /\ acc.s = "s_req_path"
        BY <1>3, <2>3, <3>2 DEF PathEnds
      <4> QED
        BY <1>3, <4>1, PieceStates
    <3> QED
      BY <3>1, <3>2
  <2>5. next.field = "path" /\ ExtendedTo(next.u, acc.u, "path", k - 1, "path" # acc.field)
    BY <2>4 DEF Turned, FieldOfState
  <2>6. ("path" # acc.field) <=> j = 0
    BY <2>3
  <2>7. ExtendedTo(next.u, acc.u, "path", 0 + j, j = 0)
    <3>1. k - 1 = 0 + j
      BY <2>2
    <3> QED
      BY <2>5, <2>6, <3>1 DEF ExtendedTo
  <2>8. PartRead(next.u, v, "path", 0, j + 1)
    <3>1. "path" \in UrlFields
      BY DEF UrlFields
    <3> QED
      BY <2>3, <2>7, <3>1, PartGrows
  <2>9. k # 0
    OBVIOUS
  <2> QED
    BY <1>1, <1>3, <2>2, <2>4, <2>5, <2>8, <2>9 DEF PieceRead
<1>4. CASE s # "s_dead" /\ k > m
  <2>1. acc.s # "s_dead"
    BY <1>4, DeadStays
  <2>2. PartRead(acc.u, v, "path", 0, m) /\ s \in Queries \cup Fragments
    <3>1. CASE k - 1 = m
      <4>1. PartRead(acc.u, v, "path", 0, m) /\ acc.s = "s_req_path"
        BY <1>1, <2>1, <3>1 DEF PieceRead
      <4>2. text[k] \in {"?", "#"}
        <5>1. m # len /\ k = m + 1
          BY <1>1, <3>1
        <5> QED
          BY <5>1 DEF PathEnds
      <4> QED
        BY <4>1, <4>2, PieceStates
    <3>2. CASE k - 1 # m
      <4>1. k - 1 > m /\ ~(k - 1 <= m)
        BY <1>1, <1>4, <3>2
      <4>2. PartRead(acc.u, v, "path", 0, m) /\ acc.s \in Queries \cup Fragments
        BY <2>1, <4>1 DEF PieceRead
      <4> QED
        BY <1>4, <4>2, PieceStates
    <3> QED
      BY <3>1, <3>2
  <2>3. next.u.off["path"] = acc.u.off["path"] /\ next.u.len["path"] = acc.u.len["path"]
    <3>1. s \notin {"s_req_path", "s_req_query_string"} \/ s = "s_req_query_string"
      BY <2>2 DEF Queries, Fragments
    <3>2. CASE s \notin {"s_req_path", "s_req_query_string"}
      BY <3>2, OtherFields
    <3>3. CASE s = "s_req_query_string"
      <4>1. ExtendedTo(next.u, acc.u, "query", k - 1, "query" # acc.field)
        BY <3>3 DEF Turned, FieldOfState
      <4> QED
        BY <4>1 DEF ExtendedTo, UrlFields
    <3> QED
      BY <3>1, <3>2, <3>3
  <2>4. PartRead(next.u, v, "path", 0, m)
    BY <2>2, <2>3 DEF PartRead
  <2> QED
    BY <1>1, <1>4, <2>2, <2>4 DEF PieceRead
<1> QED
  BY <1>1, <1>2, <1>3, <1>4

LEMMA PieceIsScanned ==
  ASSUME NEW text, NEW len \in Nat, DOMAIN text = 1..len, NEW m, PathEnds(text, m, len),
         NEW v \in UrlStruct
  PROVE  PieceRead(CutIntoFields(text, "s_req_spaces_before_url", v), v, m, len)
<1> DEFINE start == "s_req_spaces_before_url"
           acc == CutIntoFields(text, start, v)
<1>1. start \in ScanStates
  BY DEF ScanStates
<1>2. PICK H \in [0..len -> CutStates] :
        /\ H[0] = CutFrom(start, v) /\ H[len] = acc
        /\ \A k \in 1..len : H[k] = UrlCharacter(text, H[k - 1], k)
  BY <1>1, CutRuns
<1> HIDE DEF acc
<1> DEFINE S == {k \in Nat : k <= len => PieceRead(H[k], v, m, k)}
<1>3. 0 \in S
  <2>1. H[0].s = start /\ H[0].field = "none" /\ H[0].u = v
    BY <1>2 DEF CutFrom
  <2>2. PartRead(H[0].u, v, "path", 0, 0)
    BY <2>1 DEF PartRead
  <2>3. 0 <= m
    BY DEF PathEnds
  <2>4. PieceRead(H[0], v, m, 0)
    BY <2>1, <2>2, <2>3 DEF PieceRead
  <2> QED
    BY <2>4
<1>4. ASSUME NEW j \in Nat, j \in S PROVE j + 1 \in S
  <2>1. SUFFICES ASSUME j + 1 <= len PROVE PieceRead(H[j + 1], v, m, j + 1)
    OBVIOUS
  <2>2. PICK k \in Nat : k = j + 1 /\ k - 1 = j
    OBVIOUS
  <2>3. k > 0 /\ k \in 1..len /\ k - 1 \in 0..len /\ PieceRead(H[k - 1], v, m, k - 1)
    BY <1>4, <2>1, <2>2
  <2>4. PICK a \in CutStates, b \in CutStates :
          a = H[k - 1] /\ b = H[k] /\ b = UrlCharacter(text, a, k)
    BY <1>2, <2>3
  <2>5. Turned(b, a, parse_url_char(a.s, text[k]), k)
    BY <2>3, <2>4, TurnEffect
  <2>6. PieceRead(b, v, m, k)
    BY <2>3, <2>4, <2>5, PieceStep
  <2> QED
    BY <2>2, <2>4, <2>6
<1> HIDE DEF S
<1>5. len \in S
  BY <1>3, <1>4, Induction
<1> QED
  BY <1>2, <1>5 DEF S, acc

\* What begins like no URL is none.
LEMMA DeadFromStart ==
  ASSUME NEW text, NEW len \in Nat, len > 0, DOMAIN text = 1..len,
         text[1] \notin {"/", "*"}, ~IS_ALPHA(text[1]), NEW v \in UrlStruct
  PROVE  CutIntoFields(text, "s_req_spaces_before_url", v).s = "s_dead"
<1> DEFINE start == "s_req_spaces_before_url"
           acc == CutIntoFields(text, start, v)
<1>1. start \in ScanStates
  BY DEF ScanStates
<1>2. PICK H \in [0..len -> CutStates] :
        /\ H[0] = CutFrom(start, v) /\ H[len] = acc
        /\ \A k \in 1..len : H[k] = UrlCharacter(text, H[k - 1], k)
  BY <1>1, CutRuns
<1> HIDE DEF acc
<1> DEFINE S == {k \in Nat : k # 0 /\ k <= len => H[k].s = "s_dead"}
<1>3. 0 \in S
  OBVIOUS
<1>4. ASSUME NEW j \in Nat, j \in S PROVE j + 1 \in S
  <2>1. SUFFICES ASSUME j + 1 <= len PROVE H[j + 1].s = "s_dead"
    OBVIOUS
  <2>2. PICK k \in Nat : k = j + 1 /\ k - 1 = j
    OBVIOUS
  <2>3. k > 0 /\ k \in 1..len /\ k - 1 \in 0..len /\ (j # 0 => H[k - 1].s = "s_dead")
    BY <1>4, <2>1, <2>2
  <2>4. PICK a \in CutStates, b \in CutStates :
          a = H[k - 1] /\ b = H[k] /\ b = UrlCharacter(text, a, k)
    BY <1>2, <2>3
  <2>5. Turned(b, a, parse_url_char(a.s, text[k]), k)
    BY <2>3, <2>4, TurnEffect
  <2>6. parse_url_char(a.s, text[k]) = "s_dead"
    <3>1. CASE j = 0
      <4>1. a.s = start /\ k = 1
        BY <1>2, <2>2, <2>4, <3>1 DEF CutFrom
      <4> QED
        BY <4>1, PieceStates
    <3>2. CASE j # 0
      BY <2>3, <2>4, <3>2, DeadStays
    <3> QED
      BY <3>1, <3>2
  <2> QED
    BY <2>2, <2>4, <2>5, <2>6 DEF Turned
<1> HIDE DEF S
<1>5. len \in S
  BY <1>3, <1>4, Induction
<1> QED
  BY <1>2, <1>5 DEF S, acc

\* What is known of a piece that is taken for a URL: how it begins, and where its
\* path is if it begins with it.
LEMMA PieceIsParsed ==
  ASSUME NEW text \in Word, NEW old, StructOK(old), NEW parsed,
         parsed = http_parser_parse_url(text, FALSE, old), parsed.ok
  PROVE  /\ Len(text) \in Nat /\ Len(text) > 0
         /\ text[1] \in {"/", "*"} \/ IS_ALPHA(text[1])
         /\ \A m : PathEnds(text, m, Len(text)) =>
              parsed.u.off["path"] = 0 /\ Counted(parsed.u.len["path"], m)
<1>1. PICK len \in Nat : len = Len(text) /\ DOMAIN text = 1..len
  BY DEF Word
<1>2. text # <<>>
  <2>1. SUFFICES ASSUME text = <<>> PROVE FALSE
    OBVIOUS
  <2>2. PICK refused : refused = [ok |-> FALSE, u |-> old]
    OBVIOUS
  <2>3. parsed = refused
    BY <2>1, <2>2 DEF http_parser_parse_url, Refused
  <2>4. ~refused.ok
    BY <2>2
  <2> QED
    BY <2>3, <2>4
<1>3. len > 0
  BY <1>1, <1>2 DEF Word
<1>4. PICK v \in UrlStruct : v = Fresh(old)
  BY FreshFields
<1>5. PICK cutUrl : cutUrl = CutIntoFields(text, "s_req_spaces_before_url", v)
  OBVIOUS
<1>6. cutUrl \in CutStates
  <2>1. "s_req_spaces_before_url" \in ScanStates
    BY DEF ScanStates
  <2>2. PICK H \in [0..len -> CutStates] : H[len] = cutUrl
    BY <1>1, <1>5, <2>1, CutRuns
  <2> QED
    BY <2>2
<1>7. AfterScan(parsed, cutUrl)
  <2>1. parsed = WithFields(text, FALSE, cutUrl)
    BY <1>2, <1>4, <1>5 DEF http_parser_parse_url, Fresh
  <2> QED
    BY <1>6, <2>1, Behind
<1>8. cutUrl.s # "s_dead" /\ SamePlaces(parsed.u, cutUrl.u)
  BY <1>7 DEF AfterScan
<1>9. text[1] \in {"/", "*"} \/ IS_ALPHA(text[1])
  BY <1>1, <1>3, <1>5, <1>8, DeadFromStart
<1>10. ASSUME NEW m, PathEnds(text, m, len)
       PROVE  parsed.u.off["path"] = 0 /\ Counted(parsed.u.len["path"], m)
  <2>1. PieceRead(cutUrl, v, m, len)
    BY <1>1, <1>5, <1>10, PieceIsScanned
  <2>2. m \in 1..len
    BY <1>10 DEF PathEnds
  <2>3. PartRead(cutUrl.u, v, "path", 0, m)
    <3>1. len <= m => len = m
      BY <2>2
    <3> QED
      BY <1>8, <2>1, <3>1 DEF PieceRead
  <2>4. cutUrl.u.off["path"] = Narrow(0) /\ Counted(cutUrl.u.len["path"], m)
    <3>1. m # 0
      BY <2>2
    <3> QED
      BY <2>3, <3>1 DEF PartRead
  <2>5. Narrow(0) = 0
    BY NarrowRange, WidthAssumption
  <2>6. parsed.u.off["path"] = cutUrl.u.off["path"] /\ parsed.u.len["path"] = cutUrl.u.len["path"]
    BY <1>8 DEF SamePlaces
  <2> QED
    BY <2>4, <2>5, <2>6
<1> QED
  BY <1>1, <1>3, <1>9, <1>10

LEMMA PathUpToQuery ==
  ASSUME NEW text \in Word, Len(text) > 0, text[1] \in {"/", "*"}
  PROVE  \E m : PathEnds(text, m, Len(text)) /\ UpToQuery(text) = SubSeq(text, 1, m)
<1>1. PICK len \in Nat : len = Len(text) /\ DOMAIN text = 1..len /\ len > 0
  BY DEF Word
<1> DEFINE marks == {j \in DOMAIN text : text[j] \in {"?", "#"}}
           S == {len} \cup {i - 1 : i \in marks}
<1>2. \A i \in marks : i \in 1..len /\ i - 1 \in Nat /\ i - 1 \in S /\ text[i] \in {"?", "#"}
  BY <1>1
<1>3. S \subseteq Nat /\ len \in S
  BY <1>2
<1>4. PICK m \in S : \A y \in S : m <= y
  BY <1>3, LeastNatural
<1>5. Min(S) = m
  <2>1. S \subseteq Int
    BY <1>3
  <2> HIDE DEF S
  <2> QED
    BY <1>4, <2>1, Least
<1>6. m \in Nat /\ m <= len
  BY <1>3, <1>4
<1>7. ASSUME m # len PROVE m + 1 \in marks
  <2>1. PICK i \in marks : m = i - 1
    BY <1>4, <1>7
  <2>2. m + 1 = i
    BY <1>2, <2>1
  <2> QED
    BY <2>1, <2>2
<1>8. m # len => text[m + 1] \in {"?", "#"}
  BY <1>2, <1>7
<1>9. ASSUME NEW i \in 1..m, text[i] \in {"?", "#"} PROVE FALSE
  <2>1. i \in marks
    BY <1>1, <1>6, <1>9
  <2>2. m <= i - 1
    BY <1>2, <1>4, <2>1
  <2> QED
    BY <1>6, <2>2
<1>10. m \in 1..len
  <2>1. m # 0
    <3>1. SUFFICES ASSUME m = 0 PROVE FALSE
      OBVIOUS
    <3>2. text[1] \in {"?", "#"}
      BY <1>1, <1>8, <3>1
    <3> QED
      BY <3>2
  <2> QED
    BY <1>6, <2>1
<1>11. PathEnds(text, m, len)
  BY <1>8, <1>9, <1>10 DEF PathEnds
<1>12. UpToQuery(text) = SubSeq(text, 1, m)
  BY <1>1, <1>5 DEF UpToQuery
<1> QED
  BY <1>1, <1>11, <1>12

LEMMA SameSequence ==
  ASSUME NEW A, NEW B, NEW s \in Seq(A), NEW t \in Seq(B), NEW n \in Nat, Len(s) = n, Len(t) = n,
         \A i \in 1..n : s[i] = t[i]
  PROVE  s = t
<1>1. s \in [1..n -> A] /\ t \in [1..n -> B]
  OBVIOUS
<1> QED
  BY <1>1

\* What TakeUrl takes for the path: it is, exactly if its length was counted.
LEMMA PieceIsTaken ==
  ASSUME NEW text \in Word, NEW m, PathEnds(text, m, Len(text)), UpToQuery(text) = SubSeq(text, 1, m),
         NEW to, Counted(to, m)
  PROVE  Slice(text, 0, to) = UpToQuery(text) <=> Fits(UpToQuery(text))
<1>1. PICK len \in Nat : len = Len(text) /\ m \in 1..len
  BY DEF Word, PathEnds
<1>2. to \in Nat /\ to <= m /\ to <= UINT16_MAX /\ (m <= UINT16_MAX => to = m)
  BY DEF Counted
<1> DEFINE s == Slice(text, 0, to)
           t == UpToQuery(text)
<1>3. s \in Seq(Bytes) /\ Len(s) = to /\ \A i \in 1..to : s[i] = text[i]
  <2>1. 0 \in Nat /\ 0 <= to /\ to - 0 = to
    BY <1>2
  <2>2. s \in Seq(Bytes) /\ Len(s) = to - 0
        /\ \A i \in 1..to - 0 : 0 + i <= Len(text) => s[i] = text[0 + i]
    BY <1>2, <2>1, SliceShape
  <2> HIDE DEF s
  <2>3. \A i \in 1..to : 0 + i <= len /\ 0 + i = i
    BY <1>1, <1>2
  <2> QED
    BY <1>1, <2>1, <2>2, <2>3
<1>4. t \in Seq(Chars) /\ Len(t) = m /\ \A i \in 1..m : t[i] = text[i]
  <2>1. \A i \in 1..m : text[i] \in Chars
    BY <1>1 DEF Word
  <2>2. 1 \in Int /\ m \in Int /\ 1 <= m /\ m - 1 + 1 = m /\ \A i \in 1..m : 1 + i - 1 = i
    BY <1>1
  <2>3. /\ SubSeq(text, 1, m) \in Seq(Chars)
        /\ Len(SubSeq(text, 1, m)) = IF 1 <= m THEN m - 1 + 1 ELSE 0
        /\ \A i \in 1..m - 1 + 1 : SubSeq(text, 1, m)[i] = text[1 + i - 1]
    BY <2>1, <2>2, SubSeqProperties
  <2> HIDE DEF t
  <2>4. t = SubSeq(text, 1, m)
    BY DEF t
  <2> QED
    BY <2>2, <2>3, <2>4
<1> HIDE DEF s, t
<1>5. ASSUME s = t PROVE m <= UINT16_MAX
  BY <1>2, <1>3, <1>4, <1>5
<1>6. ASSUME m <= UINT16_MAX PROVE s = t
  <2>1. to = m
    BY <1>2, <1>6
  <2>2. \A i \in 1..m : s[i] = t[i]
    BY <1>3, <1>4, <2>1
  <2> QED
    BY <1>1, <1>3, <1>4, <2>1, <2>2, SameSequence
<1>7. Fits(t) <=> m <= UINT16_MAX
  BY <1>4 DEF Fits
<1> QED
  BY <1>5, <1>6, <1>7 DEF s, t

-----------------------------------------------------------------------------
(* A URL that came in pieces, from its callbacks to the request that is built. *)

BeginsLikeUrl(text, from) ==
  from < Len(text) /\ (text[from + 1] \in {"/", "*"} \/ IS_ALPHA(text[from + 1]))
UrlOf(reqs, msg) == UrlText(reqs[msg].url)
LastTaken(path, rest) == ~IS_ALPHA(rest[1]) => (path = UpToQuery(rest) <=> Fits(UpToQuery(rest)))

\* Where the later pieces of a URL begin, and what follows the last cut.
Starts(cuts, msg) == {c[3] : c \in {d \in cuts : d[1] = msg /\ d[2] = 1}}
RestOf(reqs, cuts, msg) ==
  SubSeq(UrlOf(reqs, msg), Max(Starts(cuts, msg)) + 1, Len(UrlOf(reqs, msg)))

\* The pieces of the URL that is being read begin before what is read next, and as
\* long as nothing stopped, each begins like a URL.
PiecesInv ==
  /\ \A c \in cut : c[3] \in Nat
  /\ fed.item = 1 => \A from \in Starts(cut, fed.msg) : from < fed.from
  /\ outcome = "running" =>
       \A msg \in DOMAIN requests : \A from \in Starts(cut, msg) : BeginsLikeUrl(UrlOf(requests, msg), from)
LastInv ==
  Known /\ Starts(cut, Current) # {} => LastTaken(builder.path, RestOf(requests, cut, Current))

\* No more pieces come of the URL of a request that is built.
BuiltInv ==
  built # NotBuilt => /\ built.msg \in DOMAIN requests /\ built.msg <= Current
                      /\ fed.item = 1 => built.msg # fed.msg
BuiltCut ==
  built # NotBuilt /\ Starts(cut, built.msg) # {} =>
    /\ \A from \in Starts(cut, built.msg) : BeginsLikeUrl(UrlOf(requests, built.msg), from)
    /\ LastTaken(built.path, RestOf(requests, cut, built.msg))

CInv == PiecesInv /\ LastInv /\ BuiltInv /\ BuiltCut

LEMMA CutUrlIsBuiltCut == CutUrl <=> BuiltCut
<1>1. ASSUME NEW msg, Whole(msg, 1) PROVE Starts(cut, msg) = {}
  BY <1>1 DEF Whole, Starts
<1>2. ASSUME NEW msg, ~Whole(msg, 1) PROVE Starts(cut, msg) # {}
  <2>1. PICK c \in cut : <<c[1], c[2]>> = <<msg, 1>>
    BY <1>2 DEF Whole
  <2>2. c[3] \in Starts(cut, msg)
    BY <2>1 DEF Starts
  <2> QED
    BY <2>2
<1>3. \A msg : Pieces(msg) = Starts(cut, msg)
  BY DEF Pieces, Starts
<1> QED
  BY <1>1, <1>2, <1>3 DEF CutUrl, BuiltCut, BeginsLikeUrl, UrlOf, RestOf, LastTaken

\* Which pieces a step adds.
LEMMA UrlCuts ==
  ASSUME NEW n, NEW more, Deliver(n, more), fed.item = 1
  PROVE  /\ \A msg : Starts(cut', msg) = Starts(cut, msg) \cup {from \in {fed.from} : msg = fed.msg /\ from > 0}
         /\ \A c \in cut' : c \in cut \/ c[3] = fed.from
<1>1. PICK d : d = <<fed.msg, 1, fed.from>>
  OBVIOUS
<1>2. d[1] = fed.msg /\ d[2] = 1 /\ d[3] = fed.from
  BY <1>1
<1>3. cut' = IF fed.from > 0 THEN cut \cup {d} ELSE cut
  BY <1>1 DEF Deliver
<1>4. ASSUME NEW msg
      PROVE  Starts(cut', msg) = Starts(cut, msg) \cup {from \in {fed.from} : msg = fed.msg /\ from > 0}
  BY <1>2, <1>3 DEF Starts
<1>5. \A c \in cut' : c \in cut \/ c[3] = fed.from
  BY <1>2, <1>3
<1> QED
  BY <1>4, <1>5

LEMMA OtherCuts ==
  ASSUME FedInv, OtherStep \/ \E n \in Nat, more \in BOOLEAN : Deliver(n, more) /\ fed.item # 1
  PROVE  /\ \A msg : Starts(cut', msg) = Starts(cut, msg)
         /\ \A c \in cut' : c \in cut \/ c[3] = fed.from
<1>1. CASE OtherStep
  <2>1. cut' = cut
    BY <1>1, OtherEffect
  <2> QED
    BY <2>1 DEF Starts
<1>2. ASSUME NEW n \in Nat, NEW more \in BOOLEAN, Deliver(n, more), fed.item # 1
      PROVE  /\ \A msg : Starts(cut', msg) = Starts(cut, msg)
             /\ \A c \in cut' : c \in cut \/ c[3] = fed.from
  <2>1. PICK d : d = <<fed.msg, fed.item, fed.from>>
    OBVIOUS
  <2>2. d[2] # 1 /\ d[3] = fed.from
    BY <1>2, <2>1
  <2>3. cut' = IF fed.from > 0 THEN cut \cup {d} ELSE cut
    BY <1>2, <2>1 DEF Deliver
  <2> QED
    BY <2>2, <2>3 DEF Starts
<1> QED
  BY <1>1, <1>2

\* Where the callbacks are behind a step that is no piece of a URL.
LEMMA OtherMoves ==
  ASSUME FedInv, OtherStep \/ \E n \in Nat, more \in BOOLEAN : Deliver(n, more) /\ fed.item # 1
  PROVE  /\ outcome = "running"
         /\ fed'.item = 1 => fed.item = 0 /\ fed'.msg = fed.msg
         /\ Current' = Current \/ (Current' = Current + 1 /\ fed.item = 0)
<1>1. fed.item \in Nat /\ fed.msg \in Nat
  BY FedFields
<1>2. ASSUME NEW n \in Nat, NEW more \in BOOLEAN, Deliver(n, more), fed.item # 1
      PROVE  outcome = "running" /\ fed'.item # 1 /\ Current' = Current
  <2>1. /\ outcome = "running" /\ fed.item \in 1..Len(Data) /\ fed'.msg = fed.msg
        /\ fed'.item \in {fed.item, fed.item + 1}
    BY <1>2, DeliverEffect
  <2>2. fed.item > 1 /\ fed'.item > 1
    BY <1>1, <1>2, <2>1
  <2> QED
    BY <2>1, <2>2 DEF Current
<1>3. CASE onMessageBegin
  <2>1. Due(0) /\ NextItem /\ outcome = "running"
    BY <1>3 DEF onMessageBegin, Due
  <2>2. fed.item = 0 /\ fed'.item = 1 /\ fed'.msg = fed.msg
    BY <2>1, NextItemEffect
  <2>3. Current' = Current + 1
    BY <1>1, <2>2 DEF Current
  <2> QED
    BY <2>1, <2>2, <2>3
<1>4. CASE onHeadersComplete \/ onMessageBody \/ onMessageComplete
  <2>1. PICK k \in {1, 2, 3} : Due(Len(Data) + k)
    BY <1>4 DEF onHeadersComplete, onMessageBody, onMessageComplete
  <2>2. outcome = "running" /\ fed.msg \in DOMAIN requests /\ fed.item = Len(Data) + k
    BY <2>1 DEF Due
  <2>3. fed.item > 1
    <3>1. Len(Data) \in Nat /\ Len(Data) >= 1
      BY <2>2, InAsked
    <3> QED
      BY <1>1, <2>2, <3>1
  <2>4. \/ fed'.msg = fed.msg /\ fed'.item = fed.item + 1
        \/ fed'.msg = fed.msg + 1 /\ fed'.item = 0
    <3>1. CASE onMessageComplete
      BY <3>1 DEF onMessageComplete
    <3>2. CASE onHeadersComplete \/ onMessageBody
      <4>1. NextItem /\ Due(fed.item)
        BY <2>1, <2>2, <3>2 DEF onHeadersComplete, onMessageBody
      <4> QED
        BY <4>1, NextItemEffect
    <3> QED
      BY <1>4, <3>1, <3>2
  <2>5. Current' = Current /\ fed'.item # 1
    BY <1>1, <2>3, <2>4 DEF Current
  <2> QED
    BY <2>2, <2>5
<1>5. CASE BuildRequest
  <2>1. outcome = "running" /\ fed' = fed
        /\ (fed.item = 0 \/ (fed.msg \in DOMAIN requests /\ fed.item > Len(Data)))
    BY <1>5 DEF BuildRequest, FedInv
  <2>2. fed.item # 1
    <3>1. fed.msg \in DOMAIN requests => Len(Data) \in Nat /\ Len(Data) >= 1
      BY InAsked
    <3> QED
      BY <2>1, <3>1
  <2> QED
    BY <2>1, <2>2 DEF Current
<1> QED
  BY <1>2, <1>3, <1>4, <1>5 DEF OtherStep

\* A step that leaves the URLs alone.
LEMMA UncutStep ==
  ASSUME CInv, FedInv, Untouched, \A msg : Starts(cut', msg) = Starts(cut, msg),
         \A c \in cut' : c \in cut \/ c[3] \in Nat, outcome' = "running" => outcome = "running",
         fed' = fed \/ (fed'.item = 1 => fed.item = 0 /\ fed'.msg = fed.msg),
         Current' = Current \/ (Current' = Current + 1 /\ fed.item = 0)
  PROVE  CInv'
<1>1. requests' = requests /\ built' = built /\ builder'.path = builder.path
      /\ (Known' => Known /\ Current' = Current)
  BY DEF Untouched
<1>2. \A msg : RestOf(requests', cut', msg) = RestOf(requests, cut, msg)
  BY <1>1 DEF RestOf
<1>3. PiecesInv'
  <2>1. \A c \in cut' : c[3] \in Nat
    BY DEF CInv, PiecesInv
  <2>2. ASSUME fed'.item = 1 PROVE \A from \in Starts(cut', fed'.msg) : from < fed'.from
    <3>1. CASE fed' = fed
      BY <2>2, <3>1 DEF CInv, PiecesInv
    <3>2. CASE fed.item = 0 /\ fed'.msg = fed.msg
      <4>1. Starts(cut, fed.msg) = {}
        <5>1. Current = fed.msg - 1 /\ fed.msg \in Nat
          BY <3>2, FedFields DEF Current
        <5>2. \A c \in cut : c[1] # fed.msg
          BY <5>1 DEF FedInv
        <5> QED
          BY <5>2 DEF Starts
      <4> QED
        BY <3>2, <4>1
    <3> QED
      BY <2>2, <3>1, <3>2
  <2>3. ASSUME outcome' = "running", NEW msg \in DOMAIN requests', NEW from \in Starts(cut', msg)
        PROVE  BeginsLikeUrl(UrlOf(requests', msg), from)
    BY <1>1, <2>3 DEF CInv, PiecesInv
  <2> QED
    BY <2>1, <2>2, <2>3 DEF PiecesInv
<1>4. LastInv'
  BY <1>1, <1>2 DEF CInv, LastInv
<1>5. BuiltInv'
  <2>1. SUFFICES ASSUME built # NotBuilt
                 PROVE  /\ built.msg \in DOMAIN requests /\ built.msg <= Current'
                        /\ fed'.item = 1 => built.msg # fed'.msg
    BY <1>1 DEF BuiltInv
  <2>2. /\ built.msg \in DOMAIN requests /\ built.msg <= Current
        /\ fed.item = 1 => built.msg # fed.msg
    BY <2>1 DEF CInv, BuiltInv
  <2>3. built.msg \in Nat /\ Current \in Int /\ fed.msg \in Nat
    BY <2>2, FedFields DEF Current
  <2>4. built.msg <= Current'
    BY <2>2, <2>3
  <2>5. ASSUME fed.item = 0 PROVE built.msg # fed.msg
    <3>1. Current = fed.msg - 1
      BY <2>5 DEF Current
    <3> QED
      BY <2>2, <2>3, <3>1
  <2> QED
    BY <2>2, <2>4, <2>5
<1>6. BuiltCut'
  BY <1>1, <1>2 DEF CInv, BuiltCut
<1> QED
  BY <1>3, <1>4, <1>5, <1>6 DEF CInv

\* What a piece of the URL is, by its place.
LEMMA PieceAt ==
  ASSUME FedInv, WrittenInv, NEW n \in Nat, NEW more \in BOOLEAN, Deliver(n, more), fed.item = 1
  PROVE  \E piece \in Word :
           /\ onUrl(piece) /\ piece = SubSeq(UrlOf(requests, fed.msg), fed.from + 1, fed.from + n)
           /\ Len(piece) = n /\ fed.from + n <= Len(UrlOf(requests, fed.msg))
           /\ Len(UrlOf(requests, fed.msg)) \in Nat
           /\ n > 0 => piece[1] = UrlOf(requests, fed.msg)[fed.from + 1]
           /\ fed'.item = 2 => fed.from + n = Len(UrlOf(requests, fed.msg))
<1>1. /\ fed.msg \in DOMAIN requests /\ fed.item \in DOMAIN Data /\ n <= Remaining
      /\ fed'.item = 2 => n = Remaining
  BY DeliverEffect
<1> DEFINE text == UrlOf(requests, fed.msg)
<1>2. text \in Word
  <2>1. requests[fed.msg].url \in UrlParts /\ Written(requests[fed.msg].url)
    BY <1>1 DEF WrittenInv
  <2> QED
    BY <2>1, UrlIsLaidOut DEF UrlOf
<1>3. Data[1] = text
  <2>1. 1 \in 1..2 * Len(Asked.headers) + 1
    BY <1>1, InAsked
  <2> QED
    BY <2>1 DEF Data, Items, Asked, UrlOf
<1> HIDE DEF text
<1>4. PICK from \in Nat, len \in Nat : from = fed.from /\ len = Len(text) /\ n <= len - from
                                      /\ Remaining = len - from
  <2>1. fed.from \in Nat /\ Len(text) \in Nat
    BY <1>2, FedFields DEF Word
  <2>2. Remaining = Len(text) - fed.from
    BY <1>3 DEF Remaining
  <2> QED
    BY <1>1, <2>1, <2>2
<1>5. PICK piece : piece = SubSeq(text, from + 1, from + n)
  OBVIOUS
<1>6. onUrl(piece)
  <2>1. onUrl(SubSeq(Data[fed.item], fed.from + 1, fed.from + n))
    BY DEF Deliver
  <2> QED
    BY <1>3, <1>4, <1>5, <2>1
<1>7. piece \in Word /\ Len(piece) = n /\ (n > 0 => piece[1] = text[from + 1])
  <2>1. PICK lo \in Int, hi \in Int :
          /\ lo = from + 1 /\ hi = from + n /\ hi - lo + 1 = n
          /\ (lo <= hi <=> n > 0) /\ lo + 1 - 1 = from + 1 /\ 1 <= lo /\ hi <= len
    <3>1. from + n <= len
      BY <1>4
    <3> QED
      BY <3>1
  <2>2. \A i \in lo..hi : text[i] \in Chars
    <3>1. \A i \in lo..hi : i \in 1..len
      BY <2>1
    <3>2. \A i \in 1..len : text[i] \in Chars
      BY <1>2, <1>4 DEF Word
    <3> QED
      BY <3>1, <3>2
  <2>3. piece = SubSeq(text, lo, hi) /\ text \in Seq(Chars)
    BY <1>2, <1>5, <2>1 DEF Word
  <2>4. /\ piece \in Seq(Chars) /\ Len(piece) = IF lo <= hi THEN hi - lo + 1 ELSE 0
        /\ \A i \in 1..hi - lo + 1 : piece[i] = text[lo + i - 1]
    BY <2>2, <2>3, SubSeqProperties
  <2>5. Len(piece) = n
    BY <2>1, <2>4
  <2>6. ASSUME n > 0 PROVE piece[1] = text[from + 1]
    <3>1. 1 \in 1..hi - lo + 1
      BY <2>1, <2>6
    <3> QED
      BY <2>1, <2>4, <3>1
  <2> QED
    BY <2>4, <2>5, <2>6 DEF Word
<1>8. from + n <= len /\ (fed'.item = 2 => from + n = len)
  BY <1>1, <1>4
<1> QED
  BY <1>4, <1>5, <1>6, <1>7, <1>8 DEF text

\* What is taken of a piece that is not refused.
LEMMA LastIsTaken ==
  ASSUME NEW piece \in Word, NEW old, StructOK(old), NEW parsed,
         parsed = http_parser_parse_url(piece, FALSE, old), parsed.ok,
         NEW path, path = Slice(piece, parsed.u.off["path"], parsed.u.len["path"])
  PROVE  LastTaken(path, piece)
<1>1. /\ Len(piece) \in Nat /\ Len(piece) > 0 /\ (piece[1] \in {"/", "*"} \/ IS_ALPHA(piece[1]))
      /\ \A m : PathEnds(piece, m, Len(piece)) =>
           parsed.u.off["path"] = 0 /\ Counted(parsed.u.len["path"], m)
  BY PieceIsParsed
<1>2. SUFFICES ASSUME ~IS_ALPHA(piece[1])
               PROVE  path = UpToQuery(piece) <=> Fits(UpToQuery(piece))
  BY DEF LastTaken
<1>3. PICK m : PathEnds(piece, m, Len(piece)) /\ UpToQuery(piece) = SubSeq(piece, 1, m)
  BY <1>1, <1>2, PathUpToQuery
<1>4. PICK to : to = parsed.u.len["path"] /\ parsed.u.off["path"] = 0 /\ Counted(to, m)
  BY <1>1, <1>3
<1>5. path = Slice(piece, 0, to)
  BY <1>4
<1> QED
  BY <1>3, <1>4, <1>5, PieceIsTaken

\* A piece of a URL.
LEMMA UrlCutStep ==
  ASSUME CInv, FedInv, DOMAIN builder = BuilderFields, WrittenInv, StructOK(mUrlParser),
         NEW n \in Nat, NEW more \in BOOLEAN, Deliver(n, more), fed.item = 1
  PROVE  CInv'
<1>1. requests' = requests /\ built' = built
  BY DEF Deliver, sent
<1>2. /\ outcome = "running" /\ fed'.msg = fed.msg /\ fed.msg \in DOMAIN requests
      /\ \/ fed'.item = 1 /\ fed'.from = fed.from + n /\ n > 0
         \/ fed'.item = 2 /\ fed'.from = 0
  BY DeliverEffect
<1>3. PICK from \in Nat : from = fed.from
  BY FedFields
<1>4. PICK text, cuts : text = UrlOf(requests, fed.msg) /\ from = fed.from /\ cuts = cut'
  BY <1>3
<1>5. PICK piece \in Word :
        /\ onUrl(piece) /\ piece = SubSeq(text, from + 1, from + n)
        /\ Len(piece) = n /\ from + n <= Len(text) /\ Len(text) \in Nat
        /\ n > 0 => piece[1] = text[from + 1]
        /\ fed'.item = 2 => from + n = Len(text)
  BY <1>4, PieceAt
<1>6. /\ \A msg : Starts(cuts, msg) = Starts(cut, msg) \cup {f \in {from} : msg = fed.msg /\ f > 0}
      /\ \A c \in cuts : c \in cut \/ c[3] = from
  BY <1>4, UrlCuts
<1>7. PICK parsed : parsed = http_parser_parse_url(piece, FALSE, mUrlParser)
  OBVIOUS
<1>8. ASSUME outcome' = "running"
      PROVE  parsed.ok /\ builder'.path = Slice(piece, parsed.u.off["path"], parsed.u.len["path"])
  BY <1>5, <1>7, <1>8, UrlCallback
<1>9. ASSUME outcome' = "running" PROVE n > 0 /\ BeginsLikeUrl(text, from)
  <2>1. n > 0 /\ (piece[1] \in {"/", "*"} \/ IS_ALPHA(piece[1]))
    BY <1>5, <1>7, <1>8, <1>9, PieceIsParsed
  <2>2. from < Len(text)
    BY <1>5, <2>1
  <2> QED
    BY <1>5, <2>1, <2>2 DEF BeginsLikeUrl
<1>10. PiecesInv'
  <2>1. \A c \in cuts : c[3] \in Nat
    BY <1>4, <1>6 DEF CInv, PiecesInv
  <2>2. ASSUME fed'.item = 1, NEW f \in Starts(cuts, fed'.msg) PROVE f < fed'.from
    <3>1. fed'.from = from + n /\ n > 0 /\ (f = from \/ f \in Starts(cut, fed.msg))
      BY <1>2, <1>4, <1>6, <2>2
    <3>2. CASE f \in Starts(cut, fed.msg)
      <4>1. f < from /\ f \in Nat
        BY <1>4, <3>2 DEF CInv, PiecesInv, Starts
      <4> QED
        BY <3>1, <4>1
    <3> QED
      BY <3>1, <3>2
  <2>3. ASSUME outcome' = "running", NEW msg \in DOMAIN requests, NEW f \in Starts(cuts, msg)
        PROVE  BeginsLikeUrl(UrlOf(requests, msg), f)
    <3>1. CASE f \in Starts(cut, msg)
      BY <1>2, <3>1 DEF CInv, PiecesInv
    <3>2. CASE f \notin Starts(cut, msg)
      <4>1. f = from /\ msg = fed.msg
        BY <1>6, <2>3, <3>2
      <4> QED
        BY <1>4, <1>9, <2>3, <4>1
    <3> QED
      BY <3>1, <3>2
  <2> QED
    BY <1>1, <1>4, <2>1, <2>2, <2>3 DEF PiecesInv
<1>11. LastInv'
  <2>1. SUFFICES ASSUME Known', Starts(cuts, Current') # {}
                 PROVE  LastTaken(builder'.path, RestOf(requests, cuts, Current'))
    BY <1>1, <1>4 DEF LastInv
  <2>2. Current' = fed.msg /\ outcome' = "running" /\ fed'.item = 2
    BY <1>2, <2>1 DEF Known, Current
  <2>3. \A f \in Starts(cut, fed.msg) : f \in Nat /\ f < from
    BY <1>4 DEF CInv, PiecesInv, Starts
  <2>4. from > 0
    <3>1. PICK f \in Starts(cuts, fed.msg) : TRUE
      BY <2>1, <2>2
    <3>2. f \in Starts(cut, fed.msg) \/ from > 0
      BY <1>6, <3>1
    <3> QED
      BY <2>3, <3>2
  <2>5. Max(Starts(cuts, fed.msg)) = from
    <3>1. Starts(cuts, fed.msg) = Starts(cut, fed.msg) \cup {from}
      BY <1>6, <2>4
    <3>2. PICK S : S = Starts(cuts, fed.msg)
      OBVIOUS
    <3>3. S \subseteq Int /\ from \in S /\ \A f \in S : f <= from
      BY <2>3, <3>1, <3>2
    <3> QED
      BY <3>2, <3>3, Greatest
  <2>6. RestOf(requests, cuts, fed.msg) = piece
    BY <1>4, <1>5, <2>2, <2>5 DEF RestOf
  <2>7. LastTaken(builder'.path, piece)
    BY <1>7, <1>8, <2>2, LastIsTaken
  <2> QED
    BY <2>2, <2>6, <2>7
<1>12. BuiltInv' /\ BuiltCut'
  <2>1. SUFFICES ASSUME built # NotBuilt
                 PROVE  BuiltInv' /\ BuiltCut'
    BY <1>1 DEF BuiltInv, BuiltCut
  <2>2. built.msg \in DOMAIN requests /\ built.msg <= Current /\ built.msg # fed.msg
    BY <2>1 DEF CInv, BuiltInv
  <2>3. Current' = Current
    BY <1>2 DEF Current
  <2>4. BuiltInv'
    BY <1>1, <1>2, <2>2, <2>3 DEF BuiltInv
  <2>5. Starts(cuts, built.msg) = Starts(cut, built.msg)
    BY <1>6, <2>2
  <2>6. RestOf(requests, cuts, built.msg) = RestOf(requests, cut, built.msg)
    BY <2>5 DEF RestOf
  <2>7. BuiltCut'
    BY <1>1, <1>4, <2>5, <2>6 DEF CInv, BuiltCut
  <2> QED
    BY <2>4, <2>7
<1> QED
  BY <1>10, <1>11, <1>12 DEF CInv

\* The request is built of what the last piece said.
LEMMA BuildCutStep ==
  ASSUME CInv, FedInv, DOMAIN builder = BuilderFields, BuildRequest
  PROVE  CInv'
<1>1. /\ requests' = requests /\ fed' = fed /\ cut' = cut /\ Current' = Current
      /\ outcome = "running" /\ built = NotBuilt
  BY DEF BuildRequest, sent, Current
<1>2. Current \in 1..Len(requests) /\ fed.item # 1 /\ Current > 0
      /\ \/ outcome' = "thrown" /\ built' = built
         \/ built' # NotBuilt /\ built'.msg = Current
  <2>1. /\ Current \in 1..Len(requests)
        /\ \/ fed.item = 0
           \/ fed.msg \in DOMAIN requests /\ fed.item > Len(Data)
        /\ \/ outcome' = "thrown" /\ built' = built
           \/ built' # NotBuilt /\ built'.msg = Current
    BY BuildEffect
  <2>2. fed.msg \in DOMAIN requests => Len(Data) \in Nat /\ Len(Data) >= 1
    BY InAsked
  <2>3. Len(requests) \in Nat
    BY FedFields
  <2> QED
    BY <2>1, <2>2, <2>3
<1>3. PiecesInv'
  BY <1>1 DEF CInv, PiecesInv
<1>4. LastInv'
  BY <1>1, <1>2 DEF LastInv, Known
<1>5. BuiltInv'
  <2>1. Current \in DOMAIN requests
    BY <1>2, FedFields
  <2> QED
    BY <1>1, <1>2, <2>1 DEF BuiltInv
<1>6. BuiltCut'
  <2>1. SUFFICES ASSUME built' # NotBuilt, Starts(cut, built'.msg) # {}
                 PROVE  /\ \A from \in Starts(cut, built'.msg) : BeginsLikeUrl(UrlOf(requests, built'.msg), from)
                        /\ LastTaken(built'.path, RestOf(requests, cut, built'.msg))
    BY <1>1 DEF BuiltCut
  <2>2. built'.msg = Current /\ Current \in DOMAIN requests
    BY <1>1, <1>2, <2>1, FedFields
  <2>3. Known
    BY <1>1, <1>2 DEF Known
  <2> DEFINE found == getResource(routes_, builder.path)
  <2>4. Buildable(found)
    BY <1>1, <2>1 DEF BuildRequest
  <2>5. built'.path = builder.path
    <3>1. PICK msg, args, handler :
            built' = [msg |-> msg, method |-> builder.method, path |-> builder.path,
                      query |-> builder.query, headers |-> builder.headers,
                      body |-> builder.body_reader, args |-> args, handler |-> handler]
      BY <2>4 DEF BuildRequest
    <3> QED
      BY <3>1
  <2>6. LastTaken(builder.path, RestOf(requests, cut, Current))
    BY <2>1, <2>2, <2>3 DEF CInv, LastInv
  <2>7. \A from \in Starts(cut, Current) : BeginsLikeUrl(UrlOf(requests, Current), from)
    BY <1>1, <2>2 DEF CInv, PiecesInv
  <2> QED
    BY <2>2, <2>5, <2>6, <2>7
<1> QED
  BY <1>3, <1>4, <1>5, <1>6 DEF CInv

LEMMA InitCInv == Init => CInv
<1> SUFFICES ASSUME Init PROVE CInv
  OBVIOUS
<1>1. fed.item = 0 /\ fed.msg = 1 /\ built = NotBuilt /\ cut = {}
  BY DEF Init
<1>2. \A msg : Starts(cut, msg) = {}
  BY <1>1 DEF Starts
<1> QED
  BY <1>1, <1>2 DEF CInv, PiecesInv, LastInv, BuiltInv, BuiltCut

LEMMA StepCInv == CInv /\ UInv /\ IInv /\ [Next]_vars => CInv'
<1> SUFFICES ASSUME CInv, UInv, IInv, [Next]_vars PROVE CInv'
  OBVIOUS
<1>1. FedInv /\ DOMAIN builder = BuilderFields
  BY DEF IInv
<1>2. WrittenInv /\ StructOK(mUrlParser)
  BY DEF UInv, StructInv
<1>3. fed.from \in Nat
  BY <1>1, FedFields
<1>4. ASSUME Untouched, OtherStep \/ \E n \in Nat, more \in BOOLEAN : Deliver(n, more) /\ fed.item # 1
      PROVE  CInv'
  <2>1. /\ \A msg : Starts(cut', msg) = Starts(cut, msg)
        /\ \A c \in cut' : c \in cut \/ c[3] \in Nat
    BY <1>1, <1>3, <1>4, OtherCuts
  <2>2. /\ outcome = "running"
        /\ fed'.item = 1 => fed.item = 0 /\ fed'.msg = fed.msg
        /\ Current' = Current \/ (Current' = Current + 1 /\ fed.item = 0)
    BY <1>1, <1>4, OtherMoves
  <2> QED
    BY <1>1, <1>4, <2>1, <2>2, UncutStep
<1>5. ASSUME NEW n \in Nat, NEW more \in BOOLEAN, Deliver(n, more), fed.item = 1 PROVE CInv'
  BY <1>1, <1>2, <1>5, UrlCutStep
<1>6. ASSUME NEW n \in Nat, NEW more \in BOOLEAN, Deliver(n, more), fed.item # 1 PROVE CInv'
  BY <1>1, <1>4, <1>6, FieldStep
<1>7. CASE onMessageBegin
  BY <1>1, <1>4, <1>7, NextMessageStep DEF OtherStep
<1>8. CASE onHeadersComplete \/ onMessageBody \/ onMessageComplete
  BY <1>1, <1>4, <1>8, BehindStep DEF OtherStep
<1>9. CASE BuildRequest
  BY <1>1, <1>9, BuildCutStep
<1>10. CASE UNCHANGED vars
  <2>1. fed' = fed /\ cut' = cut /\ outcome' = outcome /\ Current' = Current
    BY <1>10 DEF vars, Current
  <2>2. Untouched
    BY <1>10 DEF vars, sent, parserVars, Untouched, BeforeFirst, Known, Current, RefusedWhole, Whole
  <2> QED
    BY <1>1, <2>1, <2>2, UncutStep
<1>11. CASE Next
  BY <1>5, <1>6, <1>7, <1>8, <1>9, <1>11, Steps DEF OtherStep
<1> QED
  BY <1>10, <1>11

\* A request whose URL came in several reads is served only if each began like a
\* URL, and if the last began with a path that fits, by that path: what an earlier
\* read brought of the URL is lost (http_request_parser.cpp:177).
THEOREM CutUrlIsItsLastPiece == Spec => []CutUrl
<1>1. CInv => CutUrl
  BY CutUrlIsBuiltCut DEF CInv
<1> QED
  BY <1>1, InitIInv, StepIInv, InitUInv, StepUInv, InitCInv, StepCInv, PTL DEF Spec

-----------------------------------------------------------------------------
(* The segments of a route and of a path. *)

Segment == {w \in Text : \A k \in DOMAIN w : w[k] # "/"}
Segments == {parts \in Seq(Segment) : parts # <<>>}
SegmentTurn(path, parts, k) ==
  IF path[k] = "/" THEN Append(parts, <<>>)
  ELSE Front(parts) \o <<Append(Last(parts), path[k])>>

LEMMA TextPlaces ==
  ASSUME NEW text \in Text
  PROVE  /\ Len(text) \in Nat /\ DOMAIN text = 1..Len(text)
         /\ \A k \in 1..Len(text) : text[k] \in STRING
BY DEF Text

LEMMA SegmentTurnStays ==
  ASSUME NEW path \in Text, NEW k \in 1..Len(path), NEW parts \in Segments
  PROVE  SegmentTurn(path, parts, k) \in Segments
<1>1. parts \in Seq(Segment) /\ parts # <<>>
  BY DEF Segments
<1>2. CASE path[k] = "/"
  <2>1. <<>> \in Segment
    BY DEF Segment, Text
  <2>2. Append(parts, <<>>) \in Seq(Segment) /\ Len(Append(parts, <<>>)) = Len(parts) + 1
    BY <1>1, <2>1
  <2>3. Append(parts, <<>>) # <<>>
    BY <1>1, <2>2
  <2> QED
    BY <1>2, <2>2, <2>3 DEF Segments, SegmentTurn
<1>3. CASE path[k] # "/"
  <2>1. Last(parts) \in Segment /\ Front(parts) \in Seq(Segment)
    <3>1. Len(parts) \in Nat /\ Len(parts) > 0
      BY <1>1
    <3> QED
      BY <1>1, <3>1 DEF Last, Front
  <2>2. PICK w \in Text : w = Last(parts) /\ \A i \in DOMAIN w : w[i] # "/"
    BY <2>1 DEF Segment
  <2>3. PICK c \in STRING : c = path[k]
    BY TextPlaces
  <2>4. Append(w, c) \in Text
    BY AppendProperties DEF Text
  <2>5. \A i \in DOMAIN Append(w, c) : Append(w, c)[i] # "/"
    BY <1>3, <2>2, <2>3 DEF Text
  <2>6. Append(w, c) \in Segment
    BY <2>4, <2>5 DEF Segment
  <2>7. PICK v \in Segment : v = Append(w, c)
    BY <2>6, Zenon
  <2>8. PICK f \in Seq(Segment) : f = Front(parts)
    BY <2>1
  <2>9. f \o <<v>> \in Seq(Segment) /\ Len(f \o <<v>>) = Len(f) + 1
    <3>1. <<v>> \in Seq(Segment) /\ Len(<<v>>) = 1
      OBVIOUS
    <3> QED
      BY <3>1, ConcatProperties
  <2>10. f \o <<v>> # <<>>
    BY <2>9
  <2> QED
    BY <1>3, <2>2, <2>3, <2>7, <2>8, <2>9, <2>10 DEF Segments, SegmentTurn
<1> QED
  BY <1>2, <1>3

\* No segment has a slash in it.
LEMMA SplitShape ==
  ASSUME NEW path \in Text
  PROVE  splitBySlash(path) \in Segments
<1> DEFINE c == << <<>> >>
           Table(g) == g = [t \in SUBSET (DOMAIN path) |->
                              IF t = {} THEN c
                              ELSE SegmentTurn(path, g[t \ {Max(t)}], Max(t))]
<1>1. PICK n \in Nat : n = Len(path) /\ DOMAIN path = 1..n
  BY TextPlaces
<1> DEFINE F == [x \in Segments \X (1..n) |-> SegmentTurn(path, x[1], x[2])]
<1>2. splitBySlash(path) = (CHOOSE g : Table(g))[DOMAIN path]
  BY Zenon DEF splitBySlash, FoldLeft, MapThenFoldSet, SegmentTurn
<1>3. c \in Segments
  BY DEF Segments, Segment, Text
<1>4. F \in [Segments \X (1..n) -> Segments]
  <2>1. ASSUME NEW x \in Segments \X (1..n) PROVE SegmentTurn(path, x[1], x[2]) \in Segments
    <3>1. x[1] \in Segments /\ x[2] \in 1..Len(path)
      BY <1>1
    <3> QED
      BY <3>1, SegmentTurnStays
  <2> QED
    BY <2>1
<1>5. \A a \in Segments, k \in 1..n : F[<<a, k>>] = SegmentTurn(path, a, k)
  OBVIOUS
<1> HIDE DEF c, F
<1>6. PICK h \in [SUBSET (1..n) -> Segments] : FoldSteps(c, F, n, h)
  BY <1>3, <1>4, StepsExist DEF FoldExists
<1>7. Table(h)
  <2>1. ASSUME NEW t \in SUBSET (1..n)
        PROVE  h[t] = IF t = {} THEN c ELSE SegmentTurn(path, h[t \ {Max(t)}], Max(t))
    <3>1. h[t] = IF t = {} THEN c ELSE F[<<h[t \ {Max(t)}], Max(t)>>]
      BY <1>6 DEF FoldSteps
    <3>2. ASSUME t # {}
          PROVE  F[<<h[t \ {Max(t)}], Max(t)>>] = SegmentTurn(path, h[t \ {Max(t)}], Max(t))
      <4>1. Max(t) \in 1..n /\ h[t \ {Max(t)}] \in Segments
        BY <3>2, GreatestOfSome
      <4> QED
        BY <1>5, <4>1
    <3> QED
      BY <3>1, <3>2
  <2>2. h = [t \in SUBSET (1..n) |-> h[t]]
    OBVIOUS
  <2> QED
    BY <1>1, <2>1, <2>2, Zenon
<1>8. PICK g : g = (CHOOSE f : Table(f))
  OBVIOUS
<1>9. Table(g)
  BY <1>7, <1>8, Zenon
<1>10. \A t \in SUBSET (1..n) :
         g[t] = IF t = {} THEN c ELSE SegmentTurn(path, g[t \ {Max(t)}], Max(t))
  BY <1>1, <1>9, Zenon
<1> HIDE DEF Table
<1>11. g[{}] = c
  BY <1>10
<1>12. ASSUME NEW k \in 1..n, g[1..k - 1] \in Segments
       PROVE  g[1..k] = F[<<g[1..k - 1], k>>]
  <2>1. 1..k # {} /\ 1..k \in SUBSET (1..n) /\ Max(1..k) = k /\ (1..k) \ {k} = 1..k - 1
    BY LastPlace
  <2>2. g[1..k] = SegmentTurn(path, g[(1..k) \ {Max(1..k)}], Max(1..k))
    BY <1>10, <2>1
  <2> QED
    BY <1>5, <1>12, <2>1, <2>2
<1>13. RunBy(Segments, c, F, n, g)
  BY <1>11, <1>12 DEF RunBy
<1>14. PICK H \in [0..n -> Segments] : H[n] = g[1..n]
  <2>1. RunsTo(Segments, c, F, n, g[1..n])
    BY <1>3, <1>4, <1>13, RunOfSteps
  <2> QED
    BY <2>1 DEF RunsTo
<1> QED
  BY <1>1, <1>2, <1>8, <1>14

\* Where segments begin, from one to the next.
StartsRun(parts, m, H) ==
  H[0] = 1 /\ \A k \in 1..m : H[k] = H[k - 1] + Len(parts[k])

LEMMA StartRuns ==
  ASSUME NEW parts \in Seq(Text), NEW i \in 1..Len(parts)
  PROVE  \E H \in [0..i - 1 -> Nat \ {0}] :
           StartsRun(parts, i - 1, H) /\ StartOf(parts, i) = H[i - 1]
<1> DEFINE s == SubSeq(parts, 1, i - 1)
           Counted1 == Nat \ {0}
           Table(g) == g = [t \in SUBSET (DOMAIN s) |->
                              IF t = {} THEN 1 ELSE g[t \ {Max(t)}] + Len(s[Max(t)])]
<1>1. PICK n \in Nat : n = i - 1 /\ n <= Len(parts)
  OBVIOUS
<1>2. DOMAIN s = 1..n /\ \A k \in 1..n : s[k] = parts[k] /\ Len(s[k]) \in Nat
  <2>1. SubSeq(parts, 1, n) \in Seq(Text) /\ Len(SubSeq(parts, 1, n)) = n
        /\ \A k \in 1..n : SubSeq(parts, 1, n)[k] = parts[k] /\ parts[k] \in Text
    BY <1>1
  <2>2. \A w \in Text : Len(w) \in Nat
    BY DEF Text
  <2> QED
    BY <1>1, <2>1, <2>2
<1> DEFINE F == [x \in Counted1 \X (1..n) |-> x[1] + Len(s[x[2]])]
<1>3. StartOf(parts, i) = (CHOOSE g : Table(g))[DOMAIN s]
  BY Zenon DEF StartOf, FoldLeft, MapThenFoldSet
<1> HIDE DEF s
<1>4. F \in [Counted1 \X (1..n) -> Counted1]
  <2>1. ASSUME NEW x \in Counted1 \X (1..n) PROVE x[1] + Len(s[x[2]]) \in Counted1
    <3>1. x[1] \in Nat /\ x[1] # 0 /\ Len(s[x[2]]) \in Nat
      BY <1>2
    <3> QED
      BY <3>1
  <2> QED
    BY <2>1
<1>5. \A a \in Counted1, k \in 1..n : F[<<a, k>>] = a + Len(s[k])
  OBVIOUS
<1>6. 1 \in Counted1
  OBVIOUS
<1> HIDE DEF F, Counted1
<1>7. PICK h \in [SUBSET (1..n) -> Counted1] : FoldSteps(1, F, n, h)
  BY <1>4, <1>6, StepsExist DEF FoldExists
<1>8. Table(h)
  <2>1. ASSUME NEW t \in SUBSET (1..n)
        PROVE  h[t] = IF t = {} THEN 1 ELSE h[t \ {Max(t)}] + Len(s[Max(t)])
    <3>1. h[t] = IF t = {} THEN 1 ELSE F[<<h[t \ {Max(t)}], Max(t)>>]
      BY <1>7 DEF FoldSteps
    <3>2. ASSUME t # {}
          PROVE  F[<<h[t \ {Max(t)}], Max(t)>>] = h[t \ {Max(t)}] + Len(s[Max(t)])
      <4>1. Max(t) \in 1..n /\ h[t \ {Max(t)}] \in Counted1
        BY <3>2, GreatestOfSome
      <4> QED
        BY <1>5, <4>1
    <3> QED
      BY <3>1, <3>2
  <2>2. h = [t \in SUBSET (1..n) |-> h[t]]
    OBVIOUS
  <2> QED
    BY <1>2, <2>1, <2>2, Zenon
<1>9. PICK g : g = (CHOOSE f : Table(f))
  OBVIOUS
<1>10. Table(g)
  BY <1>8, <1>9, Zenon
<1>11. \A t \in SUBSET (1..n) :
         g[t] = IF t = {} THEN 1 ELSE g[t \ {Max(t)}] + Len(s[Max(t)])
  BY <1>2, <1>10, Zenon
<1> HIDE DEF Table
<1>12. g[{}] = 1
  BY <1>11
<1>13. ASSUME NEW k \in 1..n, g[1..k - 1] \in Counted1
       PROVE  g[1..k] = F[<<g[1..k - 1], k>>]
  <2>1. 1..k # {} /\ 1..k \in SUBSET (1..n) /\ Max(1..k) = k /\ (1..k) \ {k} = 1..k - 1
    BY LastPlace
  <2>2. g[1..k] = g[(1..k) \ {Max(1..k)}] + Len(s[Max(1..k)])
    BY <1>11, <2>1
  <2> QED
    BY <1>5, <1>13, <2>1, <2>2
<1>14. RunBy(Counted1, 1, F, n, g)
  BY <1>12, <1>13 DEF RunBy
<1>15. PICK H \in [0..n -> Counted1] : Run(1, F, n, H) /\ H[n] = g[1..n]
  <2>1. RunsTo(Counted1, 1, F, n, g[1..n])
    BY <1>4, <1>6, <1>14, RunOfSteps
  <2> QED
    BY <2>1 DEF RunsTo
<1>16. ASSUME NEW k \in 1..n PROVE H[k] = H[k - 1] + Len(parts[k])
  <2>1. H[k] = F[<<H[k - 1], k>>] /\ H[k - 1] \in Counted1
    BY <1>15 DEF Run
  <2> QED
    BY <1>2, <1>5, <2>1
<1>17. StartsRun(parts, n, H)
  BY <1>15, <1>16 DEF Run, StartsRun
<1>18. StartOf(parts, i) = H[n]
  BY <1>2, <1>3, <1>9, <1>15
<1> QED
  BY <1>1, <1>15, <1>17, <1>18 DEF Counted1

\* A later segment does not begin before.
LEMMA StartsGrow ==
  ASSUME NEW parts \in Seq(Text), NEW i \in 1..Len(parts), NEW j \in i..Len(parts)
  PROVE  /\ StartOf(parts, i) \in Nat \ {0} /\ StartOf(parts, j) \in Nat \ {0}
         /\ StartOf(parts, i) <= StartOf(parts, j)
<1>1. PICK G \in [0..i - 1 -> Nat \ {0}] :
        StartsRun(parts, i - 1, G) /\ StartOf(parts, i) = G[i - 1]
  BY StartRuns
<1>2. PICK H \in [0..j - 1 -> Nat \ {0}] :
        StartsRun(parts, j - 1, H) /\ StartOf(parts, j) = H[j - 1]
  <2>1. j \in 1..Len(parts)
    OBVIOUS
  <2> QED
    BY <2>1, StartRuns
<1>3. \A k \in 1..Len(parts) : Len(parts[k]) \in Nat
  BY DEF Text
<1> DEFINE S == {k \in Nat : k <= j - 1 => (k <= i - 1 => G[k] = H[k])
                                          /\ (i - 1 <= k => H[i - 1] <= H[k])}
<1>4. 0 \in S
  BY <1>1, <1>2 DEF StartsRun
<1>5. ASSUME NEW k \in Nat, k \in S PROVE k + 1 \in S
  <2>1. SUFFICES ASSUME k + 1 <= j - 1
                 PROVE  (k + 1 <= i - 1 => G[k + 1] = H[k + 1])
                        /\ (i - 1 <= k + 1 => H[i - 1] <= H[k + 1])
    OBVIOUS
  <2>2. k + 1 \in 1..j - 1 /\ (k + 1) - 1 = k /\ k + 1 \in 1..Len(parts)
    BY <2>1
  <2>3. H[k + 1] = H[k] + Len(parts[k + 1]) /\ H[k] \in Nat
    BY <1>2, <2>2 DEF StartsRun
  <2>4. k + 1 <= i - 1 => G[k + 1] = G[k] + Len(parts[k + 1])
    BY <1>1, <2>2 DEF StartsRun
  <2>5. (k <= i - 1 => G[k] = H[k]) /\ (i - 1 <= k => H[i - 1] <= H[k])
    BY <1>5, <2>1
  <2>6. H[i - 1] \in Nat
    BY <1>2
  <2> HIDE DEF S
  <2>7. PICK l \in Nat : l = Len(parts[k + 1])
    BY <1>3, <2>2
  <2>8. PICK x \in Nat : x = H[k] /\ H[k + 1] = x + l
    BY <2>3, <2>7
  <2>9. ASSUME k + 1 <= i - 1 PROVE G[k + 1] = H[k + 1]
    BY <2>3, <2>4, <2>5, <2>9
  <2>10. ASSUME i - 1 <= k + 1 PROVE H[i - 1] <= H[k + 1]
    <3>1. CASE i - 1 = k + 1
      BY <2>6, <3>1
    <3>2. CASE i - 1 <= k
      BY <2>5, <2>6, <2>8, <3>2
    <3> QED
      BY <2>10, <3>1, <3>2
  <2> QED
    BY <2>9, <2>10
<1>6. Nat \subseteq S
  <2> HIDE DEF S
  <2> QED
    BY <1>4, <1>5, Induction
<1>7. i - 1 \in S /\ j - 1 \in S
  <2> HIDE DEF S
  <2> QED
    BY <1>6
<1>8. G[i - 1] = H[i - 1] /\ H[i - 1] <= H[j - 1]
  BY <1>7
<1> QED
  BY <1>1, <1>2, <1>8

\* What is cut from a position is a segment exactly if the whole rest of the path
\* is: the cut has the next slash in it if there is one.
LEMMA CutIsRest ==
  ASSUME NEW path \in Text, NEW pos \in Nat \ {0}, NEW w \in Segment, PathArg(path, pos) # Thrown
  PROVE  PathArg(path, pos) = w <=> SubSeq(path, pos + 1, Len(path)) = w
<1>1. PICK n \in Nat : n = Len(path) /\ DOMAIN path = 1..n /\ path \in [1..n -> STRING]
  BY TextPlaces DEF Text
<1> DEFINE at == {i \in pos + 1..n : path[i] = "/"}
           to == IF at = {} THEN n ELSE (CHOOSE i \in at : \A j \in at : i <= j) - 1
<1>2. FindFrom(path, "/", pos) = to
  BY <1>1 DEF FindFrom
<1>3. pos <= n
  BY <1>1 DEF PathArg, substr
<1>4. PathArg(path, pos) = SubSeq(path, pos + 1, IF pos + to > n THEN n ELSE pos + to)
  BY <1>1, <1>2, <1>3 DEF PathArg, substr
<1>5. CASE at = {}
  <2>1. to = n /\ pos + to > n
    BY <1>5
  <2> QED
    BY <1>1, <1>4, <2>1
<1>6. CASE at # {}
  <2>1. PICK k \in at : \A j \in at : k <= j
    <3>1. at \subseteq Nat
      OBVIOUS
    <3> HIDE DEF at
    <3> QED
      BY <1>6, <3>1, LeastNatural
  <2>2. PICK m : m = (CHOOSE i \in at : \A j \in at : i <= j)
    OBVIOUS
  <2>3. m \in at
    <3> HIDE DEF at
    <3> QED
      BY <2>1, <2>2
  <2>4. m \in pos + 1..n /\ path[m] = "/" /\ to = m - 1
    BY <1>6, <2>2, <2>3
  <2> HIDE DEF at, to
  <2>5. PICK e \in Nat : e = (IF pos + to > n THEN n ELSE pos + to) /\ m <= e /\ e <= n
    BY <2>4
  <2>6. ASSUME NEW l \in {e, n} PROVE SubSeq(path, pos + 1, l) # w
    <3>1. l \in Nat /\ m <= l /\ l <= n
      BY <2>4, <2>5
    <3>2. \A x \in pos + 1..l : path[x] \in STRING
      <4>1. \A x \in 1..n : path[x] \in STRING
        BY <1>1, TextPlaces
      <4>2. \A x \in pos + 1..l : x \in 1..n
        BY <3>1
      <4> QED
        BY <4>1, <4>2
    <3>3. /\ Len(SubSeq(path, pos + 1, l)) = l - pos
          /\ SubSeq(path, pos + 1, l)[m - pos] = path[m]
      <4>1. m - pos \in 1..l - pos /\ pos + (m - pos) = m
        BY <2>4, <3>1
      <4> QED
        BY <2>4, <3>1, <3>2, <4>1, SubSeqProperties
    <3>4. SUFFICES ASSUME SubSeq(path, pos + 1, l) = w PROVE FALSE
      OBVIOUS
    <3>5. w[m - pos] = "/" /\ Len(w) = l - pos
      BY <2>4, <3>3, <3>4
    <3>6. m - pos \in DOMAIN w
      <4>1. w \in Text
        BY DEF Segment
      <4>2. DOMAIN w = 1..Len(w)
        BY <4>1, TextPlaces
      <4> QED
        BY <2>4, <3>1, <3>5, <4>2
    <3> QED
      BY <3>5, <3>6 DEF Segment
  <2>7. PathArg(path, pos) = SubSeq(path, pos + 1, e)
    BY <1>4, <2>5
  <2> QED
    BY <1>1, <2>6, <2>7
<1> HIDE DEF at, to
<1> QED
  BY <1>5, <1>6

\* The solver cannot read the character.
Brace == "{"

\* The name of an argument is what stands behind its brace.
LEMMA NameOfPart ==
  ASSUME NEW v \in Text, isDynamicPathPart(v), NEW name, name = Tail(v)
  PROVE  /\ Len(v) \in Nat /\ v[1] = Brace
         /\ Len(name) = Len(v) - 1 /\ \A i \in 1..Len(v) - 1 : name[i] = v[i + 1]
<1>1. Len(v) > 2 /\ Head(v) = Brace
  BY Zenon DEF isDynamicPathPart, Brace
<1>2. v \in Seq(STRING) /\ Len(v) \in Nat
  BY DEF Text
<1>3. v # <<>>
  <2>1. Len(<<>>) = 0
    OBVIOUS
  <2> QED
    BY <1>1, <2>1
<1>4. v[1] = Brace
  BY <1>1, <1>2, <1>3
<1>5. Len(Tail(v)) = Len(v) - 1 /\ \A i \in 1..Len(Tail(v)) : Tail(v)[i] = v[i + 1]
  BY <1>2, <1>3, HeadTailProperties
<1> QED
  BY <1>2, <1>4, <1>5

\* Segments in braces with the same name are the same.
LEMMA SameName ==
  ASSUME NEW v \in Text, NEW w \in Text, isDynamicPathPart(v), isDynamicPathPart(w), Tail(v) = Tail(w)
  PROVE  v = w
<1>1. PICK name : name = Tail(v) /\ name = Tail(w)
  OBVIOUS
<1>2. PICK n \in Nat : n = Len(v) /\ v[1] = Brace
                      /\ Len(name) = n - 1 /\ \A i \in 1..n - 1 : name[i] = v[i + 1]
  BY <1>1, NameOfPart
<1>3. PICK m \in Nat : m = Len(w) /\ w[1] = Brace
                      /\ Len(name) = m - 1 /\ \A i \in 1..m - 1 : name[i] = w[i + 1]
  BY <1>1, NameOfPart
<1>4. n = m
  BY <1>2, <1>3
<1>5. ASSUME NEW i \in 1..n PROVE v[i] = w[i]
  <2>1. CASE i = 1
    BY <1>2, <1>3, <2>1
  <2>2. CASE i # 1
    <3>1. i - 1 \in 1..n - 1 /\ (i - 1) + 1 = i
      BY <2>2
    <3> QED
      BY <1>2, <1>3, <1>4, <3>1
  <2> QED
    BY <2>1, <2>2
<1>6. v \in Seq(STRING) /\ w \in Seq(STRING) /\ Len(v) = n /\ Len(w) = n
  BY <1>2, <1>3, <1>4 DEF Text
<1> HIDE DEF Text
<1> QED
  BY <1>5, <1>6, SameSequence

\* The arguments of a route, segment by segment.
DynamicOf(p) == {j \in DOMAIN p : isDynamicPathPart(p[j])}
ArgAt(p, j) == [arg_name |-> Tail(p[j]), segment_pos |-> StartOf(p, j)]

LEMMA ArgsShape ==
  ASSUME NEW path
  PROVE  PathArgs(path) = {ArgAt(splitBySlash(path), j) : j \in DynamicOf(splitBySlash(path))}
BY DEF PathArgs, ArgAt, DynamicOf

\* The argument that is the last of its name is cut at its own position.
LEMMA ArgOfName ==
  ASSUME NEW p \in Seq(Text), NEW i \in DynamicOf(p), \A j \in DOMAIN p : j > i => p[j] # p[i],
         NEW args, args = {ArgAt(p, j) : j \in DynamicOf(p)}, NEW path
  PROVE  /\ Tail(p[i]) \in DOMAIN ArgsOf(args, path)
         /\ ArgsOf(args, path)[Tail(p[i])] = PathArg(path, StartOf(p, i))
<1>1. i \in 1..Len(p) /\ DOMAIN p = 1..Len(p) /\ Len(p) \in Nat /\ isDynamicPathPart(p[i])
  BY DEF DynamicOf
<1>2. ArgAt(p, i) \in args /\ ArgAt(p, i).arg_name = Tail(p[i])
      /\ ArgAt(p, i).segment_pos = StartOf(p, i)
  BY DEF ArgAt
<1> DEFINE S == {arg.segment_pos : arg \in {a \in args : a.arg_name = Tail(p[i])}}
<1>3. StartOf(p, i) \in S
  <2>1. PICK a : a = ArgAt(p, i)
    OBVIOUS
  <2>2. a \in args /\ a.arg_name = Tail(p[i]) /\ a.segment_pos = StartOf(p, i)
    BY <1>2, <2>1
  <2> QED
    BY <2>2
<1>4. ASSUME NEW x \in S PROVE x \in Nat /\ x <= StartOf(p, i)
  <2>1. PICK j \in DynamicOf(p) : ArgAt(p, j).arg_name = Tail(p[i]) /\ x = ArgAt(p, j).segment_pos
    OBVIOUS
  <2>2. Tail(p[j]) = Tail(p[i]) /\ x = StartOf(p, j)
    BY <2>1 DEF ArgAt
  <2>3. j \in 1..Len(p) /\ isDynamicPathPart(p[j])
    BY <1>1 DEF DynamicOf
  <2>4. p[j] = p[i]
    <3>1. p[i] \in Text /\ p[j] \in Text
      BY <1>1, <2>3
    <3> QED
      BY <1>1, <2>2, <2>3, <3>1, SameName
  <2>5. j <= i /\ i \in j..Len(p)
    BY <1>1, <2>3, <2>4
  <2> QED
    BY <2>2, <2>3, <2>5, StartsGrow
<1> HIDE DEF S
<1>5. Max(S) = StartOf(p, i)
  <2>1. S \subseteq Int
    BY <1>4
  <2> QED
    BY <1>3, <1>4, <2>1, Greatest
<1> DEFINE A == [name \in {arg.arg_name : arg \in args} |->
                   PathArg(path, Max({arg.segment_pos : arg \in {a \in args : a.arg_name = name}}))]
<1>6. ArgsOf(args, path) = A
  BY DEF ArgsOf
<1>7. Tail(p[i]) \in {arg.arg_name : arg \in args}
  <2>1. PICK a : a = ArgAt(p, i)
    OBVIOUS
  <2>2. a \in args /\ a.arg_name = Tail(p[i])
    BY <1>2, <2>1
  <2> QED
    BY <2>2
<1>8. Tail(p[i]) \in DOMAIN A /\ A[Tail(p[i])] = PathArg(path, Max(S))
  BY <1>7 DEF S
<1> HIDE DEF A
<1> QED
  BY <1>5, <1>6, <1>8

-----------------------------------------------------------------------------
(* The arguments of a request that is built. *)

FoundFor(d, path, args) ==
  LET found == getResource(Resources(d), path)
  IN /\ found \notin {NoValue, Thrown}
     /\ args = ArgsOf(found.args, path)
     /\ \A arg \in found.args : PathArg(path, arg.segment_pos) # Thrown

ArgsInv ==
  /\ requests \in Exchanges
  /\ built # NotBuilt => FoundFor(deployed, built.path, built.args)

\* The claim of ArgumentIsSegment of one route.
ArgsAre(route, path, args) ==
  LET p == splitBySlash(route)
      q == splitBySlash(path)
  IN \A i \in DOMAIN p :
       isDynamicPathPart(p[i]) /\ (\A j \in DOMAIN p : j > i => p[j] # p[i]) =>
         /\ Tail(p[i]) \in DOMAIN args
         /\ args[Tail(p[i])] = q[i] <=> SubSeq(path, StartOf(p, i) + 1, Len(path)) = q[i]

LEMMA SegmentsAreTexts ==
  ASSUME NEW path \in Text
  PROVE  /\ splitBySlash(path) \in Seq(Text)
         /\ DOMAIN splitBySlash(path) = 1..Len(splitBySlash(path))
         /\ \A i \in DOMAIN splitBySlash(path) : splitBySlash(path)[i] \in Segment
<1>1. PICK q \in Seq(Segment) : q = splitBySlash(path)
  BY SplitShape DEF Segments
<1>2. Segment \subseteq Text
  BY DEF Segment
<1>3. q \in Seq(Text) /\ DOMAIN q = 1..Len(q) /\ \A i \in DOMAIN q : q[i] \in Segment
  <2> HIDE DEF Segment
  <2> QED
    BY <1>2
<1> QED
  BY <1>1, <1>3

LEMMA ArgsOfRoute ==
  ASSUME NEW route \in Text, NEW path \in Text, Matches(route, path), NEW args,
         args = ArgsOf(PathArgs(route), path),
         \A arg \in PathArgs(route) : PathArg(path, arg.segment_pos) # Thrown
  PROVE  ArgsAre(route, path, args)
<1>1. PICK p \in Seq(Text) : p = splitBySlash(route) /\ DOMAIN p = 1..Len(p)
  BY SegmentsAreTexts
<1>2. PICK q \in Seq(Text) : q = splitBySlash(path) /\ DOMAIN q = 1..Len(q)
                             /\ \A i \in DOMAIN q : q[i] \in Segment
  BY SegmentsAreTexts
<1>3. Len(p) = Len(q)
  BY <1>1, <1>2 DEF Matches
<1>4. PathArgs(route) = {ArgAt(p, j) : j \in DynamicOf(p)}
  BY <1>1, ArgsShape
<1>5. ASSUME NEW i \in DOMAIN p, isDynamicPathPart(p[i]), \A j \in DOMAIN p : j > i => p[j] # p[i]
      PROVE  /\ Tail(p[i]) \in DOMAIN args
             /\ args[Tail(p[i])] = q[i] <=> SubSeq(path, StartOf(p, i) + 1, Len(path)) = q[i]
  <2>1. i \in DynamicOf(p) /\ i \in 1..Len(p)
    BY <1>1, <1>5 DEF DynamicOf
  <2>2. Tail(p[i]) \in DOMAIN args /\ args[Tail(p[i])] = PathArg(path, StartOf(p, i))
    BY <1>4, <1>5, <2>1, ArgOfName
  <2>3. PathArg(path, StartOf(p, i)) # Thrown
    <3>1. PICK a : a = ArgAt(p, i)
      OBVIOUS
    <3>2. a \in PathArgs(route) /\ a.segment_pos = StartOf(p, i)
      BY <1>4, <2>1, <3>1 DEF ArgAt
    <3> QED
      BY <3>2
  <2>4. StartOf(p, i) \in Nat \ {0}
    <3>1. i \in i..Len(p)
      BY <2>1
    <3> QED
      BY <2>1, <3>1, StartsGrow
  <2>5. q[i] \in Segment
    BY <1>1, <1>2, <1>3
  <2>6. PathArg(path, StartOf(p, i)) = q[i] <=> SubSeq(path, StartOf(p, i) + 1, Len(path)) = q[i]
    BY <2>3, <2>4, <2>5, CutIsRest
  <2> QED
    BY <2>2, <2>6
<1> QED
  BY <1>1, <1>2, <1>5 DEF ArgsAre

LEMMA ArgsInvSuffices == ArgsInv /\ BuiltInv /\ UInv => ArgumentIsSegment
<1> SUFFICES ASSUME ArgsInv, BuiltInv, UInv, built # NotBuilt, Whole(built.msg, 1),
                    OriginForm(requests[built.msg].url), Fits(requests[built.msg].url.path)
             PROVE  \E route \in Range(deployed) :
                      /\ Matches(route.path, built.path)
                      /\ ArgsAre(route.path, built.path, built.args)
  BY DEF ArgumentIsSegment, ArgsAre
<1>1. built.msg \in DOMAIN requests
  BY DEF BuiltInv
<1>2. built.path = requests[built.msg].url.path
  BY DEF UInv, UrlAsAsked
<1>3. built.path \in Text
  <2>1. requests[built.msg].url \in UrlParts
    BY <1>1 DEF UInv, WrittenInv
  <2> QED
    BY <1>2, <2>1 DEF UrlParts
<1> DEFINE found == getResource(Resources(deployed), built.path)
<1>4. /\ found \notin {NoValue, Thrown} /\ built.args = ArgsOf(found.args, built.path)
      /\ \A arg \in found.args : PathArg(built.path, arg.segment_pos) # Thrown
  BY DEF ArgsInv, FoundFor
<1>5. deployed \in Deployments
  BY DEF UInv, DeployedInv
<1>6. PICK route \in Range(deployed) :
        Matches(route.path, built.path) /\ found.args = PathArgs(route.path)
  <2>1. requests \in Exchanges
    BY DEF ArgsInv
  <2> QED
    BY <1>1, <1>2, <1>4, <1>5, <2>1, FoundAssumption
<1>7. route.path \in Text
  <2>1. deployed \in Seq([path : Text, method : Methods])
    BY <1>5, DeploymentsAssumption
  <2>2. PICK k \in DOMAIN deployed : route = deployed[k]
    BY <1>6 DEF Range
  <2> DEFINE R == [path : Text, method : Methods]
  <2>3. R \subseteq [path : Text, method : Methods]
    OBVIOUS
  <2> HIDE DEF R
  <2>4. route \in R
    <3>1. deployed \in Seq(R)
      BY <2>1 DEF R
    <3> QED
      BY <2>2, <3>1
  <2> QED
    BY <2>3, <2>4
<1> HIDE DEF found
<1>8. ArgsAre(route.path, built.path, built.args)
  BY <1>3, <1>4, <1>6, <1>7, ArgsOfRoute
<1> QED
  BY <1>6, <1>8

LEMMA StepArgsInv == ArgsInv /\ DeployedInv /\ [Next]_vars => ArgsInv'
<1> SUFFICES ASSUME ArgsInv, DeployedInv, [Next]_vars PROVE ArgsInv'
  OBVIOUS
<1>1. requests' = requests /\ deployed' = deployed
  BY DEF Next, Callback, onMessageBegin, Deliver, onHeadersComplete, onMessageBody,
         onMessageComplete, BuildRequest, vars, sent
<1>2. CASE BuildRequest /\ built' # built
  <2> DEFINE found == getResource(routes_, builder.path)
  <2>1. Buildable(found)
    BY <1>2 DEF BuildRequest
  <2>2. built'.path = builder.path /\ built'.args = ArgsOf(found.args, builder.path)
    <3>1. PICK msg, handler :
            built' = [msg |-> msg, method |-> builder.method, path |-> builder.path,
                      query |-> builder.query, headers |-> builder.headers,
                      body |-> builder.body_reader, args |-> ArgsOf(found.args, builder.path),
                      handler |-> handler]
      BY <1>2, <2>1 DEF BuildRequest
    <3> HIDE DEF found
    <3> QED
      BY <3>1
  <2>3. /\ found \notin {NoValue, Thrown}
        /\ \A arg \in found.args : PathArg(builder.path, arg.segment_pos) # Thrown
    BY <2>1 DEF Buildable
  <2>4. found = getResource(Resources(deployed), builder.path)
    BY DEF DeployedInv
  <2> HIDE DEF found
  <2>5. FoundFor(deployed, built'.path, built'.args)
    BY <2>2, <2>3, <2>4 DEF FoundFor
  <2> QED
    BY <1>1, <2>5 DEF ArgsInv
<1>3. CASE built' = built
  BY <1>1, <1>3 DEF ArgsInv
<1>4. ~BuildRequest => built' = built
  BY DEF Next, Callback, onMessageBegin, Deliver, onHeadersComplete, onMessageBody,
         onMessageComplete, vars
<1> QED
  BY <1>2, <1>3, <1>4

\* An argument of a request, the last of its name, is the segment that stands for
\* it in the path exactly if the whole rest of the path, from the position that
\* addHandler counted (url_dispatcher.cpp:40), is (http_request_builder.cpp:74).
THEOREM ArgumentByChance == Spec => []ArgumentIsSegment
<1>1. Init => ArgsInv
  BY DEF Init, ArgsInv
<1>2. CInv => BuiltInv
  BY DEF CInv
<1>3. UInv => DeployedInv
  BY DEF UInv
<1> QED
  BY <1>1, <1>2, <1>3, StepArgsInv, ArgsInvSuffices,
     InitIInv, StepIInv, InitUInv, StepUInv, InitCInv, StepCInv, PTL DEF Spec
=============================================================================
