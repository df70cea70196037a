------------------------------ MODULE HttpUrl ------------------------------
(***************************************************************************)
(* The URL parser of http_parser.c: the transition function that           *)
(* http_parser_execute shares with it, and http_parser_parse_url, which    *)
(* cuts a URL into fields.  A struct http_parser_url is a record; field    *)
(* offsets count from 0, as in C, and are uint16_t: taken modulo           *)
(* UINT16_MAX + 1.                                                         *)
(***************************************************************************)
EXTENDS HttpCharacters, FiniteSets, SequencesExt

CONSTANT UINT16_MAX     \* 65535 in the program

ASSUME WidthAssumption == UINT16_MAX \in Nat \ {0}

UrlStates == {"s_req_schema", "s_req_schema_slash", "s_req_schema_slash_slash",
              "s_req_server_start", "s_req_server", "s_req_server_with_at",
              "s_req_path", "s_req_query_string_start", "s_req_query_string",
              "s_req_fragment_start", "s_req_fragment"}

\* What no URL contains.
UrlStops == {" ", CR, LF, TAB, FF}

parse_url_char(s, ch) ==
  IF ch \in UrlStops THEN "s_dead"
  ELSE CASE s = "s_req_spaces_before_url" /\ ch \in {"/", "*"} -> "s_req_path"
         [] s \in {"s_req_spaces_before_url", "s_req_schema"} /\ IS_ALPHA(ch) -> "s_req_schema"
         [] s = "s_req_schema" /\ ch = ":" -> "s_req_schema_slash"
         [] s = "s_req_schema_slash" /\ ch = "/" -> "s_req_schema_slash_slash"
         [] s = "s_req_schema_slash_slash" /\ ch = "/" -> "s_req_server_start"
         [] s \in {"s_req_server_start", "s_req_server", "s_req_server_with_at"} ->
              CASE ch = "/" -> "s_req_path"
                [] ch = "?" -> "s_req_query_string_start"
                [] ch = "@" -> IF s = "s_req_server_with_at" THEN "s_dead"
                               ELSE "s_req_server_with_at"
                [] IS_USERINFO_CHAR(ch) \/ ch \in {"[", "]"} -> "s_req_server"
                [] OTHER -> "s_dead"
         [] s = "s_req_path" ->
              CASE IS_URL_CHAR(ch) -> s
                [] ch = "?" -> "s_req_query_string_start"
                [] ch = "#" -> "s_req_fragment_start"
                [] OTHER -> "s_dead"
         [] s \in {"s_req_query_string_start", "s_req_query_string"} ->
              CASE IS_URL_CHAR(ch) \/ ch = "?" -> "s_req_query_string"
                [] ch = "#" -> "s_req_fragment_start"
                [] OTHER -> "s_dead"
         [] s \in {"s_req_fragment_start", "s_req_fragment"} ->
              CASE IS_URL_CHAR(ch) \/ ch = "?" -> "s_req_fragment"
                [] ch = "#" -> s
                [] OTHER -> "s_dead"
         [] OTHER -> "s_dead"

-----------------------------------------------------------------------------
(* http_parser_parse_url. *)

UrlFields == {"schema", "host", "port", "path", "query", "fragment", "userinfo"}

\* The value of a uint16_t.
Narrow(n) == n % (UINT16_MAX + 1)

http_parser_url_init ==
  [port |-> 0, field_set |-> {}, off |-> [f \in UrlFields |-> 0], len |-> [f \in UrlFields |-> 0]]

\* Mistake: the length a field had for the URL before is counted on.
ExtendedAddsUp(u, field, at, first) ==
  IF first THEN [u EXCEPT !.off[field] = Narrow(at), !.len[field] = Narrow(@ + 1),
                          !.field_set = @ \cup {field}]
  ELSE [u EXCEPT !.len[field] = Narrow(@ + 1)]

\* The character at offset at belongs to the field, as its first or not.
Extended(u, field, at, first) ==
  IF first THEN [u EXCEPT !.off[field] = Narrow(at), !.len[field] = 1,
                          !.field_set = @ \cup {field}]
  ELSE [u EXCEPT !.len[field] = Narrow(@ + 1)]

\* The field a character belongs to in the states that are no delimiter.
FieldOfState ==
  [s_req_schema |-> "schema", s_req_server |-> "host", s_req_server_with_at |-> "host",
   s_req_path |-> "path", s_req_query_string |-> "query", s_req_fragment |-> "fragment"]

\* A turn of the loop over the URL, for its i-th character: the state, whether an
\* @ was met, the field written last and the struct.
UrlCharacter(buf, acc, i) ==
  LET s == parse_url_char(acc.s, buf[i])
      field == FieldOfState[s]
  IN IF s \notin DOMAIN FieldOfState THEN [acc EXCEPT !.s = s]
     ELSE [s |-> s, field |-> field,
           found_at |-> acc.found_at \/ s = "s_req_server_with_at",
           u |-> Extended(acc.u, field, i - 1, field # acc.field)]

CutIntoFields(buf, start, u) ==
  LET Character(acc, i) == UrlCharacter(buf, acc, i)
  IN FoldLeftDomain(Character, [s |-> start, field |-> "none", found_at |-> FALSE, u |-> u], buf)

http_parse_host_char(s, ch) ==
  CASE s \in {"s_http_userinfo", "s_http_userinfo_start"} ->
         CASE ch = "@" -> "s_http_host_start"
           [] IS_USERINFO_CHAR(ch) -> "s_http_userinfo"
           [] OTHER -> "s_http_host_dead"
    [] s = "s_http_host_start" /\ ch = "[" -> "s_http_host_v6_start"
    [] s \in {"s_http_host_start", "s_http_host"} /\ IS_HOST_CHAR(ch) -> "s_http_host"
    [] s \in {"s_http_host", "s_http_host_v6_end"} /\ ch = ":" -> "s_http_host_port_start"
    [] s \in {"s_http_host_v6", "s_http_host_v6_zone"} /\ ch = "]" -> "s_http_host_v6_end"
    [] s \in {"s_http_host_v6", "s_http_host_v6_start"} /\ (IS_HEX(ch) \/ ch \in {":", "."}) ->
         "s_http_host_v6"
    [] s = "s_http_host_v6" /\ ch = "%" -> "s_http_host_v6_zone_start"
    [] s \in {"s_http_host_v6_zone", "s_http_host_v6_zone_start"}
       /\ (IS_ALPHANUM(ch) \/ ch \in {"%", ".", "-", "_", "~"}) -> "s_http_host_v6_zone"
    [] s \in {"s_http_host_port", "s_http_host_port_start"} /\ IS_NUM(ch) -> "s_http_host_port"
    [] OTHER -> "s_http_host_dead"

\* The states in which a host may end.
HostEnds == {"s_http_host", "s_http_host_v6_end", "s_http_host_port"}

\* A turn of the loop over the host: its state and the struct.
HostCharacter(buf, acc, i) ==
  LET s == http_parse_host_char(acc.s, buf[i])
      first == s # acc.s
      host == IF first /\ s \in {"s_http_host", "s_http_host_v6"}
              THEN [acc.u EXCEPT !.off["host"] = Narrow(i - 1)] ELSE acc.u
  IN [s |-> s,
      u |-> CASE s \in {"s_http_host", "s_http_host_v6", "s_http_host_v6_zone_start",
                        "s_http_host_v6_zone"} -> Extended(host, "host", i - 1, FALSE)
              [] s = "s_http_host_port" -> Extended(acc.u, "port", i - 1, first)
              [] s = "s_http_userinfo" -> Extended(acc.u, "userinfo", i - 1, first)
              [] OTHER -> acc.u]

\* Narrows the field of the host to the host's name and sets those of the user
\* and the port.  The length of the host is counted anew.
http_parse_host(buf, u, found_at) ==
  LET Character(acc, i) == HostCharacter(buf, acc, i)
      bytes == [k \in 1..u.len["host"] |-> u.off["host"] + k]
      end == FoldLeft(Character, [s |-> IF found_at THEN "s_http_userinfo_start"
                                        ELSE "s_http_host_start",
                                  u |-> [u EXCEPT !.len["host"] = 0]], bytes)
  IN [ok |-> end.s \in HostEnds, u |-> end.u]

\* The port's digits, until they are too many.
PortValue(buf, u) ==
  FoldLeft(LAMBDA v, k : IF v > 65535 THEN v ELSE 10 * v + DigitValue(buf[u.off["port"] + k]),
           0, [k \in 1..u.len["port"] |-> k])

Refused(u) == [ok |-> FALSE, u |-> u]

WithPort(u, port) ==
  IF port > 65535 THEN Refused(u) ELSE [ok |-> TRUE, u |-> [u EXCEPT !.port = port]]

\* With the host's state and struct: a CONNECT names a host and a port.
WithHost(buf, is_connect, host) ==
  IF ~host.ok \/ (is_connect /\ host.u.field_set # {"host", "port"}) THEN Refused(host.u)
  ELSE WithPort(host.u, IF "port" \in host.u.field_set THEN PortValue(buf, host.u) ELSE 0)

\* With the end of the loop: http:/// is no URL.
WithFields(buf, is_connect, cut) ==
  IF cut.s = "s_dead" \/ ("schema" \in cut.u.field_set /\ "host" \notin cut.u.field_set)
  THEN Refused(cut.u)
  ELSE WithHost(buf, is_connect, IF "host" \in cut.u.field_set
                                 THEN http_parse_host(buf, cut.u, cut.found_at)
                                 ELSE [ok |-> TRUE, u |-> cut.u])

\* Whether the URL is one, and the struct.  Only the port and the set of fields
\* are reset: of a struct used before, the other offsets and lengths stay.
http_parser_parse_url(buf, is_connect, u) ==
  IF buf = <<>> THEN Refused(u)
  ELSE WithFields(buf, is_connect,
                  CutIntoFields(buf, IF is_connect THEN "s_req_server_start"
                                     ELSE "s_req_spaces_before_url",
                                [u EXCEPT !.port = 0, !.field_set = {}]))
=============================================================================
