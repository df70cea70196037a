---------------------------- MODULE HttpResponse ----------------------------
(***************************************************************************)
(* HttpResponse with a TextResponseBody (src/http/http_response.cpp): the  *)
(* bytes sendResponse writes, when the socket takes them all.              *)
(***************************************************************************)
EXTENDS HttpHeaders

CONSTANTS
  Chars(_),         \* the characters of a string
  NonCombinable     \* the names canCominedHeaders excludes

\* The setters it calls are empty.
buildSpecificBodyHeaders(body) == NoHeaders

prepareHeaders(response) == addHeaders(response.headers, buildSpecificBodyHeaders(response.body))

\* sendBody writes the body chunk by chunk, to its end.
sendResponse(response, order) ==
  Chars("HTTP/1.1 " \o ToString(response.status) \o " ok\r\n\r\n")
  \o formatHeaders(prepareHeaders(response), order, NonCombinable) \o response.body
=============================================================================
