---------------------------- MODULE HttpHeaders ----------------------------
(***************************************************************************)
(* HttpHeaders (src/http/http_headers.cpp): a function from the names that *)
(* are set to the sequences of their values.  Names and values are         *)
(* sequences; the case of a name's letters counts.  The map has no order:  *)
(* what is written goes through the names in some order.                   *)
(***************************************************************************)
EXTENDS Sequences, SequencesExt, Functions, TLC

NoHeaders == <<>>

set(headers, key, values) ==
  [name \in DOMAIN headers \cup {key} |-> IF name = key THEN values ELSE headers[name]]

\* Mistake: a value replaces the ones before.
AddReplaces(headers, key, value) == set(headers, key, <<value>>)

add(headers, key, value) ==
  IF key \in DOMAIN headers THEN [headers EXCEPT ![key] = Append(@, value)]
  ELSE set(headers, key, <<value>>)

\* The headers that are there stay.
addHeaders(headers, more) == headers @@ more

\* The orders in which a map may be gone through.
Orders(headers) == SetToSeqs(DOMAIN headers)

Joined(parts, by) ==
  FlattenSeq([i \in DOMAIN parts |-> IF i = 1 THEN parts[i] ELSE by \o parts[i]])

\* One line with all values, or a line for each where a list is no value.
Lines(key, values, combined) ==
  IF combined THEN key \o <<":", " ">> \o Joined(values, <<",", " ">>)
  ELSE Joined([i \in DOMAIN values |-> key \o <<":", " ">> \o values[i]], <<"\r", "\n">>)

\* Mistake: no blank line.
FormatWithoutBlankLine(headers, order, nonCombinable) ==
  Joined([i \in DOMAIN order |-> Lines(order[i], headers[order[i]], order[i] \notin nonCombinable)],
         <<"\r", "\n">>) \o <<"\r", "\n">>

formatHeaders(headers, order, nonCombinable) ==
  Joined([i \in DOMAIN order |-> Lines(order[i], headers[order[i]], order[i] \notin nonCombinable)],
         <<"\r", "\n">>) \o <<"\r", "\n", "\r", "\n">>
=============================================================================
