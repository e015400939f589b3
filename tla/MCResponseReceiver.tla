--------------------------- MODULE MCResponseReceiver --------------------------
(***************************************************************************)
(* ResponseReceiver with some responses of few bytes.                      *)
(***************************************************************************)
EXTENDS ResponseReceiver

Digits == [d \in {"0", "2"} |-> IF d = "0" THEN 0 ELSE 2]

Eol == <<"CR", "LF">>

StatusLine_ == <<"x", "LF">>

\* A header on its line: its name and value, the words that this is read as, what
\* there is between the line before and this one, and how it ends.
Header(name, value_, words) ==
  [before |-> <<>>, name |-> name, value |-> value_, words |-> words, end |-> <<"LF">>]

Line(h) == h.before \o <<"x", "COLON">> \o h.value \o h.end

\* What the digits up to each of them spell.
Spells(text, base) ==
  LET n[i \in 0..Len(text)] ==
        IF i > 0 /\ text[i] \in DOMAIN Digits THEN n[i - 1] * base + Digits[text[i]] ELSE 0
  IN  [i \in {i \in DOMAIN text : text[i] \in DOMAIN Digits} |-> n[i]]

\* A response of a status, with chunks where they are said to be behind its
\* head, whose message is followed by more bytes, or not.
Chunked_(status, lines, body, chunks, more, closes) ==
  LET head[i \in 0..Len(lines)] ==
        IF i = 0 THEN StatusLine_ ELSE head[i - 1] \o Line(lines[i])
      ColonOf(i) == Len(head[i - 1]) + Len(lines[i].before) + 2
      Colons(has) == {ColonOf(i) : i \in {i \in DOMAIN lines : lines[i].name \in has}}
      worded == UNION {{<<i, k>> : k \in DOMAIN lines[i].words} : i \in DOMAIN lines}
      message == head[Len(lines)] \o Eol \o body
      text == message \o more
  IN  [text |-> text, whole |-> Len(message), status |-> status,
       names |-> [c \in Colons(Name) |-> lines[CHOOSE i \in DOMAIN lines : ColonOf(i) = c].name],
       codings |-> Colons({"transfer_encoding"}),
       words |-> [p \in {ColonOf(w[1]) + w[2] : w \in worded} |->
                    LET w == CHOOSE w \in worded : ColonOf(w[1]) + w[2] = p
                    IN  lines[w[1]].words[w[2]]],
       numbers |-> Spells(text, 10), hexes |-> Spells(text, 16),
       chunks |-> {HeadEnd(text) + c : c \in chunks},
       closes |-> closes, head |-> FALSE]

Response(status, lines, body, more, closes) ==
  Chunked_(status, lines, body, {1}, more, closes)

\* No bytes are the whole of a response that is cut off, or not understood.
Endless(response) == [response EXCEPT !.whole = Len(response.text) + 1]

Length(d) == [Header("content_length", <<d>>, <<>>) EXCEPT !.end = Eol]

\* Among blanks, on a line of its own.
LengthAmongBlanks == Header("content_length", Eol \o <<"SP", "0", "2", "SP">>, <<>>)

Other == Header("general", <<"x">>, <<>>)
Upgrade == Header("upgrade", <<"x">>, <<>>)
Connection_ == Header("connection", <<"x", "x">>, <<"conn_matching", "conn_upgrade">>)
Chunked == Header("transfer_encoding", <<"x", "x">>, <<"te_matching", "te_chunked">>)
Coded == Header("transfer_encoding", <<"x", "x">>, <<"te_matching">>)

XX == <<"x", "x">>

KeptOpen ==
  {Response("plain", <<Length("2")>>, XX, <<"x">>, FALSE),
   Response("plain", <<Length("0")>>, <<>>, <<>>, FALSE),
   Response("none", <<Other>>, <<>>, <<>>, FALSE),
   Response("none", <<Length("2")>>, XX, StatusLine_, FALSE),
   Response("switching", <<Upgrade, Connection_>>, <<>>, <<"x">>, FALSE)}

Closed ==
  {Response("plain", <<Other>>, XX, <<>>, TRUE),
   Response("plain", <<Coded>>, XX, <<>>, TRUE),
   Response("switching", <<Other>>, <<>>, <<>>, TRUE)}

Chunk(size, data) == size \o Eol \o data \o Eol

Last == <<"0">> \o Eol

\* A trailer that would be a length in the head.
Trailer ==
  [Header("content_length", <<"2">>, <<>>) EXCEPT
     !.before = <<"LF">> \o Chunk(<<"2">>, Eol) \o Last]

InChunks ==
  {Chunked_("plain", <<Chunked, Trailer>>, <<>>, {1, 8}, <<>>, FALSE),
   Chunked_("plain", <<[Chunked EXCEPT !.value = XX \o <<"SP">>]>>,
            <<"0", "0", "SEMI", "0">> \o Eol \o Eol, {1}, <<"x">>, FALSE),
   Endless(Chunked_("plain", <<Chunked>>, Chunk(<<"0", "2">>, XX), {1, 9}, <<>>, TRUE))}

Odd ==
  {Response("plain", <<LengthAmongBlanks>>, XX, <<>>, FALSE),
   Endless(Response("plain", <<Length("2"), Length("2")>>, XX, <<>>, FALSE)),
   Endless(Response("plain", <<Length("2"), Chunked>>, Last \o Eol, <<>>, FALSE)),
   Endless(Response("plain", <<Length("2")>>, <<"x">>, <<>>, TRUE))}

AllResponses == KeptOpen \cup Closed \cup InChunks \cup Odd

\* To a HEAD request: the length is that of the body a GET would have.
HeadResponses == {[Response("plain", <<Length("2")>>, <<>>, <<>>, FALSE) EXCEPT !.head = TRUE]}
=============================================================================
