--------------------------- MODULE MCRequestReceiver ---------------------------
(***************************************************************************)
(* RequestReceiver with some requests of few bytes.                        *)
(***************************************************************************)
EXTENDS RequestReceiver

NoDigit == [d \in {} |-> 0]

Digits == [d \in {"0", "2"} |-> IF d = "0" THEN 0 ELSE 2]

Eol == <<"CR", "LF">>

\* Places from..(from + n - 1) as a sequence.
Run(from, n) == [i \in 1..n |-> from + i - 1]

RequestLine_(url) == <<"x", "SP">> \o url \o <<"SP", "x">> \o Eol

\* A header on its line: its name, the blanks before its value, and it; what
\* there is between the line before and this one; what the name is, and the
\* words that its value is read as.
Header(field, blank, value_) ==
  [before |-> <<>>, field |-> field, blank |-> blank, value |-> value_,
   name |-> "general", words |-> <<>>]

Line(h) == h.before \o h.field \o <<"COLON">> \o h.blank \o h.value \o Eol

\* Where a line from place at on has its colon, and its value.
ColonAt(h, at) == at + Len(h.before) + Len(h.field)

ValueAt(h, at) == ColonAt(h, at) + 1 + Len(h.blank)

Sent(h, at) ==
  [field |-> Run(at + Len(h.before), Len(h.field)),
   value |-> Run(ValueAt(h, at), Len(h.value))]

Request(url, lines, body) ==
  LET first == Len(RequestLine_(url))
      from[i \in 1..(Len(lines) + 1)] ==
        IF i = 1 THEN first + 1 ELSE from[i - 1] + Len(Line(lines[i - 1]))
      head[i \in 0..Len(lines)] ==
        IF i = 0 THEN RequestLine_(url) ELSE head[i - 1] \o Line(lines[i])
      Colons(has) ==
        {ColonAt(lines[i], from[i]) : i \in {i \in 1..Len(lines) : lines[i].name \in has}}
      WordAt(i, k) == ValueAt(lines[i], from[i]) + k - 1
      worded == UNION {{<<i, k>> : k \in DOMAIN lines[i].words} : i \in 1..Len(lines)}
  IN  [connect |-> FALSE,
       text |-> head[Len(lines)] \o Eol \o body,
       url |-> Run(3, Len(url)),
       headers |-> {Sent(lines[i], from[i]) : i \in 1..Len(lines)},
       names |-> [c \in Colons(Name) |->
                    lines[CHOOSE i \in 1..Len(lines) : ColonAt(lines[i], from[i]) = c].name],
       codings |-> Colons({"transfer_encoding"}),
       words |-> [c \in {WordAt(w[1], w[2]) : w \in worded} |->
                    LET w == CHOOSE w \in worded : WordAt(w[1], w[2]) = c
                    IN  lines[w[1]].words[w[2]]]]

XX == Header(<<"x", "x">>, <<"SP">>, <<"x", "x">>)
X == Header(<<"x">>, <<>>, <<"x">>)
Empty == Header(<<"x">>, <<"SP">>, <<>>)
Length2 == [Header(<<"x">>, <<>>, <<"2">>) EXCEPT !.name = "content_length"]
Chunked == [XX EXCEPT !.name = "transfer_encoding", !.words = <<"te_matching", "te_chunked">>]
Upgrade == [X EXCEPT !.name = "upgrade"]
Connection_ == [XX EXCEPT !.name = "connection", !.words = <<"conn_matching", "conn_upgrade">>]

\* A header of a chunked request, after its chunks.
Trailer == [X EXCEPT !.before = Eol \o <<"2">> \o Eol \o <<"x", "x">> \o Eol \o <<"0">> \o Eol]

Absolute == <<"x", "COLON", "/", "/", "x", "/">>
BadPort == <<"x", "COLON", "/", "/", "x", "COLON", "x">>
BadSchema == <<"x", "COLON", "x">>

\* HTTP/0.9.
Simple == [connect |-> FALSE,
           text |-> <<"x", "SP", "/", "x", "LF", "LF">>,
           url |-> <<3, 4>>, headers |-> {},
           names |-> <<>>, codings |-> {}, words |-> <<>>]

Connect(url, body) == [Request(url, <<>>, body) EXCEPT !.connect = TRUE]

Requests ==
  {Request(Absolute, <<XX, X, X>>, <<>>), Request(Absolute, <<Empty, XX, Empty, X>>, <<>>),
   Request(<<"/">>, <<X, Length2>>, <<"x", "x">>),
   Request(<<"/">>, <<Chunked, Trailer, XX>>, <<>>),
   Request(<<"/">>, <<Upgrade, Connection_>>, <<"x">>),
   Request(BadPort, <<>>, <<>>), Request(BadSchema, <<>>, <<>>), Simple,
   Connect(<<"x", "COLON", "2">>, <<>>), Connect(<<"/">>, <<"x">>)}

Whole == {Request(Absolute, <<XX, X>>, <<>>)}

=============================================================================
