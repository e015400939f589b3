---------------------------- MODULE RequestReceiver ----------------------------
(***************************************************************************)
(* How a SocketHandler takes in the request of its client:                 *)
(* receiveAndParseRequest, called for every recv(), the parser it runs     *)
(* over the data, the callbacks that run in the middle of it, and the url  *)
(* parser it runs at the end.                                              *)
(*                                                                         *)
(* HttpParser says where the callbacks are made; what they are given is    *)
(* added here.  A byte is stood for by its place in what the client sends, *)
(* so that a byte that is lost, taken twice or put in the wrong string is  *)
(* seen.  The bytes of a url are told apart as in Url, which makes the     *)
(* choices HttpParser leaves open about a url definite ones;               *)
(* http_parser_parse_url is UrlGrammar, which UrlParser is checked against.*)
(* A request is shorter than max_header_size.                              *)
(***************************************************************************)
EXTENDS HttpParser, Sequences

U == INSTANCE UrlGrammar

CONSTANTS Streams,  \* what clients send, and what is in it
          MaxPort   \* 0xffff

ASSUME StreamsAssumption == \A s \in Streams : s.text \in Seq(Byte)

\* The places of a stream from first to last.
Places(first, last) == [i \in 1..(last - first + 1) |-> first + i - 1]

\* What lies from first to last follows the first blanks of t, and goes on to
\* where the next are, or a line or t ends.
UrlLies(t, first, last) ==
  /\ \E m \in 1..(first - 1) :
       /\ \A i \in 1..(m - 1) : t[i] # "SP"
       /\ \A i \in m..(first - 1) : t[i] = "SP"
  /\ \A i \in first..last : t[i] \notin Ends \cup Blank
  /\ last < Len(t) => t[last + 1] \in Ends \cup Blank

\* What a stream names as its url is that of its request line.
ASSUME UrlAssumption ==
  \A s \in Streams :
    /\ s.url \in Seq(Nat)
    /\ \A first, last \in DOMAIN s.text :
         first <= last /\ UrlLies(s.text, first, last) => s.url = Places(first, last)

\* On a line of its own a name lies from first to last, and after a colon and
\* blanks its value, from from to upto: upto is from - 1 where there is none.
HeaderLies(t, first, last, from, upto) ==
  /\ 1 < first /\ first <= last /\ last + 1 < from /\ from <= upto + 1 /\ upto < Len(t)
  /\ t[first - 1] = "LF"
  /\ \A i \in first..last : t[i] \in Token
  /\ t[last + 1] = "COLON"
  /\ \A i \in (last + 2)..(from - 1) : t[i] \in Blank
  /\ from <= upto => t[from] \notin Blank
  /\ \A i \in from..upto : t[i] \notin Ends
  /\ t[upto + 1] \in Ends

\* What a stream names as its headers are at least those of its lines.
ASSUME LinesAssumption ==
  \A s \in Streams :
    \A first, last, from, upto \in DOMAIN s.text :
      HeaderLies(s.text, first, last, from, upto) =>
        [field |-> Places(first, last), value |-> Places(from, upto)] \in s.headers

VARIABLES stream,     \* what this client sends
          pos,        \* bytes of it that the parser was given
          text,       \* those from the mark to p
          url_state,  \* the part of parser->state that HttpParser leaves out
          sh,         \* the fields of the SocketHandler
          verdict,    \* what the last receiveAndParseRequest came to
          cut         \* history: a recv() ended within the value of a header

receiverVars == <<stream, pos, text, url_state, sh, verdict, cut>>

allVars == <<vars, receiverVars>>

\* What the fields of a new handler are.
NewHandler ==
  [req_url |-> <<>>, cur_header_field |-> <<>>, cur_header_value |-> <<>>,
   last_was_value |-> FALSE, req_headers |-> {}, req_ready |-> FALSE,
   request_full |-> 0]

ReceiverInit ==
  /\ Init
  /\ parser.type = "request"
  /\ stream \in Streams
  /\ pos = 0
  /\ text = <<>>
  /\ url_state = "spaces_before_url"
  /\ sh = NewHandler
  /\ verdict = "none"
  /\ cut = FALSE

BytesOf(places) == [i \in DOMAIN places |-> stream.text[places[i]]]

-----------------------------------------------------------------------------
(* The callbacks.  at is what they are handed; the result is the handler,  *)
(* and those of a header may answer 1 instead of 0.                        *)

\* Fault: what there is of the url is overwritten.
UrlCallbackAnew(h, at) == [h EXCEPT !.req_url = at]

UrlCallback(h, at) == [h EXCEPT !.req_url = @ \o at]

\* std::map::insert: the first value of a name is kept.
Insert(headers, field, value_) ==
  IF \E header \in headers : BytesOf(header.field) = BytesOf(field)
  THEN headers ELSE headers \cup {[field |-> field, value |-> value_]}

\* Fault: the value of the header before is kept.
HeaderFieldCallbackKeeps(h, at) ==
  IF h.last_was_value
  THEN [h EXCEPT !.req_headers = Insert(@, h.cur_header_field, h.cur_header_value),
                 !.cur_header_field = at, !.last_was_value = FALSE]
  ELSE [h EXCEPT !.cur_header_field = @ \o at]

\* Fault: what there is of a name is overwritten.
HeaderFieldCallbackAnew(h, at) ==
  IF h.last_was_value
  THEN [h EXCEPT !.req_headers = Insert(@, h.cur_header_field, h.cur_header_value),
                 !.cur_header_field = at,
                 !.cur_header_value = <<>>,
                 !.last_was_value = FALSE]
  ELSE [h EXCEPT !.cur_header_field = at]

HeaderFieldCallback(h, at) ==
  IF h.last_was_value
  THEN [h EXCEPT !.req_headers = Insert(@, h.cur_header_field, h.cur_header_value),
                 !.cur_header_field = at,
                 !.cur_header_value = <<>>,
                 !.last_was_value = FALSE]
  ELSE [h EXCEPT !.cur_header_field = @ \o at]

\* A value that comes in several parts: all but the first go to the name.
HeaderValueCallback(h, at) ==
  IF h.last_was_value
  THEN [h EXCEPT !.cur_header_field = @ \o at]
  ELSE [h EXCEPT !.cur_header_value = at, !.last_was_value = TRUE]

\* The mode is REQUEST as long as there is no request.
MessageComplete(h) == [h EXCEPT !.req_ready = TRUE]

\* The callback for what is marked as m.
OnData(h, m, at) ==
  CASE m = "url" -> UrlCallback(h, at)
    [] m = "header_field" -> HeaderFieldCallback(h, at)
    [] m = "header_value" -> HeaderValueCallback(h, at)
    [] OTHER -> h

\* The callbacks made when the marks go from before to after.
OnMarks(h, before, after) ==
  IF before \subseteq after THEN h
  ELSE OnData(h, CHOOSE m \in before \ after : TRUE, text)

\* The header callbacks answer 1, and the parser stops, when a value is there
\* and none was seen.
AnswersOne(h) == ~h.last_was_value /\ h.cur_header_value # <<>>

-----------------------------------------------------------------------------
(* receiveAndParseRequest.                                                 *)

\* Digits by their value.
UrlDigit == <<"0", "1", "2", "3", "4", "5", "6", "7", "8", "9">>

\* A byte as Url classes it.
UrlClass(c) ==
  CASE c = "COLON" -> ":"
    [] c \in {"COMMA", "SEMI"} -> "+"
    [] c \in DOMAIN Digit -> UrlDigit[Digit[c] + 1]
    [] c \in DOMAIN HexDigit \ DOMAIN Digit -> "f"
    [] c \in U!UrlByte \ DOMAIN HexDigit -> c
    [] OTHER -> "bad"

UrlBytes(places) == [i \in DOMAIN places |-> UrlClass(stream.text[places[i]])]

ParsesUrl(places) == U!WellFormed(UrlBytes(places), FALSE, MaxPort)

Receiving == verdict \in {"none", "again"} /\ ~sh.req_ready

\* recv() returns at least one byte, and http_parser_execute is called.
Receive ==
  /\ Receiving
  /\ pos < Len(stream.text)
  /\ Call(stream.text[pos + 1])
  /\ pos' = pos + 1
  /\ text' = <<>>
  /\ UNCHANGED <<stream, url_state, sh, verdict, cut>>

MoreData ==
  /\ pos < Len(stream.text)
  /\ NextByte(stream.text[pos + 1])
  /\ pos' = pos + 1
  /\ UNCHANGED <<stream, text, url_state, sh, verdict, cut>>

\* recv() returns nothing, or fails.
ReceiveNothing ==
  /\ ~inCall /\ Receiving
  /\ verdict' = "closed"
  /\ UNCHANGED <<vars, stream, pos, text, url_state, sh, cut>>

\* http_parser_execute has returned after all of the data, upto in all: the
\* url so far is parsed, whether it is whole or not.
Accepts(h, upto) ==
  /\ sh' = [h EXCEPT !.request_full = upto]
  /\ verdict' = IF ParsesUrl(h.req_url) THEN "again" ELSE "bad_url"

\* nparsed is not recved.
Unparsed == verdict' = "unparsed"

DataEnds ==
  /\ EndOfData
  /\ Accepts(OnMarks(sh, marks, {}), pos)
  /\ text' = <<>>
  /\ cut' = (cut \/ "header_value" \in marks)
  /\ UNCHANGED <<stream, pos, url_state>>

-----------------------------------------------------------------------------
(* The parser's own steps, with what they do besides.                      *)

\* The states a url may end in.
UrlMayEnd == {"server", "server_with_at", "path", "query_string_start",
              "query_string", "fragment_start", "fragment"}

UrlNext ==
  IF parser.state = "req_spaces" /\ byte # "SP"
  THEN U!ParseUrlChar(IF parser.connect THEN "server_start" ELSE "spaces_before_url",
                      UrlClass(byte))
  ELSE U!ParseUrlChar(url_state, UrlClass(byte))

\* The url's own state decides whether its bytes are taken.
UrlStep ==
  IF parser.state = "req_url" /\ byte \in Ends \cup {"SP"}
  THEN url_state' = url_state /\ (parser'.errno = "OK" <=> url_state \in UrlMayEnd)
  ELSE IF parser.state = "req_url" \/ (parser.state = "req_spaces" /\ byte # "SP")
  THEN url_state' = UrlNext /\ (parser'.errno = "OK" <=> UrlNext # "dead")
  ELSE UNCHANGED url_state

\* Which method it was.
MethodStep ==
  parser.state = "req_method" /\ parser'.state = "req_spaces" =>
    parser'.connect = stream.connect

\* A value without any byte is handed over too.
EmptyValue ==
  parser.state = "header_value_discard_lws" /\ parser'.state = "header_field_start"

\* Fault: a message without a body is not taken for complete.
CalledForBody ==
  LET h == IF EmptyValue THEN HeaderValueCallback(sh, <<>>) ELSE OnMarks(sh, marks, marks')
  IN  IF phase = "body" /\ phase' = "idle" THEN MessageComplete(h) ELSE h

\* The handler after the callbacks of a step.
Called ==
  LET h == IF EmptyValue THEN HeaderValueCallback(sh, <<>>) ELSE OnMarks(sh, marks, marks')
  IN  IF phase # "idle" /\ phase' = "idle" THEN MessageComplete(h) ELSE h

\* Bytes of a body, or of a chunk, that a step takes beside the one at p.
Bulk ==
  IF parser.state \in {"body_identity", "chunk_data"}
  THEN parser.length - parser'.length - 1 ELSE 0

\* No callback takes a body: text has no more of a chunk than its first place.
Parses ==
  /\ StartLineNext \/ HeaderNext \/ BodyNext
  /\ MethodStep
  /\ ReadsAs(stream, pos)
  /\ UrlStep
  /\ pos' = pos + Bulk
  /\ pos' <= Len(stream.text)
  /\ text' = IF marks' = {} THEN <<>>
             ELSE IF byte' = NoByte THEN Append(text, pos) ELSE text
  /\ UNCHANGED <<stream, cut>>
  /\ \/ parser'.errno # "OK" /\ Unparsed /\ UNCHANGED sh
     \/ parser'.errno = "OK" /\ inCall' /\ sh' = Called /\ UNCHANGED verdict
     \/ parser'.errno = "OK" /\ ~inCall' /\ Accepts(Called, pos')
     \/ /\ parser'.errno = "OK" /\ ~inCall' /\ phase' = "idle" /\ parser'.upgrade
        /\ pos < Len(stream.text)
        /\ Unparsed /\ sh' = Called

\* The client has no more, or the handler goes on without it.
Done == ~inCall /\ UNCHANGED allVars

ReceiverNext ==
  \/ Receive \/ MoreData \/ ReceiveNothing \/ DataEnds \/ Parses \/ Done

ReceiverSpec == ReceiverInit /\ [][ReceiverNext]_allVars

\* A client sends all of its request and keeps the connection; the poll loop
\* then calls the handler for all of it.
FairSpec ==
  /\ ReceiverSpec
  /\ WF_allVars(Receive)
  /\ WF_allVars(MoreData \/ DataEnds)
  /\ WF_allVars(Parses)

-----------------------------------------------------------------------------
(* Properties.                                                             *)

Ascending(places) ==
  \A i, j \in DOMAIN places : i < j => places[i] < places[j]

Given == Seq(1..pos)

Took(places) == {places[i] : i \in DOMAIN places}

Apart(s, t) == Took(s) \cap Took(t) = {}

HeaderApart(header, s) == Apart(header.field, s) /\ Apart(header.value, s)

\* The strings of a handler that bytes of the request are now in.
Strings ==
  {sh.req_url, sh.cur_header_field, sh.cur_header_value}
    \cup {h.field : h \in sh.req_headers} \cup {h.value : h \in sh.req_headers}

\* However the request is cut, and even where a value goes astray, each byte
\* is in one string of the handler at most, in the order it came in: none is
\* put in a header again after the header was inserted, and none is handed
\* to a callback by the call after the one that received it.
EachByteOnce ==
  /\ \A str \in Strings : str \in Given /\ Ascending(str)
  /\ Apart(sh.req_url, sh.cur_header_field)
  /\ Apart(sh.req_url, sh.cur_header_value)
  /\ Apart(sh.cur_header_field, sh.cur_header_value)
  /\ \A h \in sh.req_headers :
       /\ Apart(h.field, h.value)
       /\ \A str \in {sh.req_url, sh.cur_header_field, sh.cur_header_value} :
            HeaderApart(h, str)
  /\ \A g, h \in sh.req_headers :
       g # h => HeaderApart(g, h.field) /\ HeaderApart(g, h.value)
  /\ \A i \in DOMAIN text : text[i] \notin UNION {Took(str) : str \in Strings}

\* Wherever recv() cuts the headers, and whichever have no value, no header
\* callback answers 1: the parser is never stopped by one of them, which
\* would leave the request half taken.
CallbacksAnswerZero == ~AnswersOne(sh)

\* No header goes on in the next line, which then begins with a blank.
NoLineGoesOn ==
  parser.state \in {"header_value_discard_lws", "header_value_lws"} => byte \notin Blank

\* As long as no recv() ends within a value and no value is continued on
\* another line, req_headers holds headers of the request, each name whole
\* and with its own value, wherever names are cut.
NamesSurviveCuts == ~cut => sh.req_headers \subseteq stream.headers

\* http_parser.h:87-90 says of the callbacks for data: "It will be called
\* arbitrarily many times for each string.  E.G. you might get 10 callbacks
\* for "on_url" each providing just a few characters more data".  A url that
\* comes in parts is not refused when the whole of it would be taken.
CutUrlsAreTaken ==
  verdict = "bad_url" /\ sh.req_url # <<>> => ~ParsesUrl(stream.url)

\* No second request follows in the data of the call that ends the first, or
\* not so far that its url begins: url callbacks would add it to the url that
\* is kept.
OneRequest == sh.req_ready => parser.state # "req_url"

\* However the request is cut, the handler's url is that of the request line
\* when the request is ready, and does not change afterwards.
Intake == INSTANCE RequestIntake WITH
  target <- stream.url,
  url <- sh.req_url,
  ready <- sh.req_ready,
  refused <- verdict \in {"closed", "unparsed", "bad_url"}

ImplementsIntake == Intake!Spec

\* A client that sends a whole request is answered or refused: the handler is
\* not left waiting for more of it.
EveryRequestIsDecided ==
  <>(sh.req_ready \/ verdict \in {"closed", "unparsed", "bad_url"})
=============================================================================
