------------------------------ MODULE HttpParser ------------------------------
(***************************************************************************)
(* http_parser_execute (src/http_parser/http_parser.c) as the proxy uses   *)
(* it: it is called with whatever one recv() returned, once or many times  *)
(* for a message, and keeps its place between the calls.                   *)
(*                                                                         *)
(* An action is one `case` of the switch; REEXECUTE leaves the byte to the *)
(* next action.  The bytes of the start line and of names and values are   *)
(* abstracted to the classes the framing of a message depends on; which    *)
(* name or value they spell is a choice.  All else is kept: the width of   *)
(* content_length, the bulk reads of a body, the marks at the data of the  *)
(* current call, and where each callback is made.                          *)
(*                                                                         *)
(* The proxy sets no on_headers_complete and never calls with len = 0, so  *)
(* F_SKIPBODY and the end of a body at the end of the stream do not occur; *)
(* its callbacks answer 0.  The parser is not lenient, and is strict.      *)
(***************************************************************************)
EXTENDS Integers, FiniteSets

CONSTANTS MaxLength, \* ULLONG_MAX
          Digit,     \* bytes that are decimal digits -> their value
          HexDigit,  \* bytes that are hexadecimal digits -> their value
          Others,    \* bytes in no name, which only urls tell from each other
          Names,     \* headers that the messages use, of those in Name
          Options    \* connection options that they use, of those in Connection

ASSUME MaxLengthAssumption == MaxLength \in Nat /\ MaxLength >= 16

ASSUME DigitAssumption ==
  /\ Digit \in [DOMAIN Digit -> 0..9]
  /\ HexDigit \in [DOMAIN HexDigit -> 0..15]
  /\ DOMAIN Digit \subseteq DOMAIN HexDigit

\* Headers the framing of a message depends on, and the options of one.
Name == {"connection", "content_length", "transfer_encoding", "upgrade"}

Connection == {"keep_alive", "close", "conn_upgrade"}

ASSUME HeadersAssumption == Names \subseteq Name /\ Options \subseteq Connection

VARIABLES parser,  \* the fields of http_parser
          nread,   \* bytes of the header so far: 0, 1 or more
          byte,    \* the byte at p, if it is still to be looked at
          inCall,  \* whether a call is being executed
          marks,   \* data of this call that no callback has got yet
          value,   \* history: what the digits of the length spell, unbounded
          phase,   \* history: the part of the message the callbacks are in
          owed,    \* history: bytes of the body, or chunk, still to be given
          pending  \* history: those of them that body_mark stands for

history == <<value, phase, owed, pending>>

vars == <<parser, nread, byte, inCall, marks, history>>

NoByte == "none"

Ends == {"CR", "LF"}

Blank == {"SP", "TAB"}

\* TOKEN: bytes of a header name.  "x" is any other than a digit.
Token == {"x"} \cup DOMAIN HexDigit

\* Bytes that a method, a coding or an option may be spelled with.
Letter == Token \ DOMAIN Digit

\* "bad" is not allowed in a header (IS_HEADER_CHAR).
Byte == Token \cup Ends \cup Blank \cup {"COLON", "COMMA", "SEMI", "bad"} \cup Others

\* The names of the digits, and of other bytes, are not those of the classes.
ASSUME ByteAssumption ==
  /\ (DOMAIN HexDigit \cup Others) \cap
       ({"x", "COLON", "COMMA", "SEMI", "bad", NoByte} \cup Ends \cup Blank) = {}
  /\ DOMAIN HexDigit \cap Others = {}

Many == 2

\* Bytes that the parser counts are those of the states up to s_headers_done.
BodyState == {"chunk_data", "chunk_data_almost_done", "chunk_data_done",
              "body_identity", "body_identity_eof", "message_done"}

StartState(type) == IF type = "request" THEN "start_req" ELSE "start_res"

\* http_parser_init.
Fresh(type) ==
  [type |-> type, state |-> StartState(type), header |-> "general",
   flags |-> {}, usesTE |-> FALSE, length |-> 0,
   http11 |-> FALSE, noBody |-> FALSE, switching |-> FALSE, connect |-> FALSE,
   upgrade |-> FALSE, errno |-> "OK"]

Init ==
  /\ parser \in {Fresh("request"), Fresh("response")}
  /\ nread = 0
  /\ byte = NoByte
  /\ inCall = FALSE
  /\ marks = {}
  /\ value = 0
  /\ phase = "idle"
  /\ owed = 0
  /\ pending = 0

-----------------------------------------------------------------------------
(* The loop over the bytes of a call.                                      *)

\* COUNT_HEADER_SIZE for the byte that is read next.
Counted(n) == IF parser.state \in BodyState \/ n = Many THEN n ELSE n + 1

\* The mark the next call starts with, when the data of this one has ended
\* within a name, a value or a url.
MarkOf ==
  [header_field |-> {"header_field"}, header_value |-> {"header_value"},
   req_url |-> {"url"}, res_status |-> {"status"}]

Resumed(state) == IF state \in DOMAIN MarkOf THEN MarkOf[state] ELSE {}

\* A call begins; there is at least one byte.
Call(c) ==
  /\ ~inCall
  /\ parser.errno = "OK"
  /\ inCall' = TRUE
  /\ marks' = Resumed(parser.state)
  /\ byte' = c
  /\ nread' = Counted(nread)
  /\ UNCHANGED <<parser, history>>

NextByte(c) ==
  /\ inCall
  /\ byte = NoByte
  /\ byte' = c
  /\ nread' = Counted(nread)
  /\ UNCHANGED <<parser, inCall, marks, history>>

\* The data of the call has ended: the callbacks for the marks are made.
EndOfData ==
  /\ inCall
  /\ byte = NoByte
  /\ inCall' = FALSE
  /\ marks' = {}
  /\ owed' = owed - pending
  /\ pending' = 0
  /\ UNCHANGED <<parser, nread, byte, value, phase>>

\* SET_ERRNO; goto error.  What is marked is not handed to any callback.
Fails(p, errno) ==
  /\ parser' = [p EXCEPT !.errno = errno]
  /\ inCall' = FALSE
  /\ byte' = NoByte
  /\ marks' = {}
  /\ pending' = 0
  /\ UNCHANGED <<nread, value, phase, owed>>

\* nread has passed max_header_size.
HeaderOverflow ==
  /\ byte # NoByte
  /\ nread = Many
  /\ parser.state \notin BodyState
  /\ Fails(parser, "HEADER_OVERFLOW")

\* A call after an error takes nothing.
CallAfterError ==
  /\ parser.errno # "OK"
  /\ UNCHANGED vars

In(state) == inCall /\ byte # NoByte /\ parser.state = state

At(state) == [parser EXCEPT !.state = state]

\* p++, or REEXECUTE with the same byte; the parser becomes p, and ms are
\* the marks then set.
Step(p, ms) ==
  /\ parser' = p
  /\ marks' = ms
  /\ UNCHANGED <<nread, inCall>>

Takes(p, ms) == Step(p, ms) /\ byte' = NoByte /\ UNCHANGED history
Again(p, ms) == Step(p, ms) /\ byte' = byte /\ UNCHANGED history

-----------------------------------------------------------------------------
(* The start line.                                                         *)

Cleared(p) == [p EXCEPT !.flags = {}, !.usesTE = FALSE, !.length = MaxLength]

\* message_begin.
Begins(state) ==
  /\ Step([Cleared(parser) EXCEPT !.state = state], marks)
  /\ byte' = NoByte
  /\ phase' = "head"
  /\ UNCHANGED <<value, owed, pending>>

BlankLine ==
  /\ In("start_res") \/ In("start_req") \/ In("dead")
  /\ byte \in Ends
  /\ Takes(parser, marks)

\* A message after the one that was to be the last.
Dead == In("dead") /\ byte \notin Ends /\ Fails(parser, "CLOSED_CONNECTION")

StartRes ==
  /\ In("start_res")
  /\ byte \notin Ends
  /\ \/ byte = "x" /\ Begins("res_line")
     \/ Fails(Cleared(parser), "INVALID_CONSTANT")

StartReq ==
  /\ In("start_req")
  /\ byte \notin Ends
  /\ \/ byte \in Letter /\ Begins("req_method")
     \/ Fails(Cleared(parser), "INVALID_METHOD")

\* s_res_H to s_res_status_start: version and status code are known when
\* the text after them begins.
StatusLine(p, v, status) ==
  [p EXCEPT !.state = "res_status", !.http11 = v,
            !.noBody = status # "plain", !.switching = status = "switching"]

ResLine ==
  /\ In("res_line")
  /\ \/ byte \notin Ends /\ Takes(parser, marks)
     \/ \E v \in BOOLEAN, status \in {"none", "switching", "plain"} :
          LET p == StatusLine(parser, v, status)
              ms == marks \cup {"status"}
          IN  \/ byte \notin Ends /\ Takes(p, ms)
              \/ byte \in Ends /\ Again(p, ms)
     \/ Fails(parser, "INVALID_STATUS")

ResStatus ==
  /\ In("res_status")
  /\ \/ byte \notin Ends /\ Takes(parser, marks)
     \/ byte = "CR" /\ Takes(At("line_almost_done"), marks \ {"status"})
     \/ byte = "LF" /\ Takes(At("header_field_start"), marks \ {"status"})

ReqMethod ==
  /\ In("req_method")
  /\ \/ byte \in Letter /\ Takes(parser, marks)
     \/ /\ byte = "SP"
        /\ \E c \in BOOLEAN :
             Takes([At("req_spaces") EXCEPT !.connect = c], marks)
     \/ Fails(parser, "INVALID_METHOD")

ReqSpaces ==
  /\ In("req_spaces")
  /\ \/ byte = "SP" /\ Takes(parser, marks)
     \/ byte \notin Ends \cup Blank /\ Takes(At("req_url"), marks \cup {"url"})
     \/ byte # "SP" /\ Fails(parser, "INVALID_URL")

\* The end of the request line: of an HTTP/0.9 one, right after the url.
RequestLine(v) ==
  [parser EXCEPT !.http11 = v,
                 !.state = IF byte = "CR" THEN "line_almost_done"
                                          ELSE "header_field_start"]

ReqUrl ==
  /\ In("req_url")
  /\ \/ byte \notin Ends \cup Blank /\ Takes(parser, marks)
     \/ byte = "SP" /\ Takes(At("req_http"), marks \ {"url"})
     \/ byte \in Ends /\ Takes(RequestLine(FALSE), marks \ {"url"})
     \/ Fails(parser, "INVALID_URL")

ReqHttp ==
  /\ In("req_http")
  /\ \/ byte \notin Ends /\ Takes(parser, marks)
     \/ byte \in Ends /\ \E v \in BOOLEAN : Takes(RequestLine(v), marks)
     \/ Fails(parser, "INVALID_VERSION")

LineAlmostDone ==
  /\ In("line_almost_done")
  /\ \/ byte = "LF" /\ Takes(At("header_field_start"), marks)
     \/ byte # "LF" /\ Fails(parser, "LF_EXPECTED")

-----------------------------------------------------------------------------
(* Header names.                                                           *)

\* header_state, once a name is known: a name whose value has not begun, or
\* how far a value has been understood.
HeaderState == Name \cup Connection \cup
  {"general", "content_length_num", "content_length_ws",
   "te_start", "te_matching", "te_token", "te_chunked",
   "conn_start", "conn_matching", "conn_token"}

HeaderFieldStart ==
  /\ In("header_field_start")
  /\ \/ byte = "CR" /\ Takes(At("headers_almost_done"), marks)
     \/ byte = "LF" /\ Again(At("headers_almost_done"), marks)
     \/ byte \in Token /\ Takes(At("header_field"), marks \cup {"header_field"})
     \/ byte \notin Ends \cup Token /\ Fails(parser, "INVALID_HEADER_TOKEN")

\* uses_transfer_encoding is set as soon as a name begins with
\* transfer-encoding, even if it then goes on.
HeaderField ==
  /\ In("header_field")
  /\ \/ byte \in Token /\ Takes(parser, marks)
     \/ /\ byte = "COLON"
        /\ \E h \in Names \cup {"general"}, te \in BOOLEAN :
             /\ h = "transfer_encoding" => te
             /\ h \in Name \ {"transfer_encoding"} => ~te
             /\ te => "transfer_encoding" \in Names
             /\ Takes([At("header_value_discard_ws") EXCEPT
                         !.header = h, !.usesTE = @ \/ te],
                      marks \ {"header_field"})
     \/ byte \notin Token \cup {"COLON"} /\ Fails(parser, "INVALID_HEADER_TOKEN")

-----------------------------------------------------------------------------
(* Header values.                                                          *)

DiscardWs ==
  /\ In("header_value_discard_ws")
  /\ \/ byte \in Blank /\ Takes(parser, marks)
     \/ byte = "CR" /\ Takes(At("header_value_discard_ws_almost_done"), marks)
     \/ byte = "LF" /\ Takes(At("header_value_discard_lws"), marks)
     \/ byte \notin Blank \cup Ends /\ Again(At("header_value_start"), marks)

DiscardWsAlmostDone ==
  /\ In("header_value_discard_ws_almost_done")
  /\ \/ byte = "LF" /\ Takes(At("header_value_discard_lws"), marks)
     \/ byte # "LF" /\ Fails(parser, "STRICT")

\* What the value of a header has been found to say.
Said(p) ==
  CASE p.header \in Connection -> [p EXCEPT !.flags = @ \cup {p.header}]
    [] p.header = "te_chunked" -> [p EXCEPT !.flags = @ \cup {"chunked"}]
    [] OTHER -> p

\* A header is through.  header_state, which the next header sets before it
\* is read, is forgotten.
HeaderDone(p) ==
  [Said(p) EXCEPT !.state = "header_field_start", !.header = "general"]

\* The value was empty, or goes on in the next line.
DiscardLws ==
  /\ In("header_value_discard_lws")
  /\ \/ byte \in Blank /\ Takes(At("header_value_discard_ws"), marks)
     \/ /\ byte \notin Blank
        /\ parser.header # "content_length"
        /\ Again(HeaderDone(parser), marks \ {"header_value"})
     \/ /\ byte \notin Blank
        /\ parser.header = "content_length"
        /\ Fails(parser, "INVALID_CONTENT_LENGTH")

\* A first digit, and one more: with the width of content_length.
FirstDigit(p, d) ==
  [p EXCEPT !.length = d, !.header = "content_length_num",
            !.flags = @ \cup {"content_length"}]

Fold(p, base, d) == [p EXCEPT !.length = (@ * base + d) % (MaxLength + 1)]

\* Fault: the limit does not leave room for the digit.
TooLongByLess(p, base) == MaxLength \div base < p.length

\* The conservative test before a digit is added.
TooLong(p, base) == (MaxLength - base) \div base < p.length

\* A value of one of the names, or any other, begins.
ValueBegins(p) ==
  CASE p.header = "transfer_encoding" ->
         {[p EXCEPT !.header = h] :
            h \in {"te_token"} \cup IF byte \in Letter THEN {"te_matching"} ELSE {}}
    [] p.header = "connection" ->
         {[p EXCEPT !.header = h] :
            h \in {"conn_token"} \cup IF byte \in Letter THEN {"conn_matching"} ELSE {}}
    [] p.header = "upgrade" ->
         {[p EXCEPT !.flags = @ \cup {"upgrade"}, !.header = "general"]}
    [] p.header \in {"te_start", "conn_start", "content_length_ws"} -> {p}
    [] OTHER -> {[p EXCEPT !.header = "general"]}

HeaderValueStart ==
  /\ In("header_value_start")
  /\ \/ /\ parser.header # "content_length"
        /\ \E p \in ValueBegins(At("header_value")) :
             Takes(p, marks \cup {"header_value"})
     \/ /\ parser.header = "content_length"
        /\ byte \in DOMAIN Digit /\ "content_length" \notin parser.flags
        /\ Step(FirstDigit(At("header_value"), Digit[byte]),
                marks \cup {"header_value"})
        /\ byte' = NoByte
        /\ value' = Digit[byte]
        /\ UNCHANGED <<phase, owed, pending>>
     \/ /\ parser.header = "content_length"
        /\ byte \notin DOMAIN Digit \/ "content_length" \in parser.flags
        /\ Fails(At("header_value"), "CONTENT_LENGTH")

\* A list of codings or connection options is looked through, token by token.
TokenStart(matching, token) ==
  CASE byte \in Token -> {token} \cup IF byte \in Letter THEN {matching} ELSE {}
    [] byte = "SP" -> {parser.header}
    [] OTHER -> {"general"}

ValueGoesOn ==
  CASE parser.header = "te_start" -> TokenStart("te_matching", "te_token")
    [] parser.header = "te_matching" ->
         {"te_token"} \cup IF byte \in Letter THEN {"te_matching", "te_chunked"} ELSE {}
    [] parser.header = "te_token" ->
         {IF byte = "COMMA" THEN "te_start" ELSE "te_token"}
    [] parser.header = "te_chunked" ->
         {IF byte = "SP" THEN "te_chunked" ELSE "te_token"}
    [] parser.header = "conn_start" -> TokenStart("conn_matching", "conn_token")
    [] parser.header = "conn_matching" ->
         {"conn_token"} \cup
           IF byte \in Letter THEN {"conn_matching"} \cup Options ELSE {}
    [] parser.header = "conn_token" ->
         {IF byte = "COMMA" THEN "conn_start" ELSE "conn_token"}
    [] parser.header \in Connection ->
         {CASE byte = "COMMA" -> "conn_start"
            [] byte = "SP" -> parser.header
            [] OTHER -> "conn_token"}
    [] OTHER -> {"general"}

\* An option counts when a comma ends it, or the end of the value.
OptionEnds(p) ==
  IF byte = "COMMA" /\ p.header \in Connection THEN Said(p) ELSE p

Numeric == {"content_length_num", "content_length_ws"}

HeaderValue ==
  /\ In("header_value")
  /\ byte \notin Ends \cup {"bad"}
  /\ parser.header \notin Numeric
  /\ \E h \in ValueGoesOn :
       Takes([OptionEnds(parser) EXCEPT !.header = h], marks)

ContentLength ==
  /\ In("header_value")
  /\ byte \notin Ends \cup {"bad"}
  /\ parser.header \in Numeric
  /\ \/ byte = "SP" /\ Takes([parser EXCEPT !.header = "content_length_ws"], marks)
     \/ /\ parser.header = "content_length_num" /\ byte \in DOMAIN Digit
        /\ ~TooLong(parser, 10)
        /\ Step(Fold(parser, 10, Digit[byte]), marks)
        /\ byte' = NoByte
        /\ value' = value * 10 + Digit[byte]
        /\ UNCHANGED <<phase, owed, pending>>
     \/ /\ byte # "SP"
        /\ \/ parser.header = "content_length_ws"
           \/ byte \notin DOMAIN Digit
           \/ TooLong(parser, 10)
        /\ Fails(parser, "INVALID_CONTENT_LENGTH")

\* Fault: the mark is kept for the end of the header.
HeaderValueEndsMarked ==
  /\ In("header_value")
  /\ \/ byte = "CR" /\ Takes(At("header_almost_done"), marks)
     \/ byte = "LF" /\ Again(At("header_almost_done"), marks)
     \/ byte = "bad" /\ Fails(parser, "INVALID_HEADER_TOKEN")

HeaderValueEnds ==
  /\ In("header_value")
  /\ \/ byte = "CR" /\ Takes(At("header_almost_done"), marks \ {"header_value"})
     \/ byte = "LF" /\ Again(At("header_almost_done"), marks \ {"header_value"})
     \/ byte = "bad" /\ Fails(parser, "INVALID_HEADER_TOKEN")

HeaderAlmostDone ==
  /\ In("header_almost_done")
  /\ \/ byte = "LF" /\ Takes(At("header_value_lws"), marks)
     \/ byte # "LF" /\ Fails(parser, "LF_EXPECTED")

Folded(p) ==
  [p EXCEPT !.header = IF @ = "content_length_num" THEN "content_length_ws" ELSE @]

HeaderValueLws ==
  /\ In("header_value_lws")
  /\ \/ byte \in Blank /\ Again(Folded(At("header_value_start")), marks)
     \/ byte \notin Blank /\ Again(HeaderDone(parser), marks)

-----------------------------------------------------------------------------
(* The end of the headers.                                                 *)

\* Fault: a status that has no body is taken for any other.
NeedsEofWhatever(p) ==
  /\ p.type = "response"
  /\ "chunked" \notin p.flags
  /\ p.usesTE \/ p.length = MaxLength

NeedsEof(p) ==
  /\ p.type = "response"
  /\ ~p.noBody
  /\ "chunked" \notin p.flags
  /\ p.usesTE \/ p.length = MaxLength

ShouldKeepAlive(p) ==
  /\ IF p.http11 THEN "close" \notin p.flags ELSE "keep_alive" \in p.flags
  /\ ~NeedsEof(p)

NewMessage(p) == IF ShouldKeepAlive(p) THEN StartState(p.type) ELSE "dead"

\* message_complete, and the end of the call when another protocol follows.
Completes ==
  /\ parser' = At(NewMessage(parser))
  /\ byte' = NoByte
  /\ phase' = "idle"
  /\ inCall' = ~parser.upgrade
  /\ marks' = IF parser.upgrade THEN {} ELSE marks

\* Headers that contradict each other.
Contradictory(p) == p.usesTE /\ "content_length" \in p.flags

Upgrades(p) ==
  IF {"upgrade", "conn_upgrade"} \subseteq p.flags
  THEN p.type = "request" \/ p.switching
  ELSE p.connect

HeadersAlmostDone ==
  /\ In("headers_almost_done")
  /\ \/ byte # "LF" /\ Fails(parser, "STRICT")
     \/ /\ byte = "LF" /\ "trailing" \in parser.flags
        /\ Again(At("message_done"), marks)
     \/ /\ byte = "LF" /\ "trailing" \notin parser.flags /\ Contradictory(parser)
        /\ Fails(parser, "UNEXPECTED_CONTENT_LENGTH")
     \/ /\ byte = "LF" /\ "trailing" \notin parser.flags /\ ~Contradictory(parser)
        /\ Again([At("headers_done") EXCEPT !.upgrade = Upgrades(parser)], marks)

HasBody(p) == "chunked" \in p.flags \/ p.length \in 1..(MaxLength - 1)

\* Nothing of this message follows.
Bodyless(p) ==
  \/ p.upgrade /\ (p.connect \/ ~HasBody(p))
  \/ /\ "chunked" \notin p.flags /\ ~p.usesTE
     /\ p.length = 0 \/ (p.length = MaxLength /\ ~NeedsEof(p))

\* The coding of a request whose length it hides.
Unreadable(p) ==
  /\ ~(p.upgrade /\ (p.connect \/ ~HasBody(p)))
  /\ "chunked" \notin p.flags /\ p.usesTE /\ p.type = "request"

\* Fault: no length is not told from a length.
BodyStartUnbounded(p) ==
  IF "chunked" \in p.flags THEN "chunk_size_start" ELSE "body_identity"

BodyStart(p) ==
  CASE "chunked" \in p.flags -> "chunk_size_start"
    [] "chunked" \notin p.flags /\ ~p.usesTE /\ p.length # MaxLength -> "body_identity"
    [] OTHER -> "body_identity_eof"

HeadersDone ==
  /\ In("headers_done")
  /\ nread' = 0
  /\ value' = 0
  /\ UNCHANGED pending
  /\ \/ /\ Bodyless(parser)
        /\ Completes
        /\ UNCHANGED owed
     \/ /\ Unreadable(parser)
        /\ parser' = [parser EXCEPT !.errno = "INVALID_TRANSFER_ENCODING"]
        /\ inCall' = FALSE /\ byte' = NoByte /\ marks' = {}
        /\ UNCHANGED <<phase, owed>>
     \/ /\ ~Bodyless(parser) /\ ~Unreadable(parser)
        /\ parser' = At(BodyStart(parser))
        /\ byte' = NoByte
        /\ phase' = "body"
        /\ owed' = IF BodyStart(parser) = "body_identity" THEN value ELSE 0
        /\ UNCHANGED <<inCall, marks>>

-----------------------------------------------------------------------------
(* Bodies.  k bytes of the data of this call are read at once.             *)

\* Fault: the byte that the loop is going to pass is counted twice.
ReadOneMore(k) == [parser EXCEPT !.length = @ - (k + 1)]

Read(k) == [parser EXCEPT !.length = @ - k]

\* Fault: the end of the data does not wait for the rest of the body.
PartOfAny(k) ==
  /\ parser' = [Read(k) EXCEPT !.state = "message_done"]
  /\ owed' = owed - (pending + k)
  /\ pending' = 0
  /\ byte' = NoByte /\ inCall' = FALSE /\ marks' = {}
  /\ UNCHANGED <<nread, value, phase>>

\* The data of the call ends first: what there is of the body is handed over.
PartOf(k) ==
  /\ k < parser.length
  /\ parser' = Read(k)
  /\ owed' = owed - (pending + k)
  /\ pending' = 0
  /\ byte' = NoByte /\ inCall' = FALSE /\ marks' = {}
  /\ UNCHANGED <<nread, value, phase>>

BodyPart(k) == (In("body_identity") \/ In("chunk_data")) /\ PartOf(k)

\* The rest of the body is there: it is handed over at once.
BodyIdentity ==
  /\ In("body_identity")
  /\ Step([Read(parser.length) EXCEPT !.state = "message_done"], marks)
  /\ owed' = owed - (pending + parser.length)
  /\ pending' = 0
  /\ UNCHANGED <<byte, value, phase>>

BodyIdentityEof ==
  /\ In("body_identity_eof")
  /\ inCall' = FALSE /\ byte' = NoByte /\ marks' = {}
  /\ UNCHANGED <<parser, nread, history>>

MessageDone ==
  /\ In("message_done")
  /\ Completes
  /\ UNCHANGED <<nread, value, owed, pending>>

ChunkSizeStart ==
  /\ In("chunk_size_start")
  /\ \/ /\ byte \in DOMAIN HexDigit
        /\ Step([At("chunk_size") EXCEPT !.length = HexDigit[byte]], marks)
        /\ byte' = NoByte
        /\ value' = HexDigit[byte]
        /\ UNCHANGED <<phase, owed, pending>>
     \/ byte \notin DOMAIN HexDigit /\ Fails(parser, "INVALID_CHUNK_SIZE")

ChunkSize ==
  /\ In("chunk_size")
  /\ \/ byte = "CR" /\ Takes(At("chunk_size_almost_done"), marks)
     \/ byte \in {"SEMI", "SP"} /\ Takes(At("chunk_parameters"), marks)
     \/ /\ byte \in DOMAIN HexDigit /\ ~TooLong(parser, 16)
        /\ Step(Fold(parser, 16, HexDigit[byte]), marks)
        /\ byte' = NoByte
        /\ value' = value * 16 + HexDigit[byte]
        /\ UNCHANGED <<phase, owed, pending>>
     \/ /\ byte \in DOMAIN HexDigit /\ TooLong(parser, 16)
        /\ Fails(parser, "INVALID_CONTENT_LENGTH")
     \/ /\ byte \notin DOMAIN HexDigit \cup {"CR", "SEMI", "SP"}
        /\ Fails(parser, "INVALID_CHUNK_SIZE")

ChunkParameters ==
  /\ In("chunk_parameters")
  /\ Takes(IF byte = "CR" THEN At("chunk_size_almost_done") ELSE parser, marks)

\* chunk_header; a chunk of no bytes is the last, and trailers follow.
ChunkSizeAlmostDone ==
  /\ In("chunk_size_almost_done")
  /\ \/ /\ byte = "LF"
        /\ parser' = IF parser.length = 0
                     THEN [At("header_field_start") EXCEPT !.flags = @ \cup {"trailing"}]
                     ELSE At("chunk_data")
        /\ byte' = NoByte
        /\ nread' = 0
        /\ owed' = value
        /\ value' = 0
        /\ UNCHANGED <<inCall, marks, phase, pending>>
     \/ byte # "LF" /\ Fails(parser, "STRICT")

ChunkData ==
  /\ In("chunk_data")
  /\ Step([Read(parser.length) EXCEPT !.state = "chunk_data_almost_done"],
          marks \cup {"body"})
  /\ byte' = NoByte
  /\ pending' = pending + parser.length
  /\ UNCHANGED <<value, phase, owed>>

ChunkDataAlmostDone ==
  /\ In("chunk_data_almost_done")
  /\ \/ /\ byte = "CR"
        /\ Step(At("chunk_data_done"), marks \ {"body"})
        /\ byte' = NoByte
        /\ owed' = owed - pending
        /\ pending' = 0
        /\ UNCHANGED <<value, phase>>
     \/ byte # "CR" /\ Fails(parser, "STRICT")

ChunkDataDone ==
  /\ In("chunk_data_done")
  /\ \/ /\ byte = "LF"
        /\ parser' = At("chunk_size_start")
        /\ nread' = 0
        /\ byte' = NoByte
        /\ UNCHANGED <<inCall, marks, history>>
     \/ byte # "LF" /\ Fails(parser, "STRICT")

-----------------------------------------------------------------------------
(* What the byte at place i of a message s makes of the choices above.     *)

\* s.names has the names that count, at their colons, and s.codings is where a
\* name ends that begins with transfer-encoding.
NamesRead(s, i) ==
  parser.state = "header_field" /\ parser'.state = "header_value_discard_ws" =>
    /\ parser'.header = IF i \in DOMAIN s.names THEN s.names[i] ELSE "general"
    /\ parser'.usesTE = (parser.usesTE \/ i \in s.codings)

\* How much of chunked, or of a connection option, has been read: a part of it,
\* or all.
Word == {"te_matching", "te_chunked", "conn_matching"} \cup Connection

\* Whether the byte may be one of such a word.
InWord ==
  \/ parser.state = "header_value_start"
     /\ parser.header \in {"transfer_encoding", "connection"}
  \/ parser.state = "header_value"
     /\ parser.header \in {"te_start", "te_matching", "conn_start", "conn_matching"}

\* s.words has what each byte of such a word makes of it.
WordsRead(s, i) ==
  InWord /\ parser'.state = "header_value" /\ parser'.errno = "OK" =>
    IF i \in DOMAIN s.words THEN parser'.header = s.words[i]
                            ELSE parser'.header \notin Word

ReadsAs(s, i) == NamesRead(s, i) /\ WordsRead(s, i)

-----------------------------------------------------------------------------
CallNext ==
  \/ \E c \in Byte : Call(c) \/ NextByte(c)
  \/ EndOfData
  \/ HeaderOverflow
  \/ CallAfterError

StartLineNext ==
  \/ BlankLine \/ Dead
  \/ StartRes \/ ResLine \/ ResStatus
  \/ StartReq \/ ReqMethod \/ ReqSpaces \/ ReqUrl \/ ReqHttp
  \/ LineAlmostDone

HeaderNext ==
  \/ HeaderFieldStart \/ HeaderField
  \/ DiscardWs \/ DiscardWsAlmostDone \/ DiscardLws
  \/ HeaderValueStart \/ HeaderValue \/ ContentLength \/ HeaderValueEnds
  \/ HeaderAlmostDone \/ HeaderValueLws
  \/ HeadersAlmostDone \/ HeadersDone

BodyNext ==
  \/ \E k \in 1..(MaxLength - 1) : BodyPart(k)
  \/ BodyIdentity \/ BodyIdentityEof \/ MessageDone
  \/ ChunkSizeStart \/ ChunkSize \/ ChunkParameters \/ ChunkSizeAlmostDone
  \/ ChunkData \/ ChunkDataAlmostDone \/ ChunkDataDone

Next == CallNext \/ StartLineNext \/ HeaderNext \/ BodyNext

Spec == Init /\ [][Next]_vars

-----------------------------------------------------------------------------
(* Properties.                                                             *)

HeadState == {"start_req", "start_res", "dead", "res_line", "res_status",
  "req_method", "req_spaces", "req_url", "req_http", "line_almost_done",
  "header_field_start", "header_field", "header_value_discard_ws",
  "header_value_discard_ws_almost_done", "header_value_discard_lws",
  "header_value_start", "header_value", "header_almost_done",
  "header_value_lws", "headers_almost_done", "headers_done",
  "chunk_size_start", "chunk_size", "chunk_parameters", "chunk_size_almost_done"}

Flag == Connection \cup {"chunked", "content_length", "upgrade", "trailing"}

\* The types of the variables.
TypeOK ==
  /\ DOMAIN parser = DOMAIN Fresh("request")
  /\ parser.state \in HeadState \cup BodyState
  /\ parser.header \in HeaderState
  /\ parser.flags \subseteq Flag
  /\ parser.length \in 0..MaxLength
  /\ nread \in 0..Many
  /\ byte \in Byte \cup {NoByte}
  /\ marks \subseteq {"header_field", "header_value", "url", "status", "body"}
  /\ value \in Nat /\ owed \in Nat /\ pending \in Nat
  /\ phase \in {"idle", "head", "body"}

ChunkState == {"chunk_size_start", "chunk_size", "chunk_parameters",
               "chunk_size_almost_done", "chunk_data",
               "chunk_data_almost_done", "chunk_data_done"}

\* The assert()s of http_parser_execute hold, whatever the bytes are and
\* wherever a call ends: one byte has been counted where a chunk size begins,
\* a chunk belongs to a chunked message, a body that is being read has a
\* length and bytes left, and a value is never looked at as that of a name
\* whose value has not begun.
AssertsHold ==
  /\ In("chunk_size_start") => nread = 1
  /\ parser.state \in ChunkState => "chunked" \in parser.flags
  /\ parser.state \in {"body_identity", "chunk_data"} =>
       parser.length # 0 /\ parser.length # MaxLength
  /\ parser.state = "chunk_data_almost_done" => parser.length = 0
  /\ In("header_value") => parser.header \notin Name

\* The assert after the loop: data of one kind at most is left for a callback,
\* and it is of the kind the state of the parser stands for.
OneMark ==
  inCall /\ byte = NoByte =>
    /\ Cardinality(marks) <= 1
    /\ marks \subseteq Resumed(parser.state) \cup
         IF parser.state = "chunk_data_almost_done" THEN {"body"} ELSE {}

\* However a body is split over calls, content_length is what its digits
\* spell, less what has been read: it never wraps, and is never taken for
\* ULLONG_MAX, which stands for no length.
LengthIsExact ==
  /\ parser.state \in {"chunk_size", "chunk_parameters", "chunk_size_almost_done"}
       => parser.length = value /\ value < MaxLength
  /\ parser.state = "header_value" /\ parser.header \in Numeric
       => parser.length = value /\ value < MaxLength
  /\ parser.state \in {"body_identity", "chunk_data"}
       => parser.length = owed - pending

\* However the bytes are split over calls, the callbacks follow MessageStream:
\* headers before the body, as many bytes of it as were announced, and no
\* message complete before that.
Stream == INSTANCE MessageStream
CallbacksAreStream == Stream!Spec
=============================================================================
